----------------------------- MODULE MCLMCalls -----------------------------
(* Three calls at a time.  Asked about its breaker, one cloud provider and one *)
(* model; asked about demotion, two models of it and the built-in one.        *)
EXTENDS LMCalls

OneProvider == {"cloud"}
OneTask == {"quality"}
OneModel == {"cloud:quality"}
NamedOf == [t \in Tasks |-> Idle]

TwoProviders == {"cloud", "transformers"}
ServesOf == [m \in Models |-> IF m = "builtin" THEN "transformers" ELSE "cloud"]
RegistriesOf == {Models, Models \cap {"builtin"}} \ {{}}
TwoTasks == {"quality", "fast"}
ThreeModels == {"builtin", "cloud:quality", "cloud:fast"}
ChainsOf ==
  [p \in Providers |-> [t \in Tasks |->
     IF p = "transformers" THEN {"builtin"}
     ELSE (Models \cap {"builtin"}) \cup {IF t = "quality" THEN "cloud:quality" ELSE "cloud:fast"}]]
=============================================================================
