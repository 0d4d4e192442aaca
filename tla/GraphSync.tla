----------------------------- MODULE GraphSync -----------------------------
(***************************************************************************)
(* The graph of ui/src/server/UnifiedGraphProjection.ts and the copies the *)
(* pages keep of it (ui/src/client/core/store-bindings.ts).  Every change  *)
(* is emitted as a delta to the sockets that are open; a page that opens   *)
(* a socket asks for a snapshot and applies what the socket carries, in    *)
(* order, to whatever it still shows.                                      *)
(*                                                                         *)
(* A node is the set of the optional fields it carries (a truth, the mark  *)
(* of a contradiction); an edge is its two ends, because no operation      *)
(* removes one type of several.  Sequence numbers are left out: pages and  *)
(* server exchange them and decide nothing by them.                        *)
(***************************************************************************)
EXTENDS SequencesExt, Naturals

CONSTANTS Viewers, Terms, Fields,
          MaxEdits, MaxUnderway   \* bounds: changes of the graph, frames of a socket

ASSUME SyncAssumption == MaxEdits \in Nat /\ MaxUnderway \in Nat \ {0} /\ "contradiction" \in Fields

VARIABLES nodes, edges, focusTerm,   \* the projection
          shown,      \* per page: the nodes and edges of its stores
          wire,       \* per page: the frames its socket carries
          link,       \* per page: closed, opening (sync.request is under way) or synced
          edits     \* so far

graphVars == <<nodes, edges, focusTerm>>
syncVars == <<graphVars, shown, wire, link, edits>>

Empty == [t \in {} |-> {}]
Pairs == {e \in Terms \X Terms : e[1] # e[2]}
Known(ns) == {e \in Pairs : e[1] \in DOMAIN ns /\ e[2] \in DOMAIN ns}
Overlay(f, g) == [t \in DOMAIN f \cup DOMAIN g |-> IF t \in DOMAIN g THEN g[t] ELSE f[t]]

\* The operations of a delta, each kind in the place the code gives it.
Delta(gone, merged, added, cut, joined) ==
  [kind |-> "delta", gone |-> gone, merged |-> merged, added |-> added,
   cut |-> cut, joined |-> joined]

Snapshot == [kind |-> "snapshot", nodes |-> nodes, edges |-> edges]

-----------------------------------------------------------------------------
(* The page *)

\* applyGraphOps: an update merges into the node it finds; an edge needs both ends.
ApplyGraphOps(view, d) ==
  LET kept == [t \in DOMAIN view.nodes \ d.gone |->
                 view.nodes[t] \cup (IF t \in DOMAIN d.merged THEN d.merged[t] ELSE {})]
      ns == Overlay(kept, d.added)
  IN [nodes |-> ns, edges |-> (view.edges \ d.cut) \cup (d.joined \cap Known(ns))]

\* Mutant: a snapshot is applied as the nodes and edges to add.
ApplyFrameAdding(view, f) ==
  IF f.kind = "snapshot"
    THEN [nodes |-> Overlay(view.nodes, f.nodes), edges |-> view.edges \cup f.edges]
    ELSE ApplyGraphOps(view, f)

\* applyServerMessage.
ApplyFrame(view, f) ==
  IF f.kind = "snapshot" THEN [nodes |-> f.nodes, edges |-> f.edges]
  ELSE ApplyGraphOps(view, f)

ReceiveFrames(p) ==
  /\ wire[p] # <<>>
  /\ shown' = [shown EXCEPT ![p] = ApplyFrame(@, Head(wire[p]))]
  /\ wire' = [wire EXCEPT ![p] = Tail(@)]
  /\ UNCHANGED <<graphVars, link, edits>>

-----------------------------------------------------------------------------
(* The server *)

RoomFor == \A p \in Viewers : Len(wire[p]) < MaxUnderway

\* #emitAll, to the sockets that are open.
EmitAll(d, open) == wire' = [p \in Viewers |-> IF p \in open THEN Append(wire[p], d) ELSE wire[p]]
OpenSocket == {p \in Viewers : link[p] # "closed"}

Change(d) ==
  /\ RoomFor /\ edits < MaxEdits /\ edits' = edits + 1
  /\ EmitAll(d, OpenSocket) /\ UNCHANGED <<shown, link>>

\* applyDelta with one node, as every reducer of event-reducers.ts calls it:
\* the node is replaced, and its edges are kept when both ends are known.
ApplyDelta(t, fields, es) ==
  LET fresh == [s \in {t} |-> fields]
      joined == es \cap Known(nodes')
  IN /\ nodes' = Overlay(nodes, fresh) /\ edges' = edges \cup joined
     /\ Change(IF t \in DOMAIN nodes THEN Delta({}, fresh, Empty, {}, joined)
               ELSE Delta({}, Empty, fresh, {}, joined))
     /\ UNCHANGED focusTerm

\* markContradiction and, with the fields of its patch, applyObjectPatch of a node.
Mark(ts, fields) ==
  LET marked == [t \in ts \cap DOMAIN nodes |-> nodes[t] \cup fields]
  IN /\ ts \cap DOMAIN nodes # {}
     /\ nodes' = Overlay(nodes, marked)
     /\ Change(Delta({}, marked, Empty, {}, {}))
     /\ UNCHANGED <<edges, focusTerm>>

\* applyEdgePatch: the edge is taken away and put back.
PatchEdge(e) ==
  /\ e \in edges /\ Change(Delta({}, Empty, Empty, {e}, {e}))
  /\ UNCHANGED graphVars

EdgesOf(t) == {e \in edges : t \in {e[1], e[2]}}

\* Mutant: the page is told of the node only.
RemoveNodeOnly(t) ==
  /\ t \in DOMAIN nodes
  /\ nodes' = [s \in DOMAIN nodes \ {t} |-> nodes[s]] /\ edges' = edges \ EdgesOf(t)
  /\ Change(Delta({t}, Empty, Empty, {}, {}))
  /\ UNCHANGED focusTerm

\* removeNode.
RemoveNode(t) ==
  /\ t \in DOMAIN nodes
  /\ nodes' = [s \in DOMAIN nodes \ {t} |-> nodes[s]] /\ edges' = edges \ EdgesOf(t)
  /\ Change(Delta({t}, Empty, Empty, EdgesOf(t), {}))
  /\ UNCHANGED focusTerm

\* #nodeOps: all the nodes, or the one in focus.
NodeOps(focus) == [t \in DOMAIN nodes \cap (IF focus = {} THEN Terms ELSE focus) |-> nodes[t]]

\* setFocus and, keeping the focus, setLens: on behalf of one page, to all.
SetFocus(focus) ==
  /\ focusTerm' = focus /\ Change(Delta({}, Empty, NodeOps(focus), {}, {}))
  /\ UNCHANGED <<nodes, edges>>

\* A page's socket opens: its sender is mounted, the initial state goes to
\* every page, and the page sends sync.request.
ConnectPage(p) ==
  /\ link[p] = "closed" /\ RoomFor /\ link' = [link EXCEPT ![p] = "opening"]
  /\ EmitAll(Delta({}, Empty, NodeOps(focusTerm), {}, edges), OpenSocket \cup {p})
  /\ UNCHANGED <<graphVars, shown, edits>>

\* handleSyncRequest: a snapshot, whatever number the page names.
Sync(p) ==
  /\ link[p] = "opening" /\ Len(wire[p]) < MaxUnderway
  /\ link' = [link EXCEPT ![p] = "synced"]
  /\ wire' = [wire EXCEPT ![p] = Append(@, Snapshot)]
  /\ UNCHANGED <<graphVars, shown, edits>>

\* The socket closes with what it carries; the page keeps what it shows.
LoseLink(p) ==
  /\ link[p] # "closed" /\ link' = [link EXCEPT ![p] = "closed"]
  /\ wire' = [wire EXCEPT ![p] = <<>>]
  /\ UNCHANGED <<graphVars, shown, edits>>

SyncInit ==
  /\ nodes = Empty /\ edges = {} /\ focusTerm = {}
  /\ shown = [p \in Viewers |-> [nodes |-> Empty, edges |-> {}]]
  /\ wire = [p \in Viewers |-> <<>>] /\ link = [p \in Viewers |-> "closed"]
  /\ edits = 0

SyncNext ==
  \/ \E p \in Viewers : ReceiveFrames(p) \/ ConnectPage(p) \/ Sync(p) \/ LoseLink(p)
  \/ \E t \in Terms :
       \/ \E fields \in SUBSET (Fields \ {"contradiction"}) :
            \E es \in SUBSET {e \in Pairs : e[2] = t} : ApplyDelta(t, fields, es)
       \/ \E fields \in {{f} : f \in Fields} : Mark({t}, fields)
       \/ RemoveNode(t) \/ SetFocus({t})
  \/ SetFocus({})
  \/ \E e \in Pairs : PatchEdge(e) \/ Mark({e[1], e[2]}, {"contradiction"})

SyncSpec == SyncInit /\ [][SyncNext]_syncVars

-----------------------------------------------------------------------------

Graphs(fs) == [nodes : UNION {[ts -> SUBSET fs] : ts \in SUBSET Terms}, edges : SUBSET Pairs]

SyncTypeOK ==
  /\ [nodes |-> nodes, edges |-> edges] \in Graphs(Fields) /\ focusTerm \subseteq Terms
  /\ shown \in [Viewers -> Graphs(Fields)]
  /\ link \in [Viewers -> {"closed", "opening", "synced"}]

\* What a page will show once it has applied what is under way to it.
Applied(view, frames) == FoldLeft(ApplyFrame, view, frames)
Upcoming(p) == Applied(shown[p], wire[p])

\* A page that has been answered shows, or is about to, exactly the nodes and
\* edges of the server: nothing that was removed while it was away, nothing
\* missing that arrived between its connection and its snapshot.
MembersFollow ==
  \A p \in Viewers : link[p] = "synced" =>
    /\ DOMAIN Upcoming(p).nodes = DOMAIN nodes
    /\ Upcoming(p).edges = edges

\* UnifiedGraphProjection.ts:28-29: "engine events are folded in, and every change
\* is emitted as a monotonic `cognitive.delta`".  The code: applyDelta replaces
\* a node and the page merges the update into its own, so that a field the new
\* node lacks, the mark of a contradiction for one, is never taken back there.
FieldsFollow ==
  \A p \in Viewers : link[p] = "synced" => Upcoming(p).nodes = nodes
=============================================================================
