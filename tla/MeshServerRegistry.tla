------------------------- MODULE MeshServerRegistry -------------------------
(***************************************************************************)
(* MeshServer implements MeshRegistry: every connection is a session of    *)
(* the registry.  Rows are written by the statement of SQL, not by the     *)
(* lock, so a session is admitted at Upsert and looks at List.             *)
(***************************************************************************)
EXTENDS MeshServer

AddrBar == [n \in Names |-> IF nodes[n] = None THEN None ELSE nodes[n].ip]

StageBar ==
  [c \in Conns |-> IF reply[c] # None THEN "answered"
                   ELSE IF pc[c] \in {"join", "list"} THEN "admitted"
                   ELSE IF pc[c] = "reply" THEN "looked" ELSE "none"]

WhoBar ==
  [c \in Conns |-> IF StageBar[c] = "none" THEN None ELSE agent[c].name]

(* Agents know their peers by address; the table says whose it is.         *)
NamesOf(rows) == {n \in Registered : nodes[n].ip \in IPs(rows)}

(* What a reply shows, or is going to show.                                *)
Shown(c) ==
  IF reply[c] # None THEN reply[c].peers
  ELSE IF pc[c] = "reply" THEN PeersFor(agent[c].key, snap[c]) ELSE {}

KnownBar == [c \in Conns |-> NamesOf(Shown(c)) \ {WhoBar[c]}]

Registry == INSTANCE MeshRegistry
              WITH Sessions <- Conns, addr <- AddrBar, stage <- StageBar,
                   who <- WhoBar, known <- KnownBar

(* The server keeps the promises of the registry: addresses are for life,  *)
(* and an answer shows everybody who was enrolled when the table was read, *)
(* which is never before the agent's own row was there.                    *)
ImplementsRegistry == Registry!RSpec
=============================================================================
