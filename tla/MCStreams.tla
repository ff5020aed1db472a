----------------------------- MODULE MCStreams -----------------------------
(* The streams of a Session and the tabs of the browser bridge, which share *)
(* no state, side by side: a behaviour is one of a single part, chosen at   *)
(* the start.                                                               *)
EXTENDS FollowStream, BrowserBridge, TLC

CONSTANTS c1, c2, b1, b2

VARIABLE part

OneKey == {"todo"}
TwoClients == {c1, c2}
TwoTabs == {b1, b2}

streamsVars == <<part, vars, bridgeVars>>

\* Two clients contend for one tab, or one client has a tab that opens another.
SmallBrowser ==
  \/ connected = TwoClients /\ chrome[b2].tab = "gone"
  \/ connected = {c1} /\ chrome[b1].tab = "open" /\ chrome[b2].tab = "absent"

StreamsInit ==
  /\ Init /\ BridgeInit
  /\ \/ part = "follow" /\ connected = {} /\ \A t \in Tab : chrome[t].tab = "absent"
     \/ part = "browser" /\ SmallBrowser

StreamsNext ==
  \/ part = "follow" /\ Next /\ UNCHANGED <<part, bridgeVars>>
  \/ part = "browser" /\ BridgeNext /\ UNCHANGED <<part, vars>>

\* The fairness of each part while it is the one that runs.
StreamsFairness ==
  /\ WF_vars(part = "follow" /\ Connected)
  /\ WF_vars(part = "follow" /\ SnapshotFrame)
  /\ WF_vars(part = "follow" /\ \E n \in Seq1 : n = follow.at + 1 /\ EventFrame(n))
  /\ WF_vars(part = "follow" /\ ControlConnected)
  /\ WF_vars(part = "follow" /\ ControlBaseline)
  /\ WF_vars(part = "follow" /\ ControlPatch)
  /\ \A c \in TwoClients :
       /\ WF_bridgeVars(part = "browser" /\ SessionEnded(c))
       /\ \A t \in TwoTabs : WF_bridgeVars(part = "browser" /\ Settles(c, t))

StreamsSpec == StreamsInit /\ [][StreamsNext]_streamsVars /\ StreamsFairness

\* When faults stop, the stream that runs catches up with the log (FollowStream).
StreamCatchesUp == part = "follow" => CatchesUp
=============================================================================
