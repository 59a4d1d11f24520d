----------------------------- MODULE ChatClient -----------------------------
(***************************************************************************)
(* The chat pane, web/public/chat.js: one conversation, one stream at a    *)
(* time, a map that fills up as segments are committed, and sessions kept  *)
(* in localStorage.                                                        *)
(*                                                                         *)
(* The pane is single-threaded: code between two awaits is one action, and *)
(* streamChat is suspended only in its fetch and in reader.read.  A click  *)
(* that aborts the fetch is one event and streamChat's catch clause a      *)
(* later one.  The server is the environment: it streams what the          *)
(* coordinator of module Multiagent or an enrichment follow-up may send.   *)
(***************************************************************************)
EXTENDS Naturals, Sequences, SequencesExt

CONSTANTS Seg,        \* segment numbers of a plan
          MaxTurns,   \* bound: messages the user sends
          MaxSaves,   \* bound: sessions the user saves
          MaxIndex    \* sessions kept in the index (30)

ASSUME ClientAssumption == Seg \subseteq Nat /\ {MaxTurns, MaxSaves, MaxIndex} \subseteq Nat \ {0}

VARIABLES
  history,    \* the conversation, sent whole with every request
  turn,       \* messages sent so far
  pc,         \* idle, or where streamChat is suspended
  said,       \* asstText is not empty
  srv,        \* what the server is streaming
  owed,       \* segments the server may still commit
  polylines,  \* chatRoutePolylines: segment -> plan it was drawn for, in insertion order
  pins,       \* chatStagesByLeg, likewise
  drawn,      \* the lines the map layer displays
  gpx,        \* the route the newest GPX button saves
  saves,      \* sessions saved so far
  index,      \* chat:index, newest first
  store       \* chat:session:<id> payloads, by id

convVars == <<history, turn, pc, said, srv, owed>>
mapVars == <<polylines, pins, drawn, gpx>>
storeVars == <<saves, index, store>>
vars == <<convVars, mapVars, storeVars>>

-----------------------------------------------------------------------------
Turn == 1..MaxTurns
Id == 1..MaxSaves

Said(role, n) == [role |-> role, turn |-> n]

(* A JS Map: setting a key it holds replaces the value and keeps the place. *)
Entry == [seg : Seg, turn : Turn]
MapSet(m, i, n) == IF \E k \in DOMAIN m : m[k].seg = i
                   THEN [k \in DOMAIN m |-> IF m[k].seg = i THEN [m[k] EXCEPT !.turn = n] ELSE m[k]]
                   ELSE Append(m, [seg |-> i, turn |-> n])

Init ==
  /\ history = <<>> /\ turn = 0
  /\ pc = "idle" /\ said = FALSE /\ srv = "silent" /\ owed = {}
  /\ polylines = <<>> /\ pins = <<>> /\ drawn = {} /\ gpx = <<>>
  /\ saves = 0 /\ index = <<>> /\ store = [i \in {} |-> <<>>]

-----------------------------------------------------------------------------
(* streamChat.                                                              *)

(* The user's turn joins the history, which the request carries.  (Offline, *)
(* the same step takes it back again.)                                      *)
Submit ==
  /\ pc = "idle"
  /\ turn < MaxTurns
  /\ turn' = turn + 1
  /\ history' = Append(history, Said("user", turn'))
  /\ pc' = "fetching"
  /\ said' = FALSE /\ srv' = "silent" /\ owed' = {}
  /\ UNCHANGED <<mapVars, storeVars>>

(* The headers came: the server plans afresh, or follows up on an answer.   *)
ResponseStarts ==
  /\ pc = "fetching"
  /\ pc' = "reading"
  /\ srv' \in {"opening"} \cup (IF \E i \in DOMAIN history : history[i].role = "assistant"
                                THEN {"enriching"} ELSE {})
  /\ UNCHANGED <<history, turn, said, owed, mapVars, storeVars>>

(* Slip: the map is wiped only when it holds both lines and pins.           *)
SupervisorStartWipingBoth ==
  /\ pc = "reading" /\ srv = "opening"
  /\ srv' = "planning"
  /\ owed' \in SUBSET Seg
  /\ IF polylines # <<>> /\ pins # <<>>
     THEN polylines' = <<>> /\ pins' = <<>> /\ drawn' = {}
     ELSE UNCHANGED <<polylines, pins, drawn>>
  /\ UNCHANGED <<history, turn, pc, said, gpx, storeVars>>

(* agent_start of the supervisor: a fresh plan wipes the map's old segments *)
(* (and the snapshot of stages with them).                                  *)
SupervisorStart ==
  /\ pc = "reading" /\ srv = "opening"
  /\ srv' = "planning"
  /\ owed' \in SUBSET Seg
  /\ IF polylines # <<>> \/ pins # <<>>
     THEN polylines' = <<>> /\ pins' = <<>> /\ drawn' = {}
     ELSE UNCHANGED <<polylines, pins, drawn>>
  /\ UNCHANGED <<history, turn, pc, said, gpx, storeVars>>

(* A text delta of any agent.                                               *)
Text ==
  /\ pc = "reading" /\ srv \in {"planning", "enriching"}
  /\ ~said /\ said' = TRUE
  /\ UNCHANGED <<history, turn, pc, srv, owed, mapVars, storeVars>>

(* segment_committed: line and pins take the segment's slot.  Either may be *)
(* missing, when no route was found or no overnight has coordinates.        *)
SegmentCommit(i) ==
  /\ pc = "reading" /\ i \in owed
  /\ owed' = owed \ {i}
  /\ \/ polylines' = MapSet(polylines, i, turn) /\ drawn' = Range(polylines')
     \/ UNCHANGED <<polylines, drawn>>
  /\ \/ pins' = MapSet(pins, i, turn)
     \/ UNCHANGED pins
  /\ UNCHANGED <<history, turn, pc, said, srv, gpx, storeVars>>

(* The stream ended: the answer joins the history if any text came, and a   *)
(* GPX button is offered for the lines held, in their Map's order.          *)
StreamEnds ==
  /\ pc = "reading"
  /\ history' = IF said THEN Append(history, Said("assistant", turn)) ELSE history
  /\ gpx' = IF polylines # <<>> THEN polylines ELSE gpx
  /\ pc' = "idle"
  /\ UNCHANGED <<turn, said, srv, owed, polylines, pins, drawn, storeVars>>

(* history.pop(): the last message goes, whoever's it is.                   *)
Pop(h) == IF h = <<>> THEN h ELSE Front(h)

Finish ==
  /\ history' = Pop(history)
  /\ pc' = "idle"
  /\ UNCHANGED <<turn, said, srv, owed, mapVars, storeVars>>

(* The fetch was refused, or answered with an error status.                 *)
FetchFails == pc = "fetching" /\ Finish

(* Slip: the watchdog is armed by the first text instead of the headers.    *)
StreamBreaksOnceTexted == pc = "reading" /\ said /\ Finish

(* The connection dropped, or the idle watchdog gave up on a silent server. *)
StreamBreaks == pc = "reading" /\ Finish

(* AbortError reaches the catch clause.                                     *)
Aborted == pc = "aborted" /\ Finish

-----------------------------------------------------------------------------
(* Buttons.                                                                 *)

Abort == IF pc = "idle" THEN "idle" ELSE "aborted"

Reset ==
  /\ history' = <<>>
  /\ pc' = Abort
  /\ drawn' = {}
  /\ UNCHANGED <<turn, said, srv, owed, polylines, pins, gpx, storeVars>>

Snapshot == [history |-> history, polylines |-> polylines, pins |-> pins]

(* The index is cut to its MaxIndex newest sessions.                        *)
Newest(ids) == IF Len(ids) <= MaxIndex THEN ids ELSE SubSeq(ids, 1, MaxIndex)

(* Slip: the index is written first.                                        *)
SaveIndexFirst ==
  /\ history # <<>>
  /\ saves < MaxSaves
  /\ saves' = saves + 1
  /\ index' = Newest(<<saves'>> \o index)
  /\ \/ UNCHANGED store
     \/ store' = [i \in Range(index') |-> IF i = saves' THEN Snapshot ELSE store[i]]
  /\ UNCHANGED <<convVars, mapVars>>

(* The payload is written first, then the index.  Either write may fail when*)
(* localStorage is full; what was done stays.  (A payload that was removed  *)
(* has made room for the index.)                                            *)
Save ==
  /\ history # <<>>
  /\ saves < MaxSaves
  /\ saves' = saves + 1
  /\ LET kept == Newest(<<saves'>> \o index)
         dropped == Range(index) \ Range(kept)
         written == [i \in DOMAIN store \cup {saves'} |-> IF i = saves' THEN Snapshot ELSE store[i]]
     IN  \/ UNCHANGED <<store, index>>
         \/ store' = written /\ dropped = {} /\ UNCHANGED index
         \/ store' = Restrict(written, DOMAIN written \ dropped) /\ index' = kept
  /\ UNCHANGED <<convVars, mapVars>>

(* Slip: the stream goes on.                                                *)
LoadWithoutAbort(i) ==
  /\ i \in Range(index) /\ i \in DOMAIN store
  /\ history' = store[i].history
  /\ polylines' = store[i].polylines
  /\ drawn' = Range(store[i].polylines)
  /\ pins' = store[i].pins
  /\ UNCHANGED <<turn, pc, said, srv, owed, gpx, storeVars>>

(* A session takes the place of everything on screen; a stream is aborted.  *)
Load(i) ==
  /\ i \in Range(index) /\ i \in DOMAIN store
  /\ history' = store[i].history
  /\ polylines' = store[i].polylines
  /\ drawn' = Range(store[i].polylines)
  /\ pins' = store[i].pins
  /\ pc' = Abort
  /\ UNCHANGED <<turn, said, srv, owed, gpx, storeVars>>

-----------------------------------------------------------------------------
Settles == StreamBreaks \/ Aborted \/ FetchFails

Next == Submit \/ ResponseStarts \/ SupervisorStart \/ Text \/ (\E i \in Seg : SegmentCommit(i))
        \/ StreamEnds \/ Settles \/ Reset \/ Save \/ \E i \in Id : Load(i)

(* The browser gives up on an unanswered fetch, the watchdog on a silent    *)
(* stream, and a rejected promise runs its catch clause.  Nothing is asked  *)
(* of the server.                                                           *)
Spec == Init /\ [][Next]_vars /\ WF_vars(Settles)

-----------------------------------------------------------------------------
(* Properties.                                                              *)

Turns == [role : {"user", "assistant"}, turn : Turn]

TypeOK ==
  /\ history \in Seq(Turns) /\ turn \in 0..MaxTurns
  /\ pc \in {"idle", "fetching", "reading", "aborted"}
  /\ said \in BOOLEAN /\ srv \in {"silent", "opening", "planning", "enriching"}
  /\ owed \subseteq Seg
  /\ polylines \in Seq(Entry) /\ pins \in Seq(Entry) /\ gpx \in Seq(Entry)
  /\ drawn \subseteq Entry
  /\ saves \in 0..MaxSaves
  /\ index \in Seq(Id) /\ Len(index) <= MaxIndex    \* the quota is not spent on old sessions
  /\ DOMAIN store \subseteq Id

(* The map never mixes two plans: whatever was loaded, reset, aborted or    *)
(* left half-planned before, all lines and pins are of one plan, and so are *)
(* the lines that the GPX button saves.  So says the comment at chat.js     *)
(* 251-255, and so do 254-262, 318-355 and 719-735; the comment at 937-942  *)
(* has an iteration keep the other segments of the plan before it, which    *)
(* the supervisor of that iteration has wiped.                              *)
OnePlanOnMap ==
  \A S \in {Range(polylines) \cup Range(pins), Range(gpx)} : \A a, b \in S : a.turn = b.turn

(* An answer stands right after the question it answers, in the history     *)
(* sent with the next request and in every saved session (chat.js 927,      *)
(* 1213, 1291-1297).                                                        *)
AnswersFollow(h) ==
  \A i \in DOMAIN h : h[i].role = "assistant" => i > 1 /\ h[i-1] = Said("user", h[i].turn)

AnswersFollowTheirQuestion ==
  AnswersFollow(history) /\ \A i \in DOMAIN store : AnswersFollow(store[i].history)

(* Every session the menu lists can be loaded, whatever write failed        *)
(* (chat.js 1274-1283).                                                     *)
IndexedSessionsLoad == Range(index) \subseteq DOMAIN store

(* The pane never stays on Thinking...: every way a stream can end gives    *)
(* the input back, a server that falls silent included (chat.js 983-994).   *)
InputReturns == pc # "idle" ~> pc = "idle"

(* A stream that was aborted takes its own question out of the history and  *)
(* nothing else: no answer is lost (what chat.js 1001 says of the pop).     *)
PopTakesTheFailedTurn ==
  [][Aborted => \A i \in DOMAIN history :
       history[i].role = "assistant" => history[i] \in Range(history')]_vars
=============================================================================
