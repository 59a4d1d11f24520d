--------------------------- MODULE ChatClientProofs ---------------------------
(***************************************************************************)
(* The chat pane keeps its map, its conversation and its saved sessions    *)
(* consistent, for any segments and any number of turns, saves and kept    *)
(* sessions.                                                               *)
(***************************************************************************)
EXTENDS ChatClient, SequenceTheorems, TLAPS

Payload == [history : Seq(Turns), polylines : Seq(Entry), pins : Seq(Entry)]

Typed == TypeOK /\ \A i \in DOMAIN store : store[i] \in Payload

(* All entries of a set were drawn for one plan.                            *)
OnePlan(S) == \A a, b \in S : a.turn = b.turn
OnMap == Range(polylines) \cup Range(pins)

(* What a running stream may still commit belongs to the plan on the map,   *)
(* which is the one asked for last; a saved map may come back at any time.  *)
MapInv ==
  /\ OnePlan(OnMap) /\ OnePlan(Range(gpx))
  /\ \A i \in DOMAIN store : OnePlan(Range(store[i].polylines) \cup Range(store[i].pins))
  /\ pc = "reading" /\ srv = "planning" => \A e \in OnMap : e.turn = turn
  /\ pc = "fetching" \/ (pc = "reading" /\ srv # "planning") => owed = {}

(* While a stream is read the question it answers is the last turn.         *)
TurnInv ==
  /\ AnswersFollowTheirQuestion
  /\ pc \in {"fetching", "reading"} =>
       Len(history) > 0 /\ history[Len(history)] = Said("user", turn)

IInv == Typed /\ MapInv /\ TurnInv /\ IndexedSessionsLoad

-----------------------------------------------------------------------------
(* Facts about the data.                                                    *)

(* Turns and session ids are numbers, newer ones the greater.               *)
LEMMA TurnIsNat == Turn \subseteq Nat /\ Id \subseteq Nat /\ MaxIndex \in Nat
  BY ClientAssumption DEF Turn, Id

(* Setting a key of a Map gives a Map whose entries are old or of this turn.*)
LEMMA MapSetType ==
  ASSUME NEW m \in Seq(Entry), NEW i \in Seg, NEW n \in Turn
  PROVE  MapSet(m, i, n) \in Seq(Entry)
<1>1. CASE \E k \in DOMAIN m : m[k].seg = i
  <2>1. m \in [1..Len(m) -> Entry] /\ Len(m) \in Nat
    OBVIOUS
  <2>2. \A k \in 1..Len(m) : [m[k] EXCEPT !.turn = n] \in Entry
    BY <2>1 DEF Entry
  <2>3. MapSet(m, i, n) \in [1..Len(m) -> Entry]
    BY <1>1, <2>1, <2>2 DEF MapSet
  <2> QED
    BY <2>1, <2>3
<1>2. CASE ~\E k \in DOMAIN m : m[k].seg = i
  <2>1. [seg |-> i, turn |-> n] \in Entry
    BY DEF Entry
  <2> QED
    BY <1>2, <2>1 DEF MapSet
<1> QED
  BY <1>1, <1>2

(* A slot that is set adds entries of that turn only.                       *)
LEMMA MapSetRange ==
  ASSUME NEW m \in Seq(Entry), NEW i \in Seg, NEW n \in Turn
  PROVE  \A e \in Range(MapSet(m, i, n)) : e.turn = n \/ e \in Range(m)
<1> SUFFICES ASSUME NEW e \in Range(MapSet(m, i, n))
             PROVE  e.turn = n \/ e \in Range(m)
  OBVIOUS
<1>0. m \in [1..Len(m) -> Entry] /\ Len(m) \in Nat /\ DOMAIN m = 1..Len(m)
  OBVIOUS
<1>1. CASE \E k \in DOMAIN m : m[k].seg = i
  <2>1. MapSet(m, i, n) = [k \in DOMAIN m |->
                             IF m[k].seg = i THEN [m[k] EXCEPT !.turn = n] ELSE m[k]]
    BY <1>1 DEF MapSet
  <2>2. PICK k \in DOMAIN m : e = IF m[k].seg = i THEN [m[k] EXCEPT !.turn = n] ELSE m[k]
    BY <2>1, Zenon DEF Range
  <2>3. [m[k] EXCEPT !.turn = n].turn = n
    BY <1>0 DEF Entry
  <2>4. m[k] \in Range(m)
    BY <2>2 DEF Range
  <2> QED
    BY <2>2, <2>3, <2>4
<1>2. CASE ~\E k \in DOMAIN m : m[k].seg = i
  <2> DEFINE new == [seg |-> i, turn |-> n]
  <2>1. new \in Entry /\ new.turn = n
    BY DEF Entry
  <2>2. MapSet(m, i, n) = Append(m, new)
    BY <1>2 DEF MapSet
  <2> HIDE DEF new
  <2>3. Append(m, new) \in Seq(Entry) /\ Len(Append(m, new)) = Len(m) + 1
    BY <2>1
  <2>4. PICK k \in 1..Len(m) + 1 : e = Append(m, new)[k]
    BY <2>2, <2>3 DEF Range
  <2>5. CASE k = Len(m) + 1
    BY <2>1, <2>4, <2>5
  <2>6. CASE k \in 1..Len(m)
    BY <1>0, <2>4, <2>6 DEF Range
  <2> QED
    BY <1>0, <2>5, <2>6
<1> QED
  BY <1>1, <1>2

(* What lies in the slots are entries.                                      *)
LEMMA RangeType ==
  ASSUME NEW m \in Seq(Entry)
  PROVE  Range(m) \subseteq Entry
  BY RangeOfSeq

(* An empty map shows nothing.                                              *)
LEMMA RangeOfEmpty == Range(<<>>) = {}
  BY DEF Range

(* A prefix of a sequence.                                                  *)
LEMMA PrefixType ==
  ASSUME NEW S, NEW s, NEW n \in Nat, \A i \in 1..n : s[i] \in S
  PROVE  /\ SubSeq(s, 1, n) \in Seq(S)
         /\ Len(SubSeq(s, 1, n)) = n
         /\ \A i \in 1..n : SubSeq(s, 1, n)[i] = s[i]
<1>1. /\ SubSeq(s, 1, n) \in Seq(S)
      /\ Len(SubSeq(s, 1, n)) = IF 1 <= n THEN n - 1 + 1 ELSE 0
      /\ \A i \in 1..n - 1 + 1 : SubSeq(s, 1, n)[i] = s[1 + i - 1]
  BY SubSeqProperties
<1>2. n - 1 + 1 = n /\ (~(1 <= n) => n = 0) /\ \A i \in 1..n : 1 + i - 1 = i
  OBVIOUS
<1> QED
  BY <1>1, <1>2

(* The last message of a conversation is taken back.                        *)
LEMMA PopType ==
  ASSUME NEW h \in Seq(Turns)
  PROVE  /\ Pop(h) \in Seq(Turns)
         /\ \A i \in DOMAIN Pop(h) : i \in DOMAIN h /\ Pop(h)[i] = h[i]
<1>1. CASE h = <<>>
  BY <1>1 DEF Pop
<1>2. CASE h # <<>>
  <2>1. PICK n \in Nat : n = Len(h) - 1 /\ \A i \in 1..n : i \in DOMAIN h /\ h[i] \in Turns
    BY <1>2
  <2>2. /\ SubSeq(h, 1, n) \in Seq(Turns) /\ Len(SubSeq(h, 1, n)) = n
        /\ \A i \in 1..n : SubSeq(h, 1, n)[i] = h[i]
    BY <2>1, PrefixType
  <2>3. Pop(h) = SubSeq(h, 1, n)
    BY <1>2, <2>1 DEF Pop, Front
  <2> QED
    BY <2>1, <2>2, <2>3
<1> QED
  BY <1>1, <1>2

(* Dropping the last message leaves no answer without its question.         *)
LEMMA PopFollows ==
  ASSUME NEW h \in Seq(Turns), AnswersFollow(h)
  PROVE  AnswersFollow(Pop(h))
<1> SUFFICES ASSUME NEW i \in DOMAIN Pop(h), Pop(h)[i].role = "assistant"
             PROVE  i > 1 /\ Pop(h)[i-1] = Said("user", Pop(h)[i].turn)
  BY DEF AnswersFollow
<1>1. i \in DOMAIN h /\ Pop(h)[i] = h[i] /\ Pop(h) \in Seq(Turns)
  BY PopType
<1>2. i > 1 /\ h[i-1] = Said("user", h[i].turn)
  BY <1>1 DEF AnswersFollow
<1>3. i \in 1..Len(Pop(h)) /\ i \in Nat
  BY <1>1
<1>4. i - 1 \in DOMAIN Pop(h)
  BY <1>1, <1>2, <1>3
<1> QED
  BY <1>1, <1>2, <1>4, PopType

(* A question may always be appended, an answer only to its own question.   *)
LEMMA AppendFollows ==
  ASSUME NEW h \in Seq(Turns), AnswersFollow(h), NEW n \in Turn
  PROVE  /\ AnswersFollow(Append(h, Said("user", n)))
         /\ Len(h) > 0 /\ h[Len(h)] = Said("user", n) =>
              AnswersFollow(Append(h, Said("assistant", n)))
<1>1. ASSUME NEW t \in Turns,
             t.role = "assistant" => Len(h) > 0 /\ h[Len(h)] = Said("user", t.turn)
      PROVE  AnswersFollow(Append(h, t))
  <2> DEFINE g == Append(h, t)
  <2>1. /\ g \in Seq(Turns) /\ Len(g) = Len(h) + 1 /\ Len(h) \in Nat
        /\ g[Len(h) + 1] = t /\ \A i \in 1..Len(h) : g[i] = h[i]
    OBVIOUS
  <2> HIDE DEF g
  <2> SUFFICES ASSUME NEW i \in DOMAIN g, g[i].role = "assistant"
               PROVE  i > 1 /\ g[i-1] = Said("user", g[i].turn)
    BY DEF AnswersFollow, g
  <2>2. CASE i = Len(h) + 1
    BY <1>1, <2>1, <2>2
  <2>3. CASE i \in 1..Len(h)
    <3>1. g[i] = h[i] /\ i \in DOMAIN h
      BY <2>1, <2>3
    <3>2. i > 1 /\ h[i-1] = Said("user", h[i].turn)
      BY <3>1 DEF AnswersFollow
    <3> QED
      BY <2>1, <2>3, <3>1, <3>2
  <2> QED
    BY <2>1, <2>2, <2>3
<1>2. /\ Said("user", n) \in Turns /\ Said("user", n).role # "assistant"
      /\ Said("assistant", n) \in Turns /\ Said("assistant", n).turn = n
  BY DEF Said, Turns
<1> QED
  BY <1>1, <1>2

(* The index keeps its newest sessions, the one just saved among them.      *)
LEMMA NewestType ==
  ASSUME NEW ix \in Seq(Id), NEW n \in Id
  PROVE  LET kept == Newest(<<n>> \o ix)
         IN  /\ kept \in Seq(Id) /\ Len(kept) <= MaxIndex
             /\ Range(kept) \subseteq {n} \cup Range(ix)
<1> DEFINE ids == <<n>> \o ix
<1>1. /\ ids \in Seq(Id) /\ Len(ids) \in Nat
      /\ \A k \in 1..Len(ids) : ids[k] \in Id
      /\ Range(ids) = {n} \cup Range(ix)
  <2>1. <<n>> \in Seq(Id) /\ Range(<<n>>) = {n}
    BY DEF Range
  <2>2. ids \in Seq(Id)
    BY <2>1, ConcatProperties
  <2>3. Range(ids) = {n} \cup Range(ix)
    <3> HIDE DEF ids
    <3>1. Range(<<n>> \o ix) = Range(<<n>>) \cup Range(ix)
      BY <2>1, RangeConcatenation, ZenonT(30)
    <3> QED
      BY <2>1, <3>1 DEF ids
  <2> HIDE DEF ids
  <2> QED
    BY <2>2, <2>3
<1> HIDE DEF ids
<1>2. CASE Len(ids) <= MaxIndex
  BY <1>1, <1>2 DEF Newest, ids
<1>3. CASE ~(Len(ids) <= MaxIndex)
  <2> DEFINE cut == SubSeq(ids, 1, MaxIndex)
  <2>1. MaxIndex \in Nat /\ MaxIndex <= Len(ids)
    BY <1>1, <1>3, TurnIsNat
  <2>2. \A k \in 1..MaxIndex : k \in 1..Len(ids)
    BY <1>1, <2>1
  <2>3. cut \in Seq(Id) /\ Len(cut) = MaxIndex /\ \A k \in 1..MaxIndex : cut[k] = ids[k]
    BY <1>1, <2>1, <2>2, PrefixType
  <2>4. Newest(ids) = cut
    BY <1>3 DEF Newest
  <2> HIDE DEF cut
  <2>5. Range(cut) \subseteq Range(ids)
    BY <1>1, <2>2, <2>3 DEF Range
  <2>6. Newest(ids) \in Seq(Id) /\ Len(Newest(ids)) <= MaxIndex /\ Range(Newest(ids)) \subseteq {n} \cup Range(ix)
    BY <1>1, <2>1, <2>3, <2>4, <2>5
  <2> QED
    BY <2>6 DEF ids
<1> QED
  BY <1>2, <1>3

-----------------------------------------------------------------------------
(* The initial states.                                                      *)

(* A fresh pane has the invariant.                                          *)
LEMMA InitInv == Init => IInv
<1> SUFFICES ASSUME Init
             PROVE  IInv
  OBVIOUS
<1>1. Typed
  <2>1. DOMAIN store = {}
    BY DEF Init
  <2>2. \A S : <<>> \in Seq(S)
    BY EmptySeq
  <2>3. Len(index) <= MaxIndex /\ turn \in 0..MaxTurns /\ saves \in 0..MaxSaves
    BY ClientAssumption DEF Init
  <2> QED
    BY <2>1, <2>2, <2>3 DEF Init, Typed, TypeOK
<1>2. MapInv
  BY RangeOfEmpty DEF Init, MapInv, OnePlan, OnMap
<1>3. TurnInv
  BY DEF Init, TurnInv, AnswersFollowTheirQuestion, AnswersFollow
<1>4. IndexedSessionsLoad
  BY RangeOfEmpty DEF Init, IndexedSessionsLoad
<1> QED
  BY <1>1, <1>2, <1>3, <1>4 DEF IInv

-----------------------------------------------------------------------------
(* Saving.                                                                  *)

(* A save stores the snapshot under one id and lists only ids it keeps.     *)
LEMMA SaveEffect ==
  ASSUME IInv, Save
  PROVE  /\ saves' \in 0..MaxSaves /\ DOMAIN store' \subseteq Id
         /\ \A i \in DOMAIN store' : \/ store'[i] = Snapshot
                                     \/ i \in DOMAIN store /\ store'[i] = store[i]
         /\ index' \in Seq(Id) /\ Len(index') <= MaxIndex
         /\ Range(index') \subseteq DOMAIN store'
<1> DEFINE kept == Newest(<<saves'>> \o index)
           dropped == Range(index) \ Range(kept)
           written == [i \in DOMAIN store \cup {saves'} |->
                         IF i = saves' THEN Snapshot ELSE store[i]]
<1>1. saves' \in Id /\ saves' \in 0..MaxSaves
  BY ClientAssumption DEF IInv, Typed, TypeOK, Save, Id
<1>2. /\ index \in Seq(Id) /\ Len(index) <= MaxIndex /\ Range(index) \subseteq DOMAIN store
      /\ DOMAIN store \subseteq Id
  BY DEF IInv, Typed, TypeOK, IndexedSessionsLoad
<1>3. kept \in Seq(Id) /\ Len(kept) <= MaxIndex /\ Range(kept) \subseteq {saves'} \cup Range(index)
  BY <1>1, <1>2, NewestType
<1>4. \/ UNCHANGED <<store, index>>
      \/ store' = written /\ dropped = {} /\ UNCHANGED index
      \/ store' = Restrict(written, DOMAIN written \ dropped) /\ index' = kept
  BY DEF Save
<1>5. /\ DOMAIN written = DOMAIN store \cup {saves'}
      /\ \A i \in DOMAIN written : \/ written[i] = Snapshot
                                   \/ i \in DOMAIN store /\ written[i] = store[i]
  OBVIOUS
<1> HIDE DEF kept, written
<1>6. CASE UNCHANGED <<store, index>>
  BY <1>1, <1>2, <1>6
<1>7. CASE store' = written /\ UNCHANGED index
  BY <1>1, <1>2, <1>5, <1>7
<1>8. CASE store' = Restrict(written, DOMAIN written \ dropped) /\ index' = kept
  <2>1. /\ DOMAIN store' = DOMAIN written \ dropped
        /\ \A i \in DOMAIN store' : store'[i] = written[i]
    BY <1>8 DEF Restrict
  <2>2. Range(kept) \subseteq DOMAIN written \ dropped
    BY <1>2, <1>3, <1>5
  <2> HIDE DEF dropped
  <2> QED
    BY <1>1, <1>2, <1>3, <1>5, <1>8, <2>1, <2>2
<1> QED
  BY <1>4, <1>6, <1>7, <1>8

(* A snapshot is the conversation and both maps of the moment.              *)
LEMMA SnapshotFields ==
  /\ Snapshot.history = history /\ Snapshot.polylines = polylines /\ Snapshot.pins = pins
  /\ IInv => Snapshot \in Payload
  BY DEF Snapshot, IInv, Typed, TypeOK, Payload

-----------------------------------------------------------------------------
(* Every step keeps the types.                                              *)

(* Each step keeps the pane well-typed.                                     *)
LEMMA TypedStep == IInv /\ Next => Typed'
<1> SUFFICES ASSUME IInv, Next
             PROVE  Typed'
  OBVIOUS
<1>0. Typed
  BY DEF IInv
<1> USE <1>0 DEF Typed, TypeOK
<1>1. CASE Submit
  <2>1. turn' \in Turn /\ turn' \in 0..MaxTurns
    BY <1>1, ClientAssumption DEF Submit, Turn
  <2>2. Said("user", turn') \in Turns
    BY <2>1 DEF Said, Turns
  <2>3. history' \in Seq(Turns)
    BY <1>1, <2>2 DEF Submit
  <2> QED
    BY <1>1, <2>1, <2>3 DEF Submit, mapVars, storeVars
<1>2. CASE ResponseStarts
  BY <1>2 DEF ResponseStarts, mapVars, storeVars
<1>3. CASE SupervisorStart
  <2>1. polylines' \in Seq(Entry) /\ pins' \in Seq(Entry) /\ drawn' \subseteq Entry
    BY <1>3, EmptySeq DEF SupervisorStart
  <2> QED
    BY <1>3, <2>1 DEF SupervisorStart, storeVars
<1>4. CASE Text
  BY <1>4 DEF Text, mapVars, storeVars
<1>5. ASSUME NEW i \in Seg, SegmentCommit(i)
      PROVE  Typed'
  <2>1. turn \in Turn
    BY <1>5 DEF IInv, TurnInv, SegmentCommit, Said, Turns
  <2>2. polylines' \in Seq(Entry) /\ pins' \in Seq(Entry)
    BY <1>5, <2>1, MapSetType DEF SegmentCommit
  <2>3. drawn' \subseteq Entry
    BY <1>5, <2>2, RangeType DEF SegmentCommit
  <2> QED
    BY <1>5, <2>2, <2>3 DEF SegmentCommit, storeVars
<1>6. CASE StreamEnds
  <2>1. turn \in Turn
    BY <1>6 DEF IInv, TurnInv, StreamEnds, Said, Turns
  <2>2. Said("assistant", turn) \in Turns
    BY <2>1 DEF Said, Turns
  <2>3. history' \in Seq(Turns) /\ gpx' \in Seq(Entry)
    BY <1>6, <2>2 DEF StreamEnds
  <2> QED
    BY <1>6, <2>3 DEF StreamEnds, storeVars
<1>7. CASE Settles
  <2>1. Finish
    BY <1>7 DEF Settles, StreamBreaks, Aborted, FetchFails
  <2>2. history' \in Seq(Turns)
    BY <2>1, PopType DEF Finish
  <2> QED
    BY <2>1, <2>2 DEF Finish, mapVars, storeVars
<1>8. CASE Reset
  BY <1>8, EmptySeq DEF Reset, Abort, storeVars
<1>9. CASE Save
  <2>1. /\ saves' \in 0..MaxSaves /\ DOMAIN store' \subseteq Id
        /\ index' \in Seq(Id) /\ Len(index') <= MaxIndex
    BY <1>9, SaveEffect
  <2>2. \A i \in DOMAIN store' : store'[i] \in Payload
    BY <1>9, SaveEffect, SnapshotFields
  <2>3. UNCHANGED <<convVars, mapVars>>
    BY <1>9 DEF Save
  <2> QED
    BY <2>1, <2>2, <2>3 DEF convVars, mapVars
<1>10. ASSUME NEW i \in Id, Load(i)
       PROVE  Typed'
  <2>1. store[i] \in Payload
    BY <1>10 DEF Load
  <2>2. /\ store[i].history \in Seq(Turns) /\ store[i].polylines \in Seq(Entry)
        /\ store[i].pins \in Seq(Entry)
    BY <2>1 DEF Payload
  <2>3. drawn' \subseteq Entry
    BY <1>10, <2>2, RangeType DEF Load
  <2> QED
    BY <1>10, <2>2, <2>3 DEF Load, Abort, storeVars
<1> QED
  BY <1>1, <1>2, <1>3, <1>4, <1>5, <1>6, <1>7, <1>8, <1>9, <1>10 DEF Next

-----------------------------------------------------------------------------
(* Every step keeps the map of one plan.                                    *)

(* Each step keeps the map, and every stored one, of one plan.              *)
LEMMA MapStep == IInv /\ Next => MapInv'
<1> SUFFICES ASSUME IInv, Next
             PROVE  MapInv'
  OBVIOUS
<1>0. MapInv /\ polylines \in Seq(Entry) /\ pins \in Seq(Entry)
  BY DEF IInv, Typed, TypeOK
<1> USE <1>0 DEF MapInv, OnMap
<1>1. CASE Submit
  BY <1>1 DEF Submit, mapVars, storeVars
<1>2. CASE ResponseStarts
  BY <1>2 DEF ResponseStarts, mapVars, storeVars
<1>3. CASE SupervisorStart
  <2>1. OnMap' = {}
    BY <1>3, RangeOfEmpty DEF SupervisorStart
  <2> QED
    BY <1>3, <2>1 DEF SupervisorStart, storeVars, OnePlan
<1>4. CASE Text
  BY <1>4 DEF Text, mapVars, storeVars
<1>5. ASSUME NEW i \in Seg, SegmentCommit(i)
      PROVE  MapInv'
  <2>1. turn \in Turn /\ \A e \in OnMap : e.turn = turn
    BY <1>5 DEF IInv, TurnInv, Typed, TypeOK, SegmentCommit, Said, Turns
  <2>2. \A e \in Range(polylines') \cup Range(pins') : e.turn = turn
    BY <1>5, <2>1, MapSetRange DEF SegmentCommit
  <2> QED
    BY <1>5, <2>2 DEF SegmentCommit, storeVars, OnePlan
<1>6. CASE StreamEnds
  BY <1>6 DEF StreamEnds, storeVars, OnePlan
<1>7. CASE Settles
  BY <1>7 DEF Settles, StreamBreaks, Aborted, FetchFails, Finish, mapVars, storeVars
<1>8. CASE Reset
  BY <1>8 DEF Reset, Abort, storeVars
<1>9. CASE Save
  <2>1. UNCHANGED <<convVars, mapVars>>
    BY <1>9 DEF Save
  <2>2. ASSUME NEW i \in DOMAIN store'
        PROVE  OnePlan(Range(store'[i].polylines) \cup Range(store'[i].pins))
    BY <1>9, <2>2, SaveEffect, SnapshotFields
  <2> QED
    BY <2>1, <2>2 DEF convVars, mapVars
<1>10. ASSUME NEW i \in Id, Load(i)
       PROVE  MapInv'
  BY <1>10 DEF Load, Abort, storeVars
<1> QED
  BY <1>1, <1>2, <1>3, <1>4, <1>5, <1>6, <1>7, <1>8, <1>9, <1>10 DEF Next

-----------------------------------------------------------------------------
(* Every step keeps answers with their questions.                           *)

(* Each step keeps answers behind their questions, stored ones included.    *)
LEMMA TurnStep == IInv /\ Next => TurnInv'
<1> SUFFICES ASSUME IInv, Next
             PROVE  TurnInv'
  OBVIOUS
<1>0. TurnInv /\ history \in Seq(Turns)
  BY DEF IInv, Typed, TypeOK
<1> USE <1>0 DEF TurnInv, AnswersFollowTheirQuestion
<1>1. CASE Submit
  <2>1. turn' \in Turn
    BY <1>1, ClientAssumption DEF Submit, Turn, IInv, Typed, TypeOK
  <2>2. Said("user", turn') \in Turns
    BY <2>1 DEF Said, Turns
  <2>3. history' = Append(history, Said("user", turn'))
    BY <1>1 DEF Submit
  <2>4. Len(history') > 0 /\ history'[Len(history')] = Said("user", turn')
    BY <2>2, <2>3
  <2>5. AnswersFollow(history')
    BY <2>1, <2>3, AppendFollows
  <2> QED
    BY <1>1, <2>4, <2>5 DEF Submit, storeVars
<1>2. CASE ResponseStarts
  BY <1>2 DEF ResponseStarts, storeVars
<1>3. CASE SupervisorStart
  BY <1>3 DEF SupervisorStart, storeVars
<1>4. CASE Text
  BY <1>4 DEF Text, storeVars
<1>5. ASSUME NEW i \in Seg, SegmentCommit(i)
      PROVE  TurnInv'
  BY <1>5 DEF SegmentCommit, storeVars
<1>6. CASE StreamEnds
  <2>1. turn \in Turn
    BY <1>6 DEF StreamEnds, Said, Turns
  <2>2. AnswersFollow(history')
    BY <1>6, <2>1, AppendFollows DEF StreamEnds
  <2> QED
    BY <1>6, <2>2 DEF StreamEnds, storeVars
<1>7. CASE Settles
  <2>1. Finish
    BY <1>7 DEF Settles, StreamBreaks, Aborted, FetchFails
  <2>2. AnswersFollow(history')
    BY <2>1, PopFollows DEF Finish
  <2> QED
    BY <2>1, <2>2 DEF Finish, storeVars
<1>8. CASE Reset
  <2>1. AnswersFollow(history')
    BY <1>8 DEF Reset, AnswersFollow
  <2> QED
    BY <1>8, <2>1 DEF Reset, Abort, storeVars
<1>9. CASE Save
  <2>1. UNCHANGED <<convVars, mapVars>>
    BY <1>9 DEF Save
  <2>2. ASSUME NEW i \in DOMAIN store'
        PROVE  AnswersFollow(store'[i].history)
    BY <1>9, <2>2, SaveEffect, SnapshotFields
  <2> QED
    BY <2>1, <2>2 DEF convVars, mapVars
<1>10. ASSUME NEW i \in Id, Load(i)
       PROVE  TurnInv'
  BY <1>10 DEF Load, Abort, storeVars
<1> QED
  BY <1>1, <1>2, <1>3, <1>4, <1>5, <1>6, <1>7, <1>8, <1>9, <1>10 DEF Next

-----------------------------------------------------------------------------
(* Only saving touches the store.                                           *)

(* Each step keeps a payload for every id in the index.                     *)
LEMMA IndexStep == IInv /\ Next => IndexedSessionsLoad'
<1> SUFFICES ASSUME IInv, Next
             PROVE  IndexedSessionsLoad'
  OBVIOUS
<1>1. CASE Save
  BY <1>1, SaveEffect DEF IndexedSessionsLoad
<1>2. CASE ~Save
  <2>1. UNCHANGED storeVars
    BY <1>2 DEF Next, Submit, ResponseStarts, SupervisorStart, Text, SegmentCommit, StreamEnds,
                Settles, StreamBreaks, Aborted, FetchFails, Finish, Reset, Load
  <2> QED
    BY <2>1 DEF storeVars, IInv, IndexedSessionsLoad
<1> QED
  BY <1>1, <1>2

-----------------------------------------------------------------------------
(* The inductive invariant holds in every reachable state.                  *)
THEOREM ClientInductive == Spec => []IInv
<1>1. IInv /\ UNCHANGED vars => IInv'
  <2> SUFFICES ASSUME IInv, UNCHANGED vars
               PROVE  IInv'
    OBVIOUS
  <2> USE DEF vars, convVars, mapVars, storeVars
  <2>1. Typed'
    BY DEF IInv, Typed, TypeOK
  <2>2. MapInv'
    BY DEF IInv, MapInv, OnMap
  <2>3. TurnInv'
    BY DEF IInv, TurnInv, AnswersFollowTheirQuestion
  <2>4. IndexedSessionsLoad'
    BY DEF IInv, IndexedSessionsLoad
  <2> QED
    BY <2>1, <2>2, <2>3, <2>4 DEF IInv
<1>2. IInv /\ [Next]_vars => IInv'
  BY <1>1, TypedStep, MapStep, TurnStep, IndexStep DEF IInv
<1> QED
  BY <1>2, InitInv, PTL DEF Spec

(* The pane's state is well-typed, and its index of saved sessions never    *)
(* outgrows the MaxIndex entries the quota is planned for.                  *)
THEOREM ClientTypeCorrect == Spec => []TypeOK
  BY ClientInductive, PTL DEF IInv, Typed

(* The map, and the route a GPX button saves, never mix two plans.          *)
THEOREM MapIsOfOnePlan == Spec => []OnePlanOnMap
<1>1. IInv => OnePlanOnMap
  BY DEF IInv, MapInv, OnMap, OnePlan, OnePlanOnMap
<1> QED
  BY <1>1, ClientInductive, PTL

(* An answer follows its question, on screen and in every saved session.    *)
THEOREM AnswersStayWithQuestions == Spec => []AnswersFollowTheirQuestion
  BY ClientInductive, PTL DEF IInv, TurnInv

(* Every session the menu lists can be loaded.                              *)
THEOREM MenuSessionsLoad == Spec => []IndexedSessionsLoad
  BY ClientInductive, PTL DEF IInv
=============================================================================
