------------------------ MODULE SkillVersionsProofs ------------------------
(* What TLAPS proves of SkillVersions, for every value of the constants.    *)
EXTENDS SkillVersions, FiniteSetTheorems, TLAPS

USE DEF Contents, Versions, Positions

-----------------------------------------------------------------------------
(* How an action may change the calls.                                     *)

CallsOK == calls \in [Procs -> Call]

\* A step of p leaves the other calls alone, but for those it releases from
\* the promise they wait for.
OthersKept(p) ==
  /\ calls' \in [Procs -> Call]
  /\ \A q \in Procs \ {p} :
       \/ calls'[q] = calls[q]
       \/ calls[q].at = "generate:join" /\ calls'[q] = Idle

SameData(p) == /\ calls'[p].version = calls[p].version
               /\ calls'[p].content = calls[p].content

LEMMA NewCallType ==
  ASSUME NEW o \in Operations \cup {"none"}, NEW s \in Steps
  PROVE  NewCall(o, s) \in Call
  BY ConstantsAssumption DEF NewCall, Call

LEMMA IdleFacts ==
  Idle \in Call /\ Idle.at = "idle" /\ Idle.op = "none"
  BY NewCallType DEF Idle, Steps, NewCall

LEMMA GotoFacts ==
  ASSUME CallsOK, NEW p \in Procs, NEW s \in Steps, Goto(p, s)
  PROVE  /\ OthersKept(p) /\ SameData(p)
         /\ calls'[p].at = s /\ calls'[p].op = calls[p].op
         /\ calls'[p].rows = calls[p].rows
  BY DEF CallsOK, Goto, OthersKept, SameData, Call

\* A call that returns is idle, and nobody waits for the promise it held.
Returned(p) ==
  /\ OthersKept(p)
  /\ calls'[p] = Idle
  /\ calls[p].op = "generate" => \A q \in Procs : calls'[q].at # "generate:join"

LEMMA ReturnFacts ==
  ASSUME CallsOK, NEW p \in Procs, Return(p)
  PROVE  Returned(p)
<1>1. calls' \in [Procs -> Call]
  BY IdleFacts DEF CallsOK, Return
<1>2. calls'[p] = Idle
  BY DEF Return
<1>3. \A q \in Procs \ {p} : \/ calls'[q] = calls[q]
                             \/ calls[q].at = "generate:join" /\ calls'[q] = Idle
  BY DEF Return, At
<1>4. calls[p].op = "generate" => \A q \in Procs : calls'[q].at # "generate:join"
  BY IdleFacts DEF Return, At
<1> QED
  BY <1>1, <1>2, <1>3, <1>4 DEF Returned, OthersKept

LEMMA StartsFacts ==
  ASSUME CallsOK, NEW p \in Procs, NEW o, NEW c \in Call, Starts(p, o, c)
  PROVE  OthersKept(p) /\ calls[p] = Idle /\ calls'[p] = c
  BY DEF CallsOK, Starts, OthersKept

LEMMA AtVersion ==
  ASSUME CallsOK, NEW p \in Procs, NEW s \in Steps, NEW v \in 0..MaxContents,
         calls' = [calls EXCEPT ![p].at = s, ![p].version = v]
  PROVE  /\ OthersKept(p)
         /\ calls'[p].at = s /\ calls'[p].op = calls[p].op
         /\ calls'[p].version = v /\ calls'[p].content = calls[p].content
  BY DEF CallsOK, OthersKept, Call

LEMMA AtContent ==
  ASSUME CallsOK, NEW p \in Procs, NEW s \in Steps, NEW c \in 0..MaxContents,
         calls' = [calls EXCEPT ![p].at = s, ![p].content = c]
  PROVE  /\ OthersKept(p)
         /\ calls'[p].at = s /\ calls'[p].op = calls[p].op
         /\ calls'[p].version = calls[p].version /\ calls'[p].content = c
  BY DEF CallsOK, OthersKept, Call

LEMMA AtRows ==
  ASSUME CallsOK, NEW p \in Procs, NEW s \in Steps, NEW S \in SUBSET Contents,
         calls' = [calls EXCEPT ![p].at = s, ![p].rows = S]
  PROVE  /\ OthersKept(p) /\ SameData(p)
         /\ calls'[p].at = s /\ calls'[p].op = calls[p].op
         /\ calls'[p].rows = S
  BY DEF CallsOK, OthersKept, SameData, Call

-----------------------------------------------------------------------------
(* Control: which handler is at which point, and who shares a promise.     *)

GeneratePoints == {"generate:check", "generate:model", "generate:create", "generate:join"}
RefinePoints   == {"refine:reads", "refine:skill", "refine:history",
                   "refine:presave", "refine:model"}
BumpPoints     == {"bump:expect", "bump:write"}
SessionPoints  == {"session:read", "session:lock", "session:append"}
AppendPoints   == {"session:lock", "session:append", "delete:messages"}
DeletePoints   == {"delete:session", "delete:messages", "delete:row"}

USE DEF DeletePoints
DrawingPoints  == {"diagram:model", "diagram:save"}

OpsKnown(p) ==
  /\ calls[p].at \in GeneratePoints => calls[p].op = "generate"
  /\ calls[p].at = "create:insert" => calls[p].op = "create"
  /\ calls[p].at \in RefinePoints => calls[p].op = "refine"
  /\ calls[p].at \in {"heal:list", "heal:full", "heal:save"} =>
       calls[p].op \in {"approve", "history"}
  /\ calls[p].at \in BumpPoints \cup {"snapshot"} => calls[p].op \in {"refine", "approve"}
  /\ calls[p].at \in {"update:expect", "update:write"} => calls[p].op \in {"edit", "rename"}
  /\ calls[p].at \in SessionPoints => calls[p].op \in {"generate", "refine"}
  /\ calls[p].at \in DeletePoints => calls[p].op = "delete"

OneGeneration ==
  /\ \A p, q \in Inflight : p = q
  /\ JoinersHaveAPromise

Draws(p) == calls[p].at \in DrawingPoints /\ ~Forced(p)

OneDrawing ==
  \A p, q \in Procs :
    Draws(p) /\ Draws(q) /\ calls[p].version = calls[q].version => p = q

InOrder == /\ \A p \in Procs : OpsKnown(p)
           /\ OneGeneration
           /\ OneDrawing

\* What a step of p must respect for the promises to stay shared.
Orderly(p) ==
  /\ OthersKept(p)
  /\ OpsKnown(p)'
  /\ p \in Inflight' => p \in Inflight \/ Inflight = {}
  /\ p \in Inflight => p \in Inflight' \/ \A q \in Procs : calls'[q].at # "generate:join"
  /\ calls'[p].at = "generate:join" => p \notin Inflight /\ Inflight # {}
  /\ Draws(p)' =>
       \/ Draws(p) /\ calls'[p].version = calls[p].version
       \/ \A q \in Procs \ {p} : ~(Draws(q) /\ calls[q].version = calls'[p].version)

LEMMA OrderlyKeeps ==
  ASSUME CallsOK, InOrder, NEW p \in Procs, Orderly(p)
  PROVE  CallsOK' /\ InOrder'
<1>1. CallsOK'
  BY DEF Orderly, OthersKept, CallsOK
<1>2. ASSUME NEW q \in Procs, q # p
      PROVE  \/ calls'[q] = calls[q]
             \/ calls[q].at = "generate:join" /\ calls'[q] = Idle
  BY <1>2 DEF Orderly, OthersKept
<1>3. \A q \in Procs : OpsKnown(q)'
  <2> SUFFICES ASSUME NEW q \in Procs, q # p PROVE OpsKnown(q)'
    BY DEF Orderly
  <2>1. CASE calls'[q] = calls[q]
    BY <2>1 DEF InOrder, OpsKnown, GeneratePoints, RefinePoints, BumpPoints,
                SessionPoints
  <2>2. CASE calls'[q] = Idle
    <3>1. calls'[q].at = "idle"
      BY <2>2, IdleFacts
    <3> QED
      BY <3>1 DEF OpsKnown, GeneratePoints, RefinePoints, BumpPoints, SessionPoints
  <2> QED
    BY <1>2, <2>1, <2>2
<1>4. ASSUME NEW q \in Procs, q # p
      PROVE  q \in Inflight <=> q \in Inflight'
  BY <1>2, <1>4, IdleFacts DEF Inflight, At
<1>5. (\A q, r \in Inflight : q = r)'
  <2> SUFFICES ASSUME NEW q \in Procs, NEW r \in Procs, q \in Inflight', r \in Inflight'
               PROVE  q = r
    BY DEF Inflight
  <2>1. CASE q # p /\ r # p
    BY <2>1, <1>4 DEF InOrder, OneGeneration
  <2>2. CASE q = p \/ r = p
    BY <2>2, <1>4 DEF Orderly, InOrder, OneGeneration
  <2> QED
    BY <2>1, <2>2
<1>6. JoinersHaveAPromise'
  <2> SUFFICES ASSUME NEW q \in Procs, calls'[q].at = "generate:join"
               PROVE  \E r \in Procs : r \in Inflight'
    BY DEF JoinersHaveAPromise, At, Inflight
  <2>1. PICK r \in Procs : r \in Inflight /\ (q = p => r # p)
    <3>1. CASE q = p
      BY <3>1 DEF Orderly, Inflight
    <3>2. CASE q # p
      <4>1. calls[q].at = "generate:join"
        BY <3>2, <1>2, IdleFacts
      <4> QED
        BY <4>1, <3>2 DEF InOrder, OneGeneration, JoinersHaveAPromise, At, Inflight
    <3> QED
      BY <3>1, <3>2
  <2> QED
    BY <2>1, <1>4 DEF Orderly
<1>7. OneDrawing'
  <2>1. ASSUME NEW q \in Procs, q # p, Draws(q)'
        PROVE  Draws(q) /\ calls'[q].version = calls[q].version
    BY <1>2, <2>1, IdleFacts DEF Draws, DrawingPoints, Forced
  <2> SUFFICES ASSUME NEW q \in Procs, NEW r \in Procs, Draws(q)', Draws(r)',
                      calls'[q].version = calls'[r].version
               PROVE  q = r
    BY DEF OneDrawing
  <2>2. CASE q # p /\ r # p
    BY <2>1, <2>2 DEF InOrder, OneDrawing
  <2>3. CASE q = p /\ r # p
    BY <2>1, <2>3 DEF Orderly, InOrder, OneDrawing
  <2>4. CASE q # p /\ r = p
    BY <2>1, <2>4 DEF Orderly, InOrder, OneDrawing
  <2> QED
    BY <2>2, <2>3, <2>4
<1> QED
  BY <1>1, <1>3, <1>5, <1>6, <1>7 DEF InOrder, OneGeneration

LEMMA ReturnOrderly ==
  ASSUME NEW p \in Procs, Returned(p)
  PROVE  Orderly(p)
<1>1. calls'[p].at = "idle" /\ calls'[p].op = "none"
  BY IdleFacts DEF Returned
<1> QED
  BY <1>1 DEF Returned, Orderly, OpsKnown, GeneratePoints, RefinePoints, BumpPoints,
              SessionPoints, Inflight, At, Draws, DrawingPoints

\* A step within a handler that neither starts drawing nor leaves the
\* generation is orderly.
LEMMA MoveOrderly ==
  ASSUME NEW p \in Procs, OthersKept(p), OpsKnown(p)',
         calls'[p].op = calls[p].op,
         calls[p].at # "generate:join", calls'[p].at # "generate:join",
         calls'[p].at \in DrawingPoints => Forced(p)
  PROVE  Orderly(p)
  BY DEF Orderly, Inflight, At, Draws, Forced

-----------------------------------------------------------------------------
(* Counting: the texts still to come.                                      *)

\* The calls that will still write a text: what Room counts, less those that
\* only have a diagram left to draw.
DiagramPoints == {"diagram:skill", "diagram:snapshot", "diagram:cached",
                  "diagram:model", "diagram:save"}
StillWriting == {q \in Writers : calls[q].at \notin DiagramPoints}

RoomKept == Len(contents) + Cardinality(StillWriting) <= MaxContents

LEMMA CountOneMore ==
  ASSUME NEW A, NEW B, NEW x, IsFiniteSet(B), A \subseteq B \cup {x}
  PROVE  /\ Cardinality(A) \in Nat /\ Cardinality(B) \in Nat
         /\ Cardinality(A) <= Cardinality(B) + 1
         /\ A \subseteq B => Cardinality(A) <= Cardinality(B)
         /\ x \in B /\ x \notin A => Cardinality(A) + 1 <= Cardinality(B)
<1>1. /\ IsFiniteSet(B \cup {x})
      /\ Cardinality(B \cup {x}) = IF x \in B THEN Cardinality(B) ELSE Cardinality(B) + 1
  BY FS_AddElement
<1>2. /\ IsFiniteSet(A) /\ Cardinality(A) <= Cardinality(B \cup {x})
  BY <1>1, FS_Subset
<1>3. Cardinality(A) \in Nat /\ Cardinality(B) \in Nat
  BY <1>2, FS_CardinalityType
<1>4. A \subseteq B => Cardinality(A) <= Cardinality(B)
  BY FS_Subset
<1>5. ASSUME x \in B, x \notin A PROVE Cardinality(A) + 1 <= Cardinality(B)
  <2>1. A \subseteq B \ {x}
    BY <1>5
  <2>2. IsFiniteSet(B \ {x}) /\ Cardinality(B \ {x}) = Cardinality(B) - 1
    BY <1>5, FS_RemoveElement
  <2>3. Cardinality(A) <= Cardinality(B \ {x})
    BY <2>1, <2>2, FS_Subset
  <2> QED
    BY <2>2, <2>3, <1>3
<1> QED
  BY <1>1, <1>2, <1>3, <1>4, <1>5

LEMMA WritersFinite == IsFiniteSet(Writers) /\ IsFiniteSet(StillWriting)
  BY FS_Subset, ConstantsAssumption DEF Writers, StillWriting

LEMMA StillWritingKept ==
  ASSUME NEW p \in Procs, OthersKept(p)
  PROVE  StillWriting' \subseteq StillWriting \cup {p}
<1> SUFFICES ASSUME NEW q \in Procs, q # p, q \in StillWriting'
             PROVE  q \in StillWriting
  BY DEF StillWriting, Writers
<1>1. calls'[q] # Idle
  BY IdleFacts DEF StillWriting, Writers
<1>2. calls'[q] = calls[q]
  BY <1>1 DEF OthersKept
<1> QED
  BY <1>2 DEF StillWriting, Writers

\* A request that will write starts only when there is room for its text.
LEMMA RoomSame ==
  ASSUME contents \in Seq([version : Versions, base : 0..MaxContents]), RoomKept,
         NEW p \in Procs, OthersKept(p), contents' = contents,
         p \in StillWriting' => p \in StillWriting \/ Room
  PROVE  RoomKept'
<1>0. Len(contents) \in Nat /\ MaxContents \in Nat
  BY ConstantsAssumption
<1>1. /\ Cardinality(StillWriting') \in Nat /\ Cardinality(StillWriting) \in Nat
      /\ Cardinality(StillWriting') <= Cardinality(StillWriting) + 1
      /\ StillWriting' \subseteq StillWriting =>
           Cardinality(StillWriting') <= Cardinality(StillWriting)
  BY StillWritingKept, WritersFinite, CountOneMore
<1>2. /\ Cardinality(Writers) \in Nat
      /\ Cardinality(StillWriting) <= Cardinality(Writers)
  BY WritersFinite, FS_Subset, FS_CardinalityType DEF StillWriting
<1>3. CASE Room
  BY <1>0, <1>1, <1>2, <1>3 DEF Room, RoomKept
<1>4. CASE ~Room
  BY <1>0, <1>1, <1>4, StillWritingKept DEF RoomKept
<1> QED
  BY <1>3, <1>4

LEMMA RoomSpent ==
  ASSUME contents \in Seq([version : Versions, base : 0..MaxContents]), RoomKept,
         NEW p \in Procs, OthersKept(p), Len(contents') = Len(contents) + 1,
         p \in StillWriting, p \notin StillWriting'
  PROVE  RoomKept' /\ Len(contents) + 1 \in 1..MaxContents
<1>0. Len(contents) \in Nat /\ MaxContents \in Nat
  BY ConstantsAssumption
<1>1. /\ Cardinality(StillWriting') \in Nat /\ Cardinality(StillWriting) \in Nat
      /\ Cardinality(StillWriting') + 1 <= Cardinality(StillWriting)
  BY StillWritingKept, WritersFinite, CountOneMore
<1> QED
  BY <1>0, <1>1 DEF RoomKept

-----------------------------------------------------------------------------
(* What is filed, and what the calls know of it.                           *)

\* The text c exists and was written under v.
WrittenUnder(c, v) == c \in 1..Len(contents) /\ contents[c].version = v

\* The row shows the text written last.
RowKnown ==
  Live => /\ skill.content = Len(contents)
          /\ WrittenUnder(skill.content, skill.version)
          /\ skill.version \in 1..Len(contents)

Filed ==
  \A v \in Versions :
    /\ snapshots[v] # 0 => WrittenUnder(snapshots[v], v)
    /\ diagrams[v] # 0 => WrittenUnder(diagrams[v], v)

FilePoints == {"refine:history", "refine:presave", "heal:save", "snapshot",
               "diagram:cached"} \cup DrawingPoints \cup SessionPoints
HealPoints == {"refine:history", "refine:presave", "heal:list", "heal:save"}
NewPoints  == {"refine:model"} \cup BumpPoints  \* on the way to a new version
BlankPoints == {"idle", "create:insert"} \cup GeneratePoints

\* A call about to file a text under a version has read, or written, both
\* together.  A call on its way to a new version has seen the first version
\* filed, or superseded.
CallKnows(p) ==
  /\ calls[p].at \in FilePoints => WrittenUnder(calls[p].content, calls[p].version)
  /\ calls[p].at = "diagram:snapshot" => calls[p].version # 0
  /\ skill.state = "none" => calls[p].at \in BlankPoints
  /\ Live =>
       /\ calls[p].at \in HealPoints => calls[p].version \in 1..skill.version
       /\ calls[p].at = "refine:skill" => calls[p].rows \subseteq Numbers(snapshots)
       /\ calls[p].at \in NewPoints => skill.version > 1 \/ snapshots[1] # 0

\* Every version of the skill has its snapshot, or its writer is about to save
\* one or died, but for the first of an old skill that nothing has touched.
HistoryFilling ==
  Live => \A v \in 1..skill.version :
    \/ skill.version = 1 \/ snapshots[v] # 0 \/ v \in orphaned
    \/ \E p \in Procs : At(p, "snapshot") /\ calls[p].version = v

DataInv ==
  /\ RowKnown /\ Filed
  /\ \A p \in Procs : CallKnows(p)
  /\ HistoryFilling

\* Texts are never rewritten; versions and snapshots are only lost with the
\* skill, which never comes back.
Grows ==
  /\ Len(contents) <= Len(contents')
  /\ \A c \in 1..Len(contents) : contents'[c] = contents[c]
  /\ skill'.state = "none" => skill.state = "none"
  /\ Live' => \/ skill.state = "none"
              \/ /\ Live
                 /\ skill.version <= skill'.version
                 /\ \A v \in Versions : snapshots[v] # 0 => snapshots'[v] # 0

LEMMA WrittenKept ==
  ASSUME SkillTypeOK, Len(contents') \in Nat, Grows, NEW c \in 1..Len(contents)
  PROVE  c \in 1..Len(contents') /\ contents'[c] = contents[c]
  BY DEF Grows, SkillTypeOK

LEMMA KnowsKept ==
  ASSUME SkillTypeOK, SkillTypeOK', NEW p \in Procs, OthersKept(p), Grows,
         \A q \in Procs : CallKnows(q), CallKnows(p)'
  PROVE  \A q \in Procs : CallKnows(q)'
<1> SUFFICES ASSUME NEW q \in Procs, q # p PROVE CallKnows(q)'
  OBVIOUS
<1>1. CASE calls'[q] = Idle
  <2>1. calls'[q].at = "idle"
    BY <1>1, IdleFacts
  <2> QED
    BY <2>1 DEF CallKnows, FilePoints, DrawingPoints, SessionPoints, HealPoints,
                NewPoints, BumpPoints, BlankPoints
<1>2. CASE calls'[q] = calls[q]
  <2>1. calls[q].at \in FilePoints =>
          WrittenUnder(calls[q].content, calls[q].version)'
    <3> SUFFICES ASSUME calls[q].at \in FilePoints
                 PROVE  WrittenUnder(calls[q].content, calls[q].version)'
      OBVIOUS
    <3>1. /\ calls[q].content \in 1..Len(contents)
          /\ contents[calls[q].content].version = calls[q].version
      BY DEF CallKnows, WrittenUnder
    <3>2. Len(contents') \in Nat
      BY DEF SkillTypeOK
    <3>3. /\ calls[q].content \in 1..Len(contents')
          /\ contents'[calls[q].content] = contents[calls[q].content]
      BY <3>1, <3>2, WrittenKept
    <3> QED
      BY <3>1, <3>3, <1>2 DEF WrittenUnder
  <2>2. skill'.state = "none" => calls[q].at \in BlankPoints
    BY DEF Grows, CallKnows
  <2>3. ASSUME Live'
        PROVE  /\ calls[q].at \in HealPoints => calls[q].version \in 1..skill'.version
               /\ calls[q].at = "refine:skill" => calls[q].rows \subseteq Numbers(snapshots')
               /\ calls[q].at \in NewPoints => skill'.version > 1 \/ snapshots'[1] # 0
    <3>1. CASE skill.state = "none"
      <4>1. calls[q].at \in BlankPoints
        BY <3>1 DEF CallKnows
      <4> QED
        BY <4>1 DEF BlankPoints, GeneratePoints, HealPoints, NewPoints, BumpPoints
    <3>2. CASE skill.state # "none"
      <4>1. /\ Live /\ skill.version <= skill'.version
            /\ \A v \in Versions : snapshots[v] # 0 => snapshots'[v] # 0
        BY <2>3, <3>2 DEF Grows
      <4>2. /\ MaxContents \in Nat \ {0} /\ 1 \in Versions
            /\ skill.version \in 0..MaxContents /\ skill'.version \in 0..MaxContents
        <5>1. MaxContents \in Nat \ {0}
          BY ConstantsAssumption
        <5>2. skill.version \in 0..MaxContents /\ skill'.version \in 0..MaxContents
          BY DEF SkillTypeOK
        <5> QED
          BY <5>1, <5>2
      <4>5. /\ snapshots \in [Versions -> 0..MaxContents]
            /\ snapshots' \in [Versions -> 0..MaxContents]
        BY DEF SkillTypeOK
      <4>3. Numbers(snapshots) \subseteq Numbers(snapshots')
        BY <4>1, <4>5 DEF Numbers
      <4> QED
        BY <4>1, <4>2, <4>3 DEF CallKnows
    <3> QED
      BY <3>1, <3>2
  <2> QED
    BY <1>2, <2>1, <2>2, <2>3 DEF CallKnows
<1> QED
  BY <1>1, <1>2 DEF OthersKept

-----------------------------------------------------------------------------
(* The session while appends do not overlap.                               *)

\* The texts written whose prompt is still to be appended.
Prompters ==
  {p \in Procs : \/ calls[p].at \in SessionPoints
                 \/ calls[p].at = "snapshot" /\ calls[p].op = "refine"}

OneAppend ==
  /\ \A p, q \in Procs :
       calls[p].at \in AppendPoints /\ calls[q].at \in AppendPoints => p = q
  /\ Live => \A p \in Procs :
       calls[p].at \in AppendPoints => calls[p].rows = Numbers(session)

\* The session holds the MaxMessages prompts up to last.
Window(last) == Numbers(session) = {n \in 1..last : n + MaxMessages > last}

SessionInv ==
  /\ ~Live => Numbers(session) = {}
  /\ ~raced => /\ OneAppend
               /\ \E last \in Nat :
                    Window(last) /\ last + Cardinality(Prompters) <= Len(contents)

LEMMA PromptersFinite == IsFiniteSet(Prompters)
  BY FS_Subset, ConstantsAssumption DEF Prompters

LEMMA PromptersKept ==
  ASSUME NEW p \in Procs, OthersKept(p)
  PROVE  Prompters' \subseteq Prompters \cup {p}
<1> SUFFICES ASSUME NEW q \in Procs, q # p, q \in Prompters'
             PROVE  q \in Prompters
  BY DEF Prompters
<1>1. calls'[q] # Idle
  BY IdleFacts DEF Prompters, SessionPoints
<1>2. calls'[q] = calls[q]
  BY <1>1 DEF OthersKept
<1> QED
  BY <1>2 DEF Prompters

LEMMA PromptersCount ==
  ASSUME NEW p \in Procs, OthersKept(p)
  PROVE  /\ Cardinality(Prompters) \in Nat /\ Cardinality(Prompters') \in Nat
         /\ Cardinality(Prompters') <= Cardinality(Prompters) + 1
         /\ (p \in Prompters' => p \in Prompters) =>
              Cardinality(Prompters') <= Cardinality(Prompters)
         /\ p \in Prompters /\ p \notin Prompters' =>
              Cardinality(Prompters') + 1 <= Cardinality(Prompters)
  BY PromptersKept, PromptersFinite, CountOneMore

\* A call starts its append alone, having read all there is.
AppendsAlone(p) ==
  calls'[p].at \in AppendPoints =>
    /\ \A q \in Procs \ {p} : calls[q].at \notin AppendPoints
    /\ Live => calls'[p].rows = Numbers(session)

LEMMA OneAppendKept ==
  ASSUME NEW p \in Procs, OthersKept(p), OneAppend, AppendsAlone(p),
         Live' => Live \/ \A q \in Procs : calls[q].at \notin AppendPoints,
         \/ UNCHANGED session /\ (Live' => Live \/ calls'[p].at \notin AppendPoints)
         \/ ~Live'
  PROVE  OneAppend'
<1>1. ASSUME NEW q \in Procs, q # p, calls'[q].at \in AppendPoints
      PROVE  calls'[q] = calls[q]
  BY <1>1, IdleFacts DEF OthersKept, AppendPoints
<1>2. (\A q, r \in Procs :
         calls[q].at \in AppendPoints /\ calls[r].at \in AppendPoints => q = r)'
  <2> SUFFICES ASSUME NEW q \in Procs, NEW r \in Procs,
                      calls'[q].at \in AppendPoints, calls'[r].at \in AppendPoints
               PROVE  q = r
    OBVIOUS
  <2> QED
    BY <1>1 DEF OneAppend, AppendsAlone
<1>3. ASSUME Live', NEW q \in Procs, calls'[q].at \in AppendPoints
      PROVE  calls'[q].rows = Numbers(session')
  <2>1. UNCHANGED session
    BY <1>3
  <2>2. CASE q = p
    BY <1>3, <2>1, <2>2 DEF AppendsAlone
  <2>3. CASE q # p
    BY <1>1, <1>3, <2>1, <2>3 DEF OneAppend
  <2> QED
    BY <2>2, <2>3
<1> QED
  BY <1>2, <1>3 DEF OneAppend

\* The session stays while a text may be written and a prompt announced.
LEMMA SessionSame ==
  ASSUME SkillTypeOK, SkillTypeOK', SessionInv, NEW p \in Procs, OthersKept(p),
         UNCHANGED session, raced => raced', ~raced' => AppendsAlone(p),
         Live => Live',
         Live' => \/ Live
                  \/ /\ \A q \in Procs : calls[q].at \notin AppendPoints
                     /\ calls'[p].at \notin AppendPoints,
         \/ /\ Len(contents) <= Len(contents')
            /\ p \in Prompters' => p \in Prompters
         \/ Len(contents') = Len(contents) + 1
  PROVE  SessionInv'
<1>0. ~Live' => Numbers(session') = {}
  BY DEF SessionInv
<1> SUFFICES ASSUME ~raced' PROVE SessionInv'
  BY <1>0 DEF SessionInv
<1>1. OneAppend /\ \E last \in Nat :
        Window(last) /\ last + Cardinality(Prompters) <= Len(contents)
  BY DEF SessionInv
<1>2. OneAppend'
  BY <1>1, OneAppendKept
<1>3. PICK last \in Nat : Window(last) /\ last + Cardinality(Prompters) <= Len(contents)
  BY <1>1
<1>4. Window(last)'
  BY <1>3 DEF Window
<1>5. Len(contents) \in Nat /\ Len(contents') \in Nat
  BY DEF SkillTypeOK
<1>6. last + Cardinality(Prompters') <= Len(contents')
  BY <1>3, <1>5, PromptersCount
<1> QED
  BY <1>0, <1>2, <1>4, <1>6 DEF SessionInv

-----------------------------------------------------------------------------
(* The inductive invariant, and the steps that only move a call.           *)

SkillInv ==
  /\ SkillTypeOK
  /\ InOrder
  /\ RoomKept
  /\ DataInv
  /\ SessionInv

LEMMA CallKeeps ==
  ASSUME SkillInv, NEW p \in Procs, Orderly(p),
         UNCHANGED <<skill, contents, snapshots, session>>,
         diagrams' \in [Versions -> 0..MaxContents], Filed',
         orphaned' \in SUBSET Versions, orphaned \subseteq orphaned',
         raced' \in BOOLEAN, raced => raced',
         CallKnows(p)',
         calls[p].at = "snapshot" /\ Live =>
           calls[p].version \in orphaned' \/ snapshots[calls[p].version] # 0,
         p \in StillWriting' => p \in StillWriting \/ Room,
         p \in Prompters' => p \in Prompters,
         ~raced' => AppendsAlone(p)
  PROVE  SkillInv'
<1>1. OthersKept(p)
  BY DEF Orderly
<1>2. InOrder'
  BY OrderlyKeeps DEF SkillInv, SkillTypeOK, CallsOK
<1>3. RoomKept'
  BY <1>1, RoomSame DEF SkillInv, SkillTypeOK
<1>4. SkillTypeOK'
  <2>1. Len(contents') <= MaxContents
    BY DEF SkillInv, SkillTypeOK
  <2>2. calls' \in [Procs -> Call]
    BY <1>1 DEF OthersKept
  <2> QED
    BY <2>1, <2>2 DEF SkillInv, SkillTypeOK
<1>5. DataInv'
  <2>1. RowKnown'
    BY DEF SkillInv, DataInv, RowKnown, WrittenUnder, Live
  <2>2. Grows
    <3>1. skill.version <= skill'.version /\ Len(contents) <= Len(contents')
      BY DEF SkillInv, SkillTypeOK
    <3> QED
      BY <3>1 DEF Grows, Live
  <2>3. \A q \in Procs : CallKnows(q)'
    BY <1>1, <1>4, <2>2, KnowsKept DEF SkillInv, DataInv
  <2>4. HistoryFilling'
    <3> SUFFICES ASSUME Live, NEW v \in 1..skill.version,
                        skill.version # 1, snapshots[v] = 0, v \notin orphaned'
                 PROVE  \E q \in Procs : (At(q, "snapshot") /\ calls[q].version = v)'
      BY DEF HistoryFilling, Live
    <3>1. PICK q \in Procs : At(q, "snapshot") /\ calls[q].version = v
      BY DEF SkillInv, DataInv, HistoryFilling
    <3>2. q # p
      BY <3>1 DEF At
    <3>3. calls'[q] = calls[q]
      BY <1>1, <3>1, <3>2 DEF OthersKept, At
    <3> QED
      BY <3>1, <3>3 DEF At
  <2> QED
    BY <2>1, <2>3, <2>4 DEF DataInv
<1>6. SessionInv'
  <2>1. Len(contents) <= Len(contents')
    BY DEF SkillInv, SkillTypeOK
  <2> QED
    BY <1>1, <1>4, <2>1, SessionSame DEF SkillInv, Live
<1> QED
  BY <1>2, <1>3, <1>4, <1>5, <1>6 DEF SkillInv

LEMMA QuietKeeps ==
  ASSUME SkillInv, NEW p \in Procs, Orderly(p),
         UNCHANGED <<skill, contents, tables>>,
         orphaned' \in SUBSET Versions, orphaned \subseteq orphaned',
         raced' \in BOOLEAN, raced => raced',
         CallKnows(p)',
         calls[p].at = "snapshot" /\ Live =>
           calls[p].version \in orphaned' \/ snapshots[calls[p].version] # 0,
         p \in StillWriting' => p \in StillWriting \/ Room,
         p \in Prompters' => p \in Prompters,
         ~raced' => AppendsAlone(p)
  PROVE  SkillInv'
<1>1. diagrams' \in [Versions -> 0..MaxContents] /\ Filed'
  BY DEF tables, SkillInv, SkillTypeOK, DataInv, Filed, WrittenUnder
<1> QED
  BY <1>1, CallKeeps DEF tables

DonePoints == DiagramPoints \cup SessionPoints \cup {"snapshot", "generate:join"}

LEMMA QuietMove ==
  ASSUME SkillInv, NEW p \in Procs, OthersKept(p),
         UNCHANGED <<skill, contents, tables, ghosts>>,
         calls'[p].op = calls[p].op, OpsKnown(p)', CallKnows(p)',
         calls[p].at \notin {"generate:join", "snapshot"},
         calls'[p].at \notin SessionPoints \cup
                           {"generate:join", "snapshot", "delete:messages"},
         calls'[p].at \in DrawingPoints => Forced(p),
         calls[p].at \in DonePoints => calls'[p].at \in DonePoints
  PROVE  SkillInv'
<1>1. Orderly(p)
  BY MoveOrderly
<1>2. p \in StillWriting' => p \in StillWriting
  BY DEF StillWriting, Writers, DonePoints, SessionPoints
<1>3. p \notin Prompters' /\ AppendsAlone(p)
  BY DEF Prompters, AppendsAlone, AppendPoints, SessionPoints
<1>4. raced' \in BOOLEAN /\ orphaned' \in SUBSET Versions
  BY DEF ghosts, SkillInv, SkillTypeOK
<1> QED
  BY <1>1, <1>2, <1>3, <1>4, QuietKeeps DEF ghosts

LEMMA QuietReturn ==
  ASSUME SkillInv, NEW p \in Procs, Return(p),
         UNCHANGED <<skill, contents, tables, raced>>,
         orphaned' \in SUBSET Versions, orphaned \subseteq orphaned',
         calls[p].at = "snapshot" /\ Live =>
           calls[p].version \in orphaned' \/ snapshots[calls[p].version] # 0
  PROVE  SkillInv'
<1>1. Returned(p)
  BY ReturnFacts DEF SkillInv, SkillTypeOK, CallsOK
<1>2. calls'[p].at = "idle" /\ calls'[p].op = "none"
  BY <1>1, IdleFacts DEF Returned
<1>3. Orderly(p)
  BY <1>1, ReturnOrderly
<1>4. p \notin StillWriting' /\ p \notin Prompters' /\ AppendsAlone(p)
  BY <1>2 DEF StillWriting, Writers, Prompters, AppendsAlone, AppendPoints, SessionPoints
<1>5. CallKnows(p)'
  BY <1>2 DEF CallKnows, FilePoints, DrawingPoints, SessionPoints, HealPoints,
              NewPoints, BumpPoints, BlankPoints
<1>6. raced' \in BOOLEAN
  BY DEF SkillInv, SkillTypeOK
<1> QED
  BY <1>3, <1>4, <1>5, <1>6, QuietKeeps

LEMMA ReadReturn ==
  ASSUME SkillInv, NEW p \in Procs, Return(p), Reads(p), calls[p].at # "snapshot"
  PROVE  SkillInv'
<1>1. orphaned' \in SUBSET Versions /\ orphaned \subseteq orphaned'
  BY DEF Reads, ghosts, SkillInv, SkillTypeOK
<1> QED
  BY <1>1, QuietReturn DEF Reads, ghosts

-----------------------------------------------------------------------------
(* The requests as they start.                                             *)

LEMMA QuietStart ==
  ASSUME SkillInv, NEW p \in Procs, NEW o, NEW c \in Call, Starts(p, o, c),
         c.op \in Operations \ {"generate"},
         c.at \in {"create:insert", "refine:reads", "heal:list", "update:expect",
                   "diagram:skill", "delete:session"},
         Room \/ c.op \in {"history", "delete"} \/ c.at = "diagram:skill",
         OpsKnown(p)', CallKnows(p)'
  PROVE  SkillInv'
<1>1. OthersKept(p) /\ calls[p] = Idle /\ calls'[p] = c
  BY StartsFacts DEF SkillInv, SkillTypeOK, CallsOK
<1>2. calls[p].at = "idle" /\ calls[p].op = "none"
  BY <1>1, IdleFacts
<1>3. Orderly(p)
  BY <1>1, <1>2 DEF Orderly, Inflight, At, Draws, DrawingPoints
<1>4. p \in StillWriting' => p \in StillWriting \/ Room
  BY <1>1 DEF StillWriting, Writers, DiagramPoints
<1>5. p \notin Prompters' /\ AppendsAlone(p)
  BY <1>1 DEF Prompters, AppendsAlone, AppendPoints, SessionPoints
<1>6. UNCHANGED <<skill, contents, tables, ghosts>>
  BY DEF Starts
<1>7. raced' \in BOOLEAN /\ orphaned' \in SUBSET Versions
  BY <1>6 DEF ghosts, SkillInv, SkillTypeOK
<1> QED
  BY <1>2, <1>3, <1>4, <1>5, <1>6, <1>7, QuietKeeps DEF ghosts

LEMMA GenerateStartKeeps ==
  ASSUME SkillInv, NEW p \in Procs, GenerateStart(p)
  PROVE  SkillInv'
<1> DEFINE s == IF Inflight = {} THEN "generate:check" ELSE "generate:join"
           c == NewCall("generate", s)
<1>0. c \in Call /\ c.op = "generate" /\ c.at = s /\ s \in Steps
  BY NewCallType DEF Operations, Steps, NewCall
<1>1. Starts(p, "generate", c) /\ Room
  BY DEF GenerateStart
<1>2. OthersKept(p) /\ calls[p] = Idle /\ calls'[p] = c
  BY <1>0, <1>1, StartsFacts DEF SkillInv, SkillTypeOK, CallsOK
<1>3. calls[p].at = "idle" /\ calls[p].op = "none"
  BY <1>2, IdleFacts
<1>4. calls'[p].op = "generate" /\ calls'[p].at = s
  BY <1>0, <1>2
<1> HIDE DEF c
<1>5. Orderly(p)
  BY <1>2, <1>3, <1>4 DEF Orderly, Inflight, At, Draws, DrawingPoints, OpsKnown,
    GeneratePoints, RefinePoints, BumpPoints, SessionPoints
<1>6. p \notin Prompters' /\ AppendsAlone(p)
  BY <1>4 DEF Prompters, AppendsAlone, AppendPoints, SessionPoints
<1>7. UNCHANGED <<skill, contents, tables, ghosts>>
  BY <1>1 DEF Starts
<1>8. raced' \in BOOLEAN /\ orphaned' \in SUBSET Versions
  BY <1>7 DEF ghosts, SkillInv, SkillTypeOK
<1>9. CallKnows(p)'
  BY <1>4 DEF CallKnows, FilePoints, DrawingPoints, SessionPoints, HealPoints,
              NewPoints, BumpPoints, BlankPoints, GeneratePoints
<1> QED
  BY <1>1, <1>3, <1>5, <1>6, <1>7, <1>8, <1>9, QuietKeeps DEF ghosts

LEMMA StartFacts ==
  ASSUME SkillInv, NEW p \in Procs, NEW o, NEW c \in Call, Starts(p, o, c)
  PROVE  calls'[p] = c /\ skill' = skill /\ contents' = contents
  BY StartsFacts DEF SkillInv, SkillTypeOK, CallsOK, Starts

LEMMA BeginKeeps ==
  ASSUME SkillInv, NEW p \in Procs, Begin(p)
  PROVE  SkillInv'
<1> USE DEF OpsKnown, CallKnows, FilePoints, DrawingPoints, SessionPoints, HealPoints,
            NewPoints, BumpPoints, BlankPoints, GeneratePoints, RefinePoints
<1>1. CASE GenerateStart(p)
  BY <1>1, GenerateStartKeeps
<1>2. CASE CreateStart(p)
  <2> DEFINE c == NewCall("create", "create:insert")
  <2>1. c \in Call /\ c.op = "create" /\ c.at = "create:insert"
    BY NewCallType DEF Operations, Steps, NewCall
  <2>2. Starts(p, "create", c) /\ Room
    BY <1>2 DEF CreateStart
  <2> HIDE DEF c
  <2>3. calls'[p] = c
    BY <2>1, <2>2, StartFacts
  <2>4. OpsKnown(p)' /\ CallKnows(p)'
    BY <2>1, <2>3
  <2> QED
    BY <2>1, <2>2, <2>4, QuietStart DEF Operations
<1>3. CASE RefineStart(p)
  <2> DEFINE c == NewCall("refine", "refine:reads")
  <2>1. c \in Call /\ c.op = "refine" /\ c.at = "refine:reads"
    BY NewCallType DEF Operations, Steps, NewCall
  <2>2. Starts(p, "refine", c) /\ Room /\ Live
    BY <1>3 DEF RefineStart
  <2> HIDE DEF c
  <2>3. calls'[p] = c /\ skill' = skill
    BY <2>1, <2>2, StartFacts
  <2>4. OpsKnown(p)' /\ CallKnows(p)'
    BY <2>1, <2>2, <2>3 DEF Live
  <2> QED
    BY <2>1, <2>2, <2>4, QuietStart DEF Operations
<1>4. CASE EditStart(p)
  <2> DEFINE c == NewCall("edit", "update:expect")
  <2>1. c \in Call /\ c.op = "edit" /\ c.at = "update:expect"
    BY NewCallType DEF Operations, Steps, NewCall
  <2>2. Starts(p, "edit", c) /\ Room /\ Live
    BY <1>4 DEF EditStart
  <2> HIDE DEF c
  <2>3. calls'[p] = c /\ skill' = skill
    BY <2>1, <2>2, StartFacts
  <2>4. OpsKnown(p)' /\ CallKnows(p)'
    BY <2>1, <2>2, <2>3 DEF Live
  <2> QED
    BY <2>1, <2>2, <2>4, QuietStart DEF Operations
<1>5. CASE RenameStart(p)
  <2> DEFINE c == [NewCall("rename", "update:expect") EXCEPT !.content = skill.content]
  <2>1. c \in Call /\ c.op = "rename" /\ c.at = "update:expect"
    <3>1. NewCall("rename", "update:expect") \in Call
      BY NewCallType DEF Operations, Steps
    <3>2. skill.content \in 0..MaxContents
      BY DEF SkillInv, SkillTypeOK
    <3> QED
      BY <3>1, <3>2 DEF NewCall, Call
  <2>2. Starts(p, "rename", c) /\ Room /\ Live
    BY <1>5 DEF RenameStart
  <2> HIDE DEF c
  <2>3. calls'[p] = c /\ skill' = skill
    <3>1. \E d \in Call : d = c
      BY <2>1
    <3> QED
      BY <3>1, <2>2, StartFacts
  <2>4. OpsKnown(p)' /\ CallKnows(p)'
    BY <2>1, <2>2, <2>3 DEF Live
  <2> QED
    BY <2>1, <2>2, <2>4, QuietStart DEF Operations
<1>6. ASSUME NEW o \in {"approve", "history"}, Live, Room \/ o = "history",
             Starts(p, o, [NewCall(o, "heal:list") EXCEPT !.version = skill.version])
      PROVE  SkillInv'
  <2> DEFINE c == [NewCall(o, "heal:list") EXCEPT !.version = skill.version]
  <2>1. c \in Call /\ c.op = o /\ c.at = "heal:list" /\ c.version = skill.version
    <3>1. NewCall(o, "heal:list") \in Call
      BY NewCallType DEF Operations, Steps
    <3>2. skill.version \in 0..MaxContents
      BY DEF SkillInv, SkillTypeOK
    <3> QED
      BY <3>1, <3>2 DEF NewCall, Call
  <2>2. Starts(p, o, c)
    BY <1>6
  <2> HIDE DEF c
  <2>3. calls'[p] = c /\ skill' = skill
    BY <2>1, <2>2, StartFacts
  <2>4. skill.version \in 1..skill.version
    BY <1>6 DEF SkillInv, DataInv, RowKnown, SkillTypeOK
  <2>5. OpsKnown(p)' /\ CallKnows(p)'
    BY <1>6, <2>1, <2>3, <2>4 DEF Live
  <2> QED
    BY <1>6, <2>1, <2>2, <2>5, QuietStart DEF Operations
<1>7. CASE ApproveStart(p)
  BY <1>6, <1>7 DEF ApproveStart
<1>8. CASE HistoryStart(p)
  BY <1>6, <1>8 DEF HistoryStart
<1>9. CASE DrawStart(p)
  <2>1. PICK o \in {"draw", "redraw"}, v \in 0..MaxContents :
          Live /\ Starts(p, o, [NewCall(o, "diagram:skill") EXCEPT !.version = v])
    BY <1>9, ConstantsAssumption DEF DrawStart
  <2> DEFINE c == [NewCall(o, "diagram:skill") EXCEPT !.version = v]
  <2>2. c \in Call /\ c.op = o /\ c.at = "diagram:skill"
    <3>1. NewCall(o, "diagram:skill") \in Call
      BY NewCallType DEF Operations, Steps
    <3> QED
      BY <3>1 DEF NewCall, Call
  <2> HIDE DEF c
  <2>3. calls'[p] = c /\ skill' = skill
    BY <2>1, <2>2, StartFacts DEF c
  <2>4. OpsKnown(p)' /\ CallKnows(p)'
    BY <2>1, <2>2, <2>3 DEF Live
  <2> QED
    BY <2>1, <2>2, <2>4, QuietStart DEF Operations, c
<1>10. CASE DeleteStart(p)
  <2> DEFINE c == NewCall("delete", "delete:session")
  <2>1. c \in Call /\ c.op = "delete" /\ c.at = "delete:session"
    BY NewCallType DEF Operations, Steps, NewCall
  <2>2. Starts(p, "delete", c) /\ Live
    BY <1>10 DEF DeleteStart
  <2> HIDE DEF c
  <2>3. calls'[p] = c /\ skill' = skill
    BY <2>1, <2>2, StartFacts
  <2>4. OpsKnown(p)' /\ CallKnows(p)'
    BY <2>1, <2>2, <2>3 DEF Live
  <2> QED
    BY <2>1, <2>2, <2>4, QuietStart DEF Operations
<1> QED
  BY <1>1, <1>2, <1>3, <1>4, <1>5, <1>7, <1>8, <1>9, <1>10 DEF Begin

-----------------------------------------------------------------------------
(* The steps that read, ask a model, or return.                            *)

\* A text written was written under a version.
LEMMA TextVersion ==
  ASSUME contents \in Seq([version : Versions, base : 0..MaxContents]),
         NEW c \in 1..Len(contents)
  PROVE  contents[c].version \in Versions
<1> DEFINE T == [version : Versions, base : 0..MaxContents]
<1>1. contents[c] \in T
  <2> HIDE DEF T
  <2>1. \A s \in Seq(T) : \A i \in 1..Len(s) : s[i] \in T
    OBVIOUS
  <2>2. contents \in Seq(T)
    BY DEF T
  <2> QED
    BY <2>1, <2>2
<1> QED
  BY <1>1

LEMMA Typed ==
  ASSUME SkillInv, NEW p \in Procs
  PROVE  /\ CallsOK
         /\ calls[p] \in Call
         /\ calls[p].version \in 0..MaxContents /\ calls[p].content \in 0..MaxContents
         /\ skill.version \in 0..MaxContents /\ skill.content \in 0..MaxContents
         /\ OpsKnown(p) /\ CallKnows(p)
  BY DEF SkillInv, SkillTypeOK, CallsOK, Call, InOrder, DataInv

LEMMA GenerateCheckKeeps ==
  ASSUME SkillInv, NEW p \in Procs, GenerateCheck(p)
  PROVE  SkillInv'
<1> USE DEF OpsKnown, CallKnows, FilePoints, DrawingPoints, SessionPoints, HealPoints,
            NewPoints, BumpPoints, BlankPoints, GeneratePoints, RefinePoints
<1>0. calls[p].at = "generate:check" /\ Reads(p)
  BY DEF GenerateCheck, At
<1>1. CASE Return(p)
  BY <1>0, <1>1, ReadReturn
<1>2. CASE Goto(p, "generate:model")
  <2>1. /\ OthersKept(p) /\ calls'[p].at = "generate:model" /\ calls'[p].op = calls[p].op
    BY <1>2, Typed, GotoFacts DEF Steps
  <2> QED
    BY <1>0, <2>1, QuietMove, Typed DEF Reads, DonePoints, DiagramPoints
<1> QED
  BY <1>1, <1>2 DEF GenerateCheck

LEMMA GenerateModelKeeps ==
  ASSUME SkillInv, NEW p \in Procs, GenerateModel(p)
  PROVE  SkillInv'
<1> USE DEF OpsKnown, CallKnows, FilePoints, DrawingPoints, SessionPoints, HealPoints,
            NewPoints, BumpPoints, BlankPoints, GeneratePoints, RefinePoints
<1>0. calls[p].at = "generate:model" /\ Reads(p)
  BY DEF GenerateModel, At
<1>1. CASE Return(p)
  BY <1>0, <1>1, ReadReturn
<1>2. CASE Goto(p, "generate:create")
  <2>1. /\ OthersKept(p) /\ calls'[p].at = "generate:create" /\ calls'[p].op = calls[p].op
    BY <1>2, Typed, GotoFacts DEF Steps
  <2> QED
    BY <1>0, <2>1, QuietMove, Typed DEF Reads, DonePoints, DiagramPoints
<1> QED
  BY <1>1, <1>2 DEF GenerateModel

LEMMA RefineModelKeeps ==
  ASSUME SkillInv, NEW p \in Procs, RefineModel(p)
  PROVE  SkillInv'
<1> USE DEF OpsKnown, CallKnows, FilePoints, DrawingPoints, SessionPoints, HealPoints,
            NewPoints, BumpPoints, BlankPoints, GeneratePoints, RefinePoints
<1>0. calls[p].at = "refine:model" /\ Reads(p)
  BY DEF RefineModel, At
<1>1. CASE Return(p)
  BY <1>0, <1>1, ReadReturn
<1>2. CASE Goto(p, "bump:expect")
  <2>1. /\ OthersKept(p) /\ calls'[p].at = "bump:expect" /\ calls'[p].op = calls[p].op
    BY <1>2, Typed, GotoFacts DEF Steps
  <2>2. CallKnows(p)'
    BY <1>0, <2>1, Typed DEF Reads, Live, tables
  <2> QED
    BY <1>0, <2>1, <2>2, QuietMove, Typed DEF Reads, DonePoints, DiagramPoints
<1> QED
  BY <1>1, <1>2 DEF RefineModel

\* What the row shows is a text and the version it was written under.
LEMMA RowText ==
  ASSUME SkillInv, Live
  PROVE  /\ WrittenUnder(skill.content, skill.version)
         /\ skill.version \in 1..skill.version /\ skill.version \in Versions
  BY ConstantsAssumption DEF SkillInv, DataInv, RowKnown, SkillTypeOK

\* The reads of a refinement have found the snapshot of the version they read.
LEMMA SeenFiled ==
  ASSUME SkillInv, Live, NEW v \in 1..skill.version, v \in Numbers(snapshots)
  PROVE  skill.version > 1 \/ snapshots[1] # 0
  BY DEF Numbers, SkillInv, SkillTypeOK

LEMMA RefineReadSkillKeeps ==
  ASSUME SkillInv, NEW p \in Procs, RefineReadSkill(p)
  PROVE  SkillInv'
<1> USE DEF OpsKnown, CallKnows, FilePoints, DrawingPoints, SessionPoints, HealPoints,
            NewPoints, BumpPoints, BlankPoints, GeneratePoints, RefinePoints
<1>0. calls[p].at \in {"refine:reads", "refine:skill"} /\ Reads(p)
  BY DEF RefineReadSkill
<1>1. CASE ~Live
  <2>1. Return(p)
    BY <1>1 DEF RefineReadSkill
  <2> QED
    BY <1>0, <2>1, ReadReturn
<1>2. CASE Live
  <2> DEFINE s == IF calls[p].at = "refine:reads" THEN "refine:history"
                  ELSE AfterReads(skill.version, calls[p].rows)
  <2>5. s \in {"refine:history", "refine:model", "refine:presave"} /\ s \in Steps
    BY DEF AfterReads, Steps
  <2>6. calls' = [calls EXCEPT ![p] = [calls[p] EXCEPT !.at = s,
                    !.version = skill.version, !.content = skill.content, !.rows = {}]]
    BY <1>2, Typed DEF RefineReadSkill, CallsOK
  <2>7. [calls[p] EXCEPT !.at = s, !.version = skill.version,
                         !.content = skill.content, !.rows = {}] \in Call
    <3> HIDE DEF s
    <3> QED
      BY <2>5, Typed DEF Call
  <2>1. /\ calls'[p] = [calls[p] EXCEPT !.at = s, !.version = skill.version,
                                        !.content = skill.content, !.rows = {}]
        /\ s \in {"refine:history", "refine:model", "refine:presave"}
        /\ calls' \in [Procs -> Call]
        /\ \A q \in Procs \ {p} : calls'[q] = calls[q]
    <3> HIDE DEF s
    <3> QED
      BY <2>5, <2>6, <2>7, Typed DEF CallsOK
  <2>2. /\ calls'[p].at = s /\ calls'[p].op = calls[p].op
        /\ calls'[p].version = skill.version /\ calls'[p].content = skill.content
    BY <2>1, Typed DEF Call
  <2>3. OthersKept(p)
    BY <2>1 DEF OthersKept
  <2>4. CallKnows(p)'
    <3>1. /\ skill' = skill /\ contents' = contents /\ snapshots' = snapshots
      BY <1>0 DEF Reads, tables
    <3>2. WrittenUnder(calls[p].content, calls[p].version)'
      BY <1>2, <2>2, <3>1, RowText DEF WrittenUnder
    <3>3. calls'[p].version \in 1..skill'.version
      BY <1>2, <2>2, <3>1, RowText
    <3>4. ASSUME s = "refine:model"
          PROVE  skill'.version > 1 \/ snapshots'[1] # 0
      <4>1. calls[p].at = "refine:skill" /\ skill.version \in calls[p].rows
        BY <1>0, <3>4 DEF AfterReads
      <4>2. skill.version \in Numbers(snapshots)
        BY <4>1, <1>2, Typed
      <4> QED
        BY <1>2, <3>1, <4>2, RowText, SeenFiled
    <3> HIDE DEF s
    <3> QED
      BY <1>2, <2>1, <2>2, <3>1, <3>2, <3>3, <3>4 DEF Live
  <2> HIDE DEF s
  <2> QED
    BY <1>0, <2>1, <2>2, <2>3, <2>4, QuietMove, Typed DEF Reads, DonePoints, DiagramPoints
<1> QED
  BY <1>1, <1>2

LEMMA NumbersType ==
  ASSUME SkillInv
  PROVE  Numbers(snapshots) \in SUBSET Contents /\ Numbers(session) \in SUBSET Contents
  BY DEF Numbers, SkillInv, SkillTypeOK

LEMMA RefineReadHistoryKeeps ==
  ASSUME SkillInv, NEW p \in Procs, RefineReadHistory(p)
  PROVE  SkillInv'
<1> USE DEF OpsKnown, CallKnows, FilePoints, DrawingPoints, SessionPoints, HealPoints,
            NewPoints, BumpPoints, BlankPoints, GeneratePoints, RefinePoints
<1> DEFINE s == IF calls[p].at = "refine:reads" THEN "refine:skill"
                ELSE AfterReads(calls[p].version, Numbers(snapshots))
           S == IF calls[p].at = "refine:reads" THEN Numbers(snapshots) ELSE {}
<1>0. calls[p].at \in {"refine:reads", "refine:history"} /\ Reads(p)
  BY DEF RefineReadHistory
<1>1. calls' = [calls EXCEPT ![p].at = s, ![p].rows = S]
  BY DEF RefineReadHistory, At
<1>2. s \in Steps /\ s \in {"refine:skill", "refine:model", "refine:presave"}
  BY DEF Steps, AfterReads
<1>3. S \in SUBSET Contents
  BY NumbersType
<1>4. /\ OthersKept(p) /\ SameData(p)
      /\ calls'[p].at = s /\ calls'[p].op = calls[p].op /\ calls'[p].rows = S
  <2> HIDE DEF s, S
  <2>1. PICK t \in Steps, T \in SUBSET Contents : t = s /\ T = S
    BY <1>2, <1>3
  <2>2. calls' = [calls EXCEPT ![p].at = t, ![p].rows = T]
    BY <1>1, <2>1
  <2>3. CallsOK
    BY Typed
  <2>4. /\ OthersKept(p) /\ SameData(p)
        /\ calls'[p].at = t /\ calls'[p].op = calls[p].op /\ calls'[p].rows = T
    BY <2>2, <2>3, AtRows
  <2> QED
    BY <2>1, <2>4
<1>5. CallKnows(p)'
  <2>1. skill' = skill /\ contents' = contents /\ snapshots' = snapshots
    BY <1>0 DEF Reads, tables
  <2>2. ASSUME s \in {"refine:model", "refine:presave"}
        PROVE  calls[p].at = "refine:history"
    BY <1>0, <2>2
  <2>3. s = "refine:presave" => WrittenUnder(calls[p].content, calls[p].version)'
    BY <1>4, <2>1, <2>2, Typed DEF WrittenUnder, SameData
  <2>4. s = "refine:skill" => calls'[p].rows \subseteq Numbers(snapshots')
    BY <1>4, <2>1, <1>0 DEF AfterReads
  <2>5. ASSUME s = "refine:presave", Live PROVE calls'[p].version \in 1..skill'.version
    BY <1>4, <2>1, <2>2, <2>5, Typed DEF SameData
  <2>6. ASSUME s = "refine:model", Live PROVE skill'.version > 1 \/ snapshots'[1] # 0
    <3>1. calls[p].version \in 1..skill.version
      BY <2>2, <2>6, Typed
    <3>2. calls[p].version \in Numbers(snapshots)
      BY <2>2, <2>6 DEF AfterReads
    <3> QED
      BY <2>1, <2>6, <3>1, <3>2, SeenFiled
  <2>7. skill.state # "none"
    BY <1>0, Typed
  <2> HIDE DEF s, S
  <2> QED
    BY <1>2, <1>4, <2>1, <2>3, <2>4, <2>5, <2>6, <2>7 DEF Live
<1> HIDE DEF s, S
<1> QED
  BY <1>0, <1>2, <1>4, <1>5, QuietMove, Typed DEF Reads, DonePoints, DiagramPoints

LEMMA ExpectKeeps ==
  ASSUME SkillInv, NEW p \in Procs,
         BumpExpect(p) \/ UpdateExpect(p)
  PROVE  SkillInv'
<1> USE DEF OpsKnown, CallKnows, FilePoints, DrawingPoints, SessionPoints, HealPoints,
            NewPoints, BumpPoints, BlankPoints, GeneratePoints, RefinePoints
<1>0. /\ calls[p].at \in {"bump:expect", "update:expect"} /\ Reads(p)
  BY DEF BumpExpect, UpdateExpect, Expect, At
<1>1. CASE ~Live
  <2>1. Return(p)
    BY <1>1 DEF BumpExpect, UpdateExpect, Expect
  <2> QED
    BY <1>0, <2>1, ReadReturn
<1>2. CASE Live
  <2>1. PICK s \in Steps :
          /\ s = IF calls[p].at = "bump:expect" THEN "bump:write" ELSE "update:write"
          /\ calls' = [calls EXCEPT ![p].at = s, ![p].version = skill.version]
    BY <1>2 DEF BumpExpect, UpdateExpect, Expect, At, Steps
  <2>2. PICK v \in 0..MaxContents : v = skill.version
    BY Typed
  <2>6. calls' = [calls EXCEPT ![p].at = s, ![p].version = v]
    BY <2>1, <2>2
  <2>7. CallsOK
    BY Typed
  <2>3. /\ OthersKept(p)
        /\ calls'[p].at = s /\ calls'[p].op = calls[p].op
    BY <2>6, <2>7, AtVersion
  <2>4. skill' = skill /\ snapshots' = snapshots
    BY <1>0 DEF Reads, tables
  <2>5. CallKnows(p)' /\ OpsKnown(p)'
    BY <1>0, <1>2, <2>1, <2>3, <2>4, Typed DEF Live
  <2>8. /\ calls[p].at \notin {"generate:join", "snapshot"} \cup DonePoints
        /\ calls'[p].at \notin SessionPoints \cup
                              {"generate:join", "snapshot", "delete:messages"}
        /\ calls'[p].at \notin DrawingPoints
    BY <1>0, <2>1, <2>3 DEF DonePoints, DiagramPoints
  <2> QED
    BY <1>0, <2>3, <2>5, <2>8, QuietMove DEF Reads
<1> QED
  BY <1>1, <1>2

LEMMA HealListKeeps ==
  ASSUME SkillInv, NEW p \in Procs, HealList(p)
  PROVE  SkillInv'
<1> USE DEF OpsKnown, CallKnows, FilePoints, DrawingPoints, SessionPoints, HealPoints,
            NewPoints, BumpPoints, BlankPoints, GeneratePoints, RefinePoints
<1>0. calls[p].at = "heal:list" /\ Reads(p)
  BY DEF HealList, At
<1>1. skill' = skill /\ snapshots' = snapshots
  BY <1>0 DEF Reads, tables
<1>2. CASE Return(p)
  BY <1>0, <1>2, ReadReturn
<1>3. CASE /\ calls[p].version \in Numbers(snapshots) /\ calls[p].op = "approve"
           /\ Goto(p, "bump:expect")
  <2>1. /\ OthersKept(p) /\ calls'[p].at = "bump:expect" /\ calls'[p].op = calls[p].op
    BY <1>3, Typed, GotoFacts DEF Steps
  <2>2. Live => skill.version > 1 \/ snapshots[1] # 0
    BY <1>0, <1>3, SeenFiled, Typed
  <2>3. CallKnows(p)' /\ OpsKnown(p)'
    BY <1>0, <1>1, <1>3, <2>1, <2>2, Typed DEF Live
  <2> QED
    BY <1>0, <2>1, <2>3, QuietMove DEF Reads, DonePoints, DiagramPoints
<1>4. CASE Goto(p, "heal:full")
  <2>1. /\ OthersKept(p) /\ calls'[p].at = "heal:full" /\ calls'[p].op = calls[p].op
    BY <1>4, Typed, GotoFacts DEF Steps
  <2>2. CallKnows(p)' /\ OpsKnown(p)'
    BY <1>0, <1>1, <2>1, Typed DEF Live
  <2> QED
    BY <1>0, <2>1, <2>2, QuietMove DEF Reads, DonePoints, DiagramPoints
<1> QED
  BY <1>2, <1>3, <1>4 DEF HealList, AfterHeal

LEMMA HealFullKeeps ==
  ASSUME SkillInv, NEW p \in Procs, HealFull(p)
  PROVE  SkillInv'
<1> USE DEF OpsKnown, CallKnows, FilePoints, DrawingPoints, SessionPoints, HealPoints,
            NewPoints, BumpPoints, BlankPoints, GeneratePoints, RefinePoints
<1>0. calls[p].at = "heal:full" /\ Reads(p)
  BY DEF HealFull, At
<1>1. skill' = skill /\ snapshots' = snapshots /\ contents' = contents
  BY <1>0 DEF Reads, tables
<1>2. CASE Return(p)
  BY <1>0, <1>2, ReadReturn
<1>3. CASE ~Live /\ calls[p].op = "approve" /\ Goto(p, "bump:expect")
  <2>1. /\ OthersKept(p) /\ calls'[p].at = "bump:expect" /\ calls'[p].op = calls[p].op
    BY <1>3, Typed, GotoFacts DEF Steps
  <2>2. CallKnows(p)' /\ OpsKnown(p)'
    BY <1>0, <1>1, <1>3, <2>1, Typed DEF Live
  <2> QED
    BY <1>0, <2>1, <2>2, QuietMove DEF Reads, DonePoints, DiagramPoints
<1>4. CASE Live
  <2>1. PICK v \in 0..MaxContents, c \in 0..MaxContents :
          v = skill.version /\ c = skill.content
    BY Typed
  <2>2. calls' = [calls EXCEPT ![p].at = "heal:save", ![p].version = v, ![p].content = c]
    BY <1>4, <2>1 DEF HealFull
  <2>3. /\ OthersKept(p)
        /\ calls'[p].at = "heal:save" /\ calls'[p].op = calls[p].op
        /\ calls'[p].version = v /\ calls'[p].content = c
    <3>1. CallsOK /\ "heal:save" \in Steps
      BY Typed DEF Steps
    <3> QED
      BY <2>2, <3>1 DEF CallsOK, OthersKept, Call
  <2>4. WrittenUnder(calls[p].content, calls[p].version)'
    BY <1>1, <1>4, <2>1, <2>3, RowText DEF WrittenUnder
  <2>5. calls'[p].version \in 1..skill'.version
    BY <1>1, <1>4, <2>1, <2>3, RowText
  <2>6. CallKnows(p)' /\ OpsKnown(p)'
    BY <1>0, <1>1, <1>4, <2>3, <2>4, <2>5, Typed DEF Live
  <2> QED
    BY <1>0, <2>3, <2>6, QuietMove DEF Reads, DonePoints, DiagramPoints
<1> QED
  BY <1>2, <1>3, <1>4 DEF HealFull, AfterHeal

-----------------------------------------------------------------------------
(* The reads of an append, of a diagram, and the death of a call.          *)

LEMMA FixesRowsKeeps ==
  ASSUME SkillInv, NEW p \in Procs, SessionRead(p) \/ DeleteSession(p)
  PROVE  SkillInv'
<1> USE DEF OpsKnown, CallKnows, FilePoints, DrawingPoints, SessionPoints, HealPoints,
            NewPoints, BumpPoints, BlankPoints, GeneratePoints, RefinePoints
<1> DEFINE fixed == {"session:lock", "session:append", "delete:messages"}
<1>00. PICK s \in {"session:read", "delete:session"},
            n \in {"session:lock", "delete:messages"} :
         FixesRows(p, s, n) /\ (s = "session:read" <=> n = "session:lock")
  BY DEF SessionRead, DeleteSession
<1>0. /\ calls[p].at = s
      /\ UNCHANGED <<skill, contents, tables, orphaned>>
      /\ raced' = (raced \/ \E q \in Procs \ {p} : calls[q].at \in fixed)
  BY <1>00 DEF FixesRows, At
<1>1. PICK S \in SUBSET Contents : S = Numbers(session)
  BY NumbersType
<1>2. calls' = [calls EXCEPT ![p].at = n, ![p].rows = S]
  BY <1>00, <1>1 DEF FixesRows
<1>3. CallsOK
  BY Typed
<1>4. /\ OthersKept(p) /\ SameData(p)
      /\ calls'[p].at = n /\ calls'[p].op = calls[p].op
      /\ calls'[p].rows = S
  BY <1>2, <1>3, AtRows DEF Steps
<1>5. CallKnows(p)' /\ OpsKnown(p)'
  BY <1>00, <1>0, <1>4, Typed DEF SameData, WrittenUnder
<1>6. Orderly(p)
  BY <1>00, <1>0, <1>4, <1>5, MoveOrderly
<1>7. p \notin StillWriting' /\ (p \in Prompters' => p \in Prompters)
  BY <1>00, <1>0, <1>4, <1>5 DEF StillWriting, Writers, Prompters
<1>8. ~raced' => AppendsAlone(p)
  BY <1>0, <1>1, <1>4 DEF AppendsAlone, AppendPoints
<1>9. raced' \in BOOLEAN /\ orphaned' \in SUBSET Versions
  <2>1. raced \in BOOLEAN
    BY DEF SkillInv, SkillTypeOK
  <2>2. (raced \/ \E q \in Procs \ {p} : calls[q].at \in fixed) \in BOOLEAN
    BY <2>1
  <2>3. raced' \in BOOLEAN
    BY <2>2, <1>0, Zenon
  <2> QED
    BY <1>0, <2>3 DEF SkillInv, SkillTypeOK
<1> QED
  BY <1>00, <1>0, <1>5, <1>6, <1>7, <1>8, <1>9, QuietKeeps

LEMMA SessionLockKeeps ==
  ASSUME SkillInv, NEW p \in Procs, SessionLock(p)
  PROVE  SkillInv'
<1> USE DEF OpsKnown, CallKnows, FilePoints, DrawingPoints, SessionPoints, HealPoints,
            NewPoints, BumpPoints, BlankPoints, GeneratePoints, RefinePoints
<1>0. /\ calls[p].at = "session:lock" /\ Reads(p)
  BY DEF SessionLock, At
<1>1. PICK S \in SUBSET Contents : S = calls[p].rows \cap Numbers(session)
  BY NumbersType
<1>2. calls' = [calls EXCEPT ![p].at = "session:append", ![p].rows = S]
  BY <1>1, Typed DEF SessionLock, CallsOK
<1>3. CallsOK
  BY Typed
<1>4. /\ OthersKept(p) /\ SameData(p)
      /\ calls'[p].at = "session:append" /\ calls'[p].op = calls[p].op
      /\ calls'[p].rows = S
  BY <1>2, <1>3, AtRows DEF Steps
<1>5. CallKnows(p)' /\ OpsKnown(p)'
  BY <1>0, <1>4, Typed DEF SameData, WrittenUnder, Reads
<1>6. Orderly(p)
  BY <1>0, <1>4, <1>5, MoveOrderly
<1>7. p \notin StillWriting' /\ p \in Prompters
  BY <1>0, <1>4 DEF StillWriting, Writers, Prompters
<1>8. ~raced' => AppendsAlone(p)
  <2> SUFFICES ASSUME ~raced PROVE AppendsAlone(p)
    BY <1>0 DEF Reads, ghosts
  <2>1. OneAppend
    BY DEF SkillInv, SessionInv
  <2> QED
    BY <1>0, <1>1, <1>4, <2>1 DEF OneAppend, AppendsAlone, AppendPoints
<1>9. raced' \in BOOLEAN /\ orphaned' \in SUBSET Versions
  BY <1>0 DEF Reads, ghosts, SkillInv, SkillTypeOK
<1> QED
  BY <1>0, <1>5, <1>6, <1>7, <1>8, <1>9, QuietKeeps DEF Reads, ghosts

\* A diagram call on its way to the drawing, with a text of the version.
LEMMA TargetKeeps ==
  ASSUME SkillInv, NEW p \in Procs, Reads(p),
         calls[p].at \in {"diagram:skill", "diagram:snapshot"},
         NEW v \in 0..MaxContents, NEW c \in 0..MaxContents, WrittenUnder(c, v),
         OthersKept(p), calls'[p].at = AfterTarget(p), calls'[p].op = calls[p].op,
         calls'[p].version = v, calls'[p].content = c
  PROVE  SkillInv'
<1> USE DEF OpsKnown, CallKnows, FilePoints, DrawingPoints, SessionPoints, HealPoints,
            NewPoints, BumpPoints, BlankPoints, GeneratePoints, RefinePoints
<1>1. /\ calls'[p].at \in {"diagram:model", "diagram:cached"}
      /\ calls'[p].at \in DrawingPoints => Forced(p)
  BY DEF AfterTarget
<1>2. skill' = skill /\ contents' = contents
  BY DEF Reads
<1>3. WrittenUnder(calls[p].content, calls[p].version)'
  BY <1>2 DEF WrittenUnder
<1>4. CallKnows(p)' /\ OpsKnown(p)'
  BY <1>1, <1>2, <1>3, Typed
<1>5. /\ calls[p].at \notin {"generate:join", "snapshot"}
      /\ calls'[p].at \notin SessionPoints \cup {"generate:join", "snapshot"}
      /\ calls'[p].at \in DonePoints
  BY <1>1 DEF DonePoints, DiagramPoints
<1> QED
  BY <1>1, <1>4, <1>5, QuietMove DEF Reads

LEMMA DiagramSkillKeeps ==
  ASSUME SkillInv, NEW p \in Procs, DiagramSkill(p)
  PROVE  SkillInv'
<1>0. calls[p].at = "diagram:skill" /\ Reads(p)
  BY DEF DiagramSkill, At
<1>1. CASE ~Live
  <2>1. Return(p)
    BY <1>1 DEF DiagramSkill
  <2> QED
    BY <1>0, <2>1, ReadReturn
<1>2. CASE /\ Live /\ calls[p].op \in {"draw", "redraw"}
           /\ calls[p].version \notin {0, skill.version}
  <2>1. Goto(p, "diagram:snapshot")
    BY <1>2 DEF DiagramSkill
  <2>2. /\ OthersKept(p) /\ SameData(p)
        /\ calls'[p].at = "diagram:snapshot" /\ calls'[p].op = calls[p].op
    BY <2>1, Typed, GotoFacts DEF Steps
  <2>3. CallKnows(p)' /\ OpsKnown(p)'
    BY <1>0, <1>2, <2>2, Typed DEF SameData, OpsKnown, CallKnows, FilePoints,
      DrawingPoints, SessionPoints, HealPoints, NewPoints, BumpPoints, BlankPoints,
      GeneratePoints, RefinePoints, Reads, Live
  <2>4. /\ calls[p].at \notin {"generate:join", "snapshot"}
        /\ calls'[p].at \notin SessionPoints \cup {"generate:join", "snapshot"}
        /\ calls'[p].at \in DonePoints /\ calls'[p].at \notin DrawingPoints
    BY <1>0, <2>2 DEF DonePoints, DiagramPoints, SessionPoints, DrawingPoints
  <2> QED
    BY <1>0, <2>2, <2>3, <2>4, QuietMove DEF Reads
<1>3. CASE /\ Live
           /\ ~(/\ calls[p].op \in {"draw", "redraw"}
                /\ calls[p].version \notin {0, skill.version})
  <2>1. PICK s \in Steps, v \in 0..MaxContents, c \in 0..MaxContents :
          s = AfterTarget(p) /\ v = skill.version /\ c = skill.content
    BY Typed DEF AfterTarget, Steps
  <2>2. calls' = [calls EXCEPT ![p].at = s, ![p].version = v, ![p].content = c]
    BY <1>3, <2>1 DEF DiagramSkill
  <2>3. CallsOK
    BY Typed
  <2>4. /\ OthersKept(p)
        /\ calls'[p].at = s /\ calls'[p].op = calls[p].op
        /\ calls'[p].version = v /\ calls'[p].content = c
    BY <2>2, <2>3 DEF CallsOK, OthersKept, Call
  <2>5. WrittenUnder(c, v)
    BY <1>3, <2>1, RowText
  <2> QED
    BY <1>0, <2>1, <2>4, <2>5, TargetKeeps
<1> QED
  BY <1>1, <1>2, <1>3

LEMMA DiagramSnapshotKeeps ==
  ASSUME SkillInv, NEW p \in Procs, DiagramSnapshot(p)
  PROVE  SkillInv'
<1>0. calls[p].at = "diagram:snapshot" /\ Reads(p)
  BY DEF DiagramSnapshot, At
<1>1. calls[p].version \in Versions
  BY <1>0, Typed DEF CallKnows
<1>2. CASE snapshots[calls[p].version] = 0
  <2>1. Return(p)
    BY <1>2 DEF DiagramSnapshot
  <2> QED
    BY <1>0, <2>1, ReadReturn
<1>3. CASE snapshots[calls[p].version] # 0
  <2>1. PICK v \in Versions : v = calls[p].version
    BY <1>1
  <2>2. snapshots[v] \in 0..MaxContents
    BY DEF SkillInv, SkillTypeOK
  <2>3. PICK s \in Steps, c \in 0..MaxContents :
          s = AfterTarget(p) /\ c = snapshots[v]
    BY <2>2 DEF AfterTarget, Steps
  <2>4. calls' = [calls EXCEPT ![p].at = s, ![p].content = c]
    BY <1>3, <2>1, <2>3 DEF DiagramSnapshot
  <2>5. CallsOK
    BY Typed
  <2>6. /\ OthersKept(p)
        /\ calls'[p].at = s /\ calls'[p].op = calls[p].op
        /\ calls'[p].version = calls[p].version /\ calls'[p].content = c
    BY <2>4, <2>5, AtContent
  <2>7. WrittenUnder(snapshots[v], v)
    BY <1>3, <2>1 DEF SkillInv, DataInv, Filed
  <2>8. WrittenUnder(c, v)
    BY <2>3, <2>7
  <2>9. v \in 0..MaxContents
    BY <2>1, Typed
  <2> QED
    BY <1>0, <2>1, <2>3, <2>6, <2>8, <2>9, TargetKeeps
<1> QED
  BY <1>2, <1>3

\* From the cache to the model, and from the model to the save.
LEMMA DrawKeeps ==
  ASSUME SkillInv, NEW p \in Procs, Reads(p),
         NEW s \in DrawingPoints, Goto(p, s),
         \/ calls[p].at = "diagram:cached" /\ Drawing(calls[p].version) = {}
         \/ calls[p].at = "diagram:model"
  PROVE  SkillInv'
<1>1. /\ OthersKept(p) /\ SameData(p)
      /\ calls'[p].at = s /\ calls'[p].op = calls[p].op
  BY Typed, GotoFacts DEF Steps, DrawingPoints
<1>2. CallKnows(p)' /\ OpsKnown(p)'
  BY <1>1, Typed DEF SameData, OpsKnown, CallKnows, FilePoints, WrittenUnder,
      DrawingPoints, SessionPoints, HealPoints, NewPoints, BumpPoints, BlankPoints,
      GeneratePoints, RefinePoints, Reads
<1>3. p \in Inflight' <=> p \in Inflight
  BY <1>1 DEF Inflight, At, DrawingPoints
<1>4. \/ Draws(p)
      \/ Forced(p)
      \/ \A q \in Procs \ {p} : ~(Draws(q) /\ calls[q].version = calls[p].version)
  BY DEF Drawing, Draws, DrawingPoints
<1>5. Draws(p)' =>
       \/ Draws(p) /\ calls'[p].version = calls[p].version
       \/ \A q \in Procs \ {p} : ~(Draws(q) /\ calls[q].version = calls'[p].version)
  BY <1>1, <1>4 DEF Draws, Forced, SameData
<1>6. Orderly(p)
  BY <1>1, <1>2, <1>3, <1>5 DEF Orderly, DrawingPoints
<1>7. p \notin StillWriting' /\ p \notin Prompters' /\ AppendsAlone(p)
  BY <1>1 DEF StillWriting, Prompters, DiagramPoints, DrawingPoints, SessionPoints,
              AppendsAlone, AppendPoints
<1>8. raced' \in BOOLEAN /\ orphaned' \in SUBSET Versions
  BY DEF Reads, ghosts, SkillInv, SkillTypeOK
<1> QED
  BY <1>2, <1>6, <1>7, <1>8, QuietKeeps DEF Reads, ghosts

LEMMA DiagramReadsKeep ==
  ASSUME SkillInv, NEW p \in Procs, DiagramCached(p) \/ DiagramModel(p)
  PROVE  SkillInv'
<1>1. calls[p].at \in {"diagram:cached", "diagram:model"} /\ Reads(p)
  BY DEF DiagramCached, DiagramModel, At
<1>2. CASE Return(p)
  BY <1>1, <1>2, ReadReturn
<1>3. CASE ~Return(p)
  BY <1>1, <1>3, DrawKeeps DEF DiagramCached, DiagramModel, At, DrawingPoints
<1> QED
  BY <1>2, <1>3

LEMMA AbortKeeps ==
  ASSUME SkillInv, NEW p \in Procs, Abort(p)
  PROVE  SkillInv'
<1>1. /\ Return(p)
      /\ orphaned' = IF At(p, "snapshot") THEN orphaned \cup {calls[p].version}
                                          ELSE orphaned
      /\ UNCHANGED <<skill, contents, tables, raced>>
  BY DEF Abort
<1>2. orphaned \in SUBSET Versions
  BY DEF SkillInv, SkillTypeOK
<1>3. At(p, "snapshot") => calls[p].version \in Versions
  <2> SUFFICES ASSUME At(p, "snapshot") PROVE calls[p].version \in Versions
    OBVIOUS
  <2>1. /\ calls[p].content \in 1..Len(contents)
        /\ contents[calls[p].content].version = calls[p].version
    BY Typed DEF At, CallKnows, FilePoints, WrittenUnder
  <2>2. contents \in Seq([version : Versions, base : 0..MaxContents])
    BY DEF SkillInv, SkillTypeOK
  <2>3. contents[calls[p].content].version \in Versions
    BY <2>1, <2>2, TextVersion
  <2> QED
    BY <2>1, <2>3
<1>4. /\ orphaned' \in SUBSET Versions /\ orphaned \subseteq orphaned'
      /\ calls[p].at = "snapshot" => calls[p].version \in orphaned'
  BY <1>1, <1>2, <1>3 DEF At
<1> QED
  BY <1>1, <1>4, QuietReturn

-----------------------------------------------------------------------------
(* Saving a snapshot.                                                      *)

LEMMA SaveKeeps ==
  ASSUME SkillInv, NEW p \in Procs, Live, Orderly(p),
         calls[p].at \in {"refine:presave", "heal:save", "snapshot"},
         snapshots' = [snapshots EXCEPT ![calls[p].version] = calls[p].content],
         UNCHANGED <<skill, contents, diagrams, session, ghosts>>,
         CallKnows(p)',
         p \in StillWriting' => p \in StillWriting,
         p \in Prompters' => p \in Prompters,
         AppendsAlone(p)
  PROVE  SkillInv'
<1> DEFINE v == calls[p].version
           c == calls[p].content
<1>1. OthersKept(p)
  BY DEF Orderly
<1>2. WrittenUnder(c, v)
  BY Typed DEF CallKnows, FilePoints
<1>3. /\ v \in Versions /\ c \in 1..MaxContents /\ c # 0
      /\ snapshots' = [snapshots EXCEPT ![v] = c]
  <2>1. contents \in Seq([version : Versions, base : 0..MaxContents])
    BY DEF SkillInv, SkillTypeOK
  <2>2. v \in Versions
    BY <1>2, <2>1, TextVersion DEF WrittenUnder
  <2>3. c \in 0..MaxContents /\ c \in 1..Len(contents)
    BY <1>2, Typed DEF WrittenUnder
  <2> QED
    BY <2>2, <2>3, ConstantsAssumption
<1> HIDE DEF v, c
<1>4. snapshots \in [Versions -> 0..MaxContents]
  BY DEF SkillInv, SkillTypeOK
<1>5. \A w \in Versions : snapshots'[w] = IF w = v THEN c ELSE snapshots[w]
  BY <1>3, <1>4
<1>6. InOrder'
  BY OrderlyKeeps DEF SkillInv, SkillTypeOK, CallsOK
<1>7. RoomKept'
  BY <1>1, RoomSame DEF SkillInv, SkillTypeOK
<1>8. SkillTypeOK'
  <2>1. Len(contents') <= MaxContents
    BY DEF SkillInv, SkillTypeOK
  <2>2. calls' \in [Procs -> Call]
    BY <1>1 DEF OthersKept
  <2>4. c \in 0..MaxContents
    BY <1>3, ConstantsAssumption
  <2>3. snapshots' \in [Versions -> 0..MaxContents]
    BY <2>4, <1>3, <1>4
  <2> QED
    BY <2>1, <2>2, <2>3 DEF SkillInv, SkillTypeOK, ghosts
<1>9. DataInv'
  <2>1. RowKnown'
    BY DEF SkillInv, DataInv, RowKnown, WrittenUnder, Live
  <2>2. Filed'
    <3> SUFFICES ASSUME NEW w \in Versions
                 PROVE  /\ snapshots'[w] # 0 => WrittenUnder(snapshots[w], w)'
                        /\ diagrams[w] # 0 => WrittenUnder(diagrams[w], w)'
      BY DEF Filed
    <3>1. diagrams[w] # 0 => WrittenUnder(diagrams[w], w)'
      BY DEF SkillInv, DataInv, Filed, WrittenUnder
    <3>2. CASE w = v
      <4>1. snapshots'[w] = c
        BY <1>5, <3>2
      <4> QED
        BY <1>2, <3>1, <3>2, <4>1 DEF WrittenUnder
    <3>3. CASE w # v
      <4>1. snapshots'[w] = snapshots[w]
        BY <1>5, <3>3
      <4> QED
        BY <3>1, <4>1 DEF SkillInv, DataInv, Filed, WrittenUnder
    <3> QED
      BY <3>2, <3>3
  <2>3. Grows
    <3>1. skill.version <= skill'.version /\ Len(contents) <= Len(contents')
      BY DEF SkillInv, SkillTypeOK
    <3> QED
      BY <1>3, <1>5, <3>1 DEF Grows, Live
  <2>4. \A q \in Procs : CallKnows(q)'
    BY <1>1, <1>8, <2>3, KnowsKept DEF SkillInv, DataInv
  <2>5. HistoryFilling'
    <3> SUFFICES ASSUME NEW w \in 1..skill.version,
                        skill.version # 1, snapshots'[w] = 0, w \notin orphaned
                 PROVE  \E q \in Procs : (At(q, "snapshot") /\ calls[q].version = w)'
      BY DEF HistoryFilling, Live, ghosts
    <3>1. w \in Versions
      BY ConstantsAssumption DEF SkillInv, SkillTypeOK
    <3>2. w # v /\ snapshots[w] = 0
      BY <1>3, <1>5, <3>1
    <3>3. PICK q \in Procs : At(q, "snapshot") /\ calls[q].version = w
      BY <3>2 DEF SkillInv, DataInv, HistoryFilling
    <3>4. q # p
      BY <3>2, <3>3 DEF v
    <3>5. calls'[q] = calls[q]
      BY <1>1, <3>3, <3>4 DEF OthersKept, At
    <3> QED
      BY <3>3, <3>5 DEF At
  <2> QED
    BY <2>1, <2>2, <2>4, <2>5 DEF DataInv
<1>10. SessionInv'
  <2>1. Len(contents) <= Len(contents') /\ (raced => raced')
    BY DEF SkillInv, SkillTypeOK, ghosts
  <2> QED
    BY <1>1, <1>8, <2>1, SessionSame DEF SkillInv, Live
<1> QED
  BY <1>6, <1>7, <1>8, <1>9, <1>10 DEF SkillInv

\* The snapshot saved was of the first version, or the skill is past it.
LEMMA SavedFirst ==
  ASSUME SkillInv, NEW p \in Procs, Live,
         calls[p].at \in {"refine:presave", "heal:save"},
         snapshots' = [snapshots EXCEPT ![calls[p].version] = calls[p].content],
         skill' = skill
  PROVE  skill'.version > 1 \/ snapshots'[1] # 0
<1>1. /\ calls[p].version \in 1..skill.version
      /\ WrittenUnder(calls[p].content, calls[p].version)
  BY Typed DEF CallKnows, HealPoints, FilePoints
<1>2. CASE skill.version > 1
  BY <1>2
<1>3. CASE ~(skill.version > 1)
  <2>1. calls[p].version = 1 /\ calls[p].content # 0
    BY <1>1, <1>3, Typed DEF WrittenUnder
  <2>2. 1 \in Versions /\ snapshots \in [Versions -> 0..MaxContents]
    BY ConstantsAssumption DEF SkillInv, SkillTypeOK
  <2> QED
    BY <2>1, <2>2
<1> QED
  BY <1>2, <1>3

LEMMA SaveReturns ==
  ASSUME SkillInv, NEW p \in Procs, Live, Return(p),
         calls[p].at \in {"refine:presave", "heal:save", "snapshot"},
         snapshots' = [snapshots EXCEPT ![calls[p].version] = calls[p].content],
         UNCHANGED <<skill, contents, diagrams, session, ghosts>>
  PROVE  SkillInv'
<1>1. Returned(p)
  BY ReturnFacts, Typed
<1>2. calls'[p].at = "idle" /\ calls'[p].op = "none"
  BY <1>1, IdleFacts DEF Returned
<1>3. Orderly(p)
  BY <1>1, ReturnOrderly
<1>4. p \notin StillWriting' /\ p \notin Prompters' /\ AppendsAlone(p)
  BY <1>2 DEF StillWriting, Writers, Prompters, AppendsAlone, AppendPoints, SessionPoints
<1>5. CallKnows(p)'
  BY <1>2 DEF CallKnows, FilePoints, DrawingPoints, SessionPoints, HealPoints,
              NewPoints, BumpPoints, BlankPoints
<1> QED
  BY <1>3, <1>4, <1>5, SaveKeeps

LEMMA SaveMoves ==
  ASSUME SkillInv, NEW p \in Procs, Live, NEW s \in Steps, Goto(p, s),
         calls[p].at \in {"refine:presave", "heal:save", "snapshot"},
         snapshots' = [snapshots EXCEPT ![calls[p].version] = calls[p].content],
         UNCHANGED <<skill, contents, diagrams, session, ghosts>>,
         \/ calls[p].at = "refine:presave" /\ s = "refine:model"
         \/ calls[p].at = "heal:save" /\ s = "bump:expect" /\ calls[p].op = "approve"
         \/ calls[p].at = "snapshot" /\ s = "session:read" /\ calls[p].op = "refine"
         \/ calls[p].at = "snapshot" /\ s = "diagram:skill"
  PROVE  SkillInv'
<1>1. /\ OthersKept(p) /\ SameData(p)
      /\ calls'[p].at = s /\ calls'[p].op = calls[p].op
  BY Typed, GotoFacts
<1>2. WrittenUnder(calls[p].content, calls[p].version)'
  BY <1>1, Typed DEF CallKnows, FilePoints, WrittenUnder, SameData
<1>3. s \in {"refine:model", "bump:expect"} => skill'.version > 1 \/ snapshots'[1] # 0
  BY SavedFirst
<1>4. CallKnows(p)'
  BY <1>1, <1>2, <1>3 DEF CallKnows, FilePoints, DrawingPoints, SessionPoints,
    HealPoints, NewPoints, BumpPoints, BlankPoints, Live
<1>5. OpsKnown(p)'
  BY <1>1, Typed DEF OpsKnown, DrawingPoints, SessionPoints, BumpPoints, GeneratePoints,
    RefinePoints
<1>6. Orderly(p)
  BY <1>1, <1>5, MoveOrderly DEF DrawingPoints
<1>7. p \in StillWriting' => p \in StillWriting
  BY <1>1 DEF StillWriting, Writers, DiagramPoints
<1>8. (p \in Prompters' => p \in Prompters) /\ AppendsAlone(p)
  BY <1>1 DEF Prompters, SessionPoints, AppendsAlone, AppendPoints
<1> QED
  BY <1>4, <1>6, <1>7, <1>8, SaveKeeps

LEMMA SnapshotsKeep ==
  ASSUME SkillInv, NEW p \in Procs,
         RefinePresave(p) \/ HealSave(p) \/ SnapshotNew(p)
  PROVE  SkillInv'
<1>1. UNCHANGED <<skill, contents, diagrams, session, ghosts>>
  BY DEF RefinePresave, HealSave, SnapshotNew, SaveSnapshot
<1>2. calls[p].at \in {"refine:presave", "heal:save", "snapshot"}
  BY DEF RefinePresave, HealSave, SnapshotNew, At
<1> DEFINE saved == snapshots' = [snapshots EXCEPT ![calls[p].version] = calls[p].content]
<1>0. \/ /\ Return(p) /\ UNCHANGED snapshots
         /\ ~Live \/ snapshots[calls[p].version] # 0
      \/ /\ Live /\ saved
         /\ \/ Return(p)
            \/ RefinePresave(p) /\ Goto(p, "refine:model")
            \/ HealSave(p) /\ Goto(p, "bump:expect") /\ calls[p].op = "approve"
            \/ SnapshotNew(p) /\ Goto(p, "session:read") /\ calls[p].op = "refine"
            \/ SnapshotNew(p) /\ Goto(p, "diagram:skill")
  <2>1. CASE RefinePresave(p)
    BY <2>1 DEF RefinePresave, SaveSnapshot
  <2>2. CASE HealSave(p)
    BY <2>2 DEF HealSave, SaveSnapshot, AfterHeal
  <2>3. CASE SnapshotNew(p)
    BY <2>3 DEF SnapshotNew, SaveSnapshot, AfterSnapshot
  <2> QED
    BY <2>1, <2>2, <2>3
<1>3. CASE Return(p) /\ UNCHANGED snapshots /\ (~Live \/ snapshots[calls[p].version] # 0)
  <2>1. orphaned' \in SUBSET Versions /\ orphaned \subseteq orphaned'
    BY <1>1 DEF ghosts, SkillInv, SkillTypeOK
  <2> QED
    BY <1>1, <1>3, <2>1, QuietReturn DEF tables, ghosts
<1>4. ASSUME Live, saved,
             \/ Return(p)
             \/ RefinePresave(p) /\ Goto(p, "refine:model")
             \/ HealSave(p) /\ Goto(p, "bump:expect") /\ calls[p].op = "approve"
             \/ SnapshotNew(p) /\ Goto(p, "session:read") /\ calls[p].op = "refine"
             \/ SnapshotNew(p) /\ Goto(p, "diagram:skill")
      PROVE  SkillInv'
  <2>1. saved
    BY <1>4
  <2>3. CASE Return(p)
    BY <1>1, <1>2, <1>4, <2>1, <2>3, SaveReturns
  <2>4. CASE RefinePresave(p) /\ Goto(p, "refine:model")
    BY <1>1, <1>4, <2>1, <2>4, SaveMoves DEF Steps, RefinePresave, At
  <2>5. CASE HealSave(p) /\ Goto(p, "bump:expect") /\ calls[p].op = "approve"
    BY <1>1, <1>4, <2>1, <2>5, SaveMoves DEF Steps, HealSave, At
  <2>6. CASE SnapshotNew(p) /\ Goto(p, "session:read") /\ calls[p].op = "refine"
    BY <1>1, <1>4, <2>1, <2>6, SaveMoves DEF Steps, SnapshotNew, At
  <2>7. CASE SnapshotNew(p) /\ Goto(p, "diagram:skill")
    BY <1>1, <1>4, <2>1, <2>7, SaveMoves DEF Steps, SnapshotNew, At
  <2> QED
    BY <1>4, <2>3, <2>4, <2>5, <2>6, <2>7
<1> QED
  BY <1>0, <1>3, <1>4

-----------------------------------------------------------------------------
(* Writing a text.                                                         *)

LEMMA AppendFacts ==
  ASSUME SkillInv, NEW v \in Versions, NEW b \in 0..MaxContents, Write(v, b)
  PROVE  /\ Len(contents') = Len(contents) + 1
         /\ contents' \in Seq([version : Versions, base : 0..MaxContents])
         /\ \A c \in 1..Len(contents) : contents'[c] = contents[c]
         /\ contents'[Len(contents) + 1].version = v
         /\ skill'.state = "live" /\ skill'.version = v
         /\ skill'.content = Len(contents) + 1
<1> DEFINE T == [version : Versions, base : 0..MaxContents]
           e == [version |-> v, base |-> b]
<1>1. e \in T /\ e.version = v
  OBVIOUS
<1>2. contents \in Seq(T)
  BY DEF SkillInv, SkillTypeOK
<1>3. /\ contents' = Append(contents, e)
      /\ skill' = [state |-> "live", version |-> v, content |-> Len(contents) + 1]
  BY DEF Write
<1> HIDE DEF T, e
<1>4. /\ Len(contents') = Len(contents) + 1
      /\ contents' \in Seq(T)
      /\ \A c \in 1..Len(contents) : contents'[c] = contents[c]
      /\ contents'[Len(contents) + 1] = e
  BY <1>1, <1>2, <1>3
<1> QED
  BY <1>1, <1>3, <1>4 DEF T

LEMMA WriteKeeps ==
  ASSUME SkillInv, NEW p \in Procs, NEW v \in Versions, NEW b \in 0..MaxContents,
         Write(v, b), Orderly(p),
         \/ Live /\ v >= skill.version /\ v <= skill.version + 1
         \/ skill.state = "none" /\ v = 1,
         \/ snapshots' = snapshots
         \/ snapshots' = [snapshots EXCEPT ![v] = Len(contents')],
         UNCHANGED <<diagrams, session, ghosts>>,
         p \in StillWriting, p \notin StillWriting',
         CallKnows(p)', HistoryFilling',
         calls'[p].at \notin AppendPoints
  PROVE  SkillInv'
<1>1. OthersKept(p)
  BY DEF Orderly
<1>2. /\ Len(contents') = Len(contents) + 1
      /\ contents' \in Seq([version : Versions, base : 0..MaxContents])
      /\ \A c \in 1..Len(contents) : contents'[c] = contents[c]
      /\ contents'[Len(contents) + 1].version = v
      /\ skill'.state = "live" /\ skill'.version = v
      /\ skill'.content = Len(contents) + 1
  BY AppendFacts
<1>3. Len(contents) \in Nat /\ Len(contents') \in Nat
  BY DEF SkillInv, SkillTypeOK
<1>4. RoomKept' /\ Len(contents) + 1 \in 1..MaxContents
  BY <1>1, <1>2, RoomSpent DEF SkillInv, SkillTypeOK
<1>5. InOrder'
  BY OrderlyKeeps DEF SkillInv, SkillTypeOK, CallsOK
<1>6. /\ snapshots \in [Versions -> 0..MaxContents]
      /\ diagrams \in [Versions -> 0..MaxContents]
  BY DEF SkillInv, SkillTypeOK
<1>7. PICK n \in 1..MaxContents : n = Len(contents')
  BY <1>2, <1>4
<1>8. n \in 0..MaxContents /\ n # 0
  BY ConstantsAssumption
<1>9. \A w \in Versions : snapshots'[w] = snapshots[w] \/ (w = v /\ snapshots'[w] = n)
  BY <1>6, <1>7
<1>10. SkillTypeOK'
  <2>1. calls' \in [Procs -> Call]
    BY <1>1 DEF OthersKept
  <2>2. snapshots' \in [Versions -> 0..MaxContents]
    BY <1>6, <1>7, <1>8
  <2>3. Len(contents') <= MaxContents
    BY <1>2, <1>3, <1>4, ConstantsAssumption
  <2>4. skill' \in [state : {"none", "live", "deleted"}, version : 0..MaxContents,
                    content : 0..MaxContents]
    <3>1. skill' = [state |-> "live", version |-> v, content |-> Len(contents) + 1]
      BY DEF Write
    <3>2. v \in 0..MaxContents /\ Len(contents) + 1 \in 0..MaxContents
      BY <1>4, ConstantsAssumption
    <3> QED
      BY <3>1, <3>2
  <2> QED
    BY <1>2, <2>1, <2>2, <2>3, <2>4 DEF SkillInv, SkillTypeOK, ghosts
<1>11. DataInv'
  <2>1. v <= Len(contents) + 1
    <3>1. CASE Live /\ v <= skill.version + 1
      BY <1>3, <3>1 DEF SkillInv, DataInv, RowKnown
    <3>2. CASE v = 1
      BY <1>3, <3>2
    <3> QED
      BY <3>1, <3>2
  <2>2. RowKnown'
    BY <1>2, <1>3, <2>1 DEF RowKnown, WrittenUnder
  <2>3. ASSUME NEW w \in Versions, NEW c \in 1..Len(contents), contents[c].version = w
        PROVE  c \in 1..Len(contents') /\ contents'[c].version = w
    <3>1. contents'[c] = contents[c]
      BY <1>2
    <3>2. c \in 1..Len(contents')
      BY <1>2, <1>3
    <3> QED
      BY <2>3, <3>1, <3>2
  <2>4. Filed'
    <3> SUFFICES ASSUME NEW w \in Versions
                 PROVE  /\ snapshots'[w] # 0 => WrittenUnder(snapshots[w], w)'
                        /\ diagrams[w] # 0 => WrittenUnder(diagrams[w], w)'
      BY DEF Filed
    <3>1. /\ snapshots[w] # 0 => WrittenUnder(snapshots[w], w)
          /\ diagrams[w] # 0 => WrittenUnder(diagrams[w], w)
      BY DEF SkillInv, DataInv, Filed
    <3>2. diagrams[w] # 0 => WrittenUnder(diagrams[w], w)'
      BY <3>1, <2>3 DEF WrittenUnder
    <3>3. CASE snapshots'[w] = snapshots[w]
      BY <3>1, <3>2, <3>3, <2>3 DEF WrittenUnder
    <3>4. CASE w = v /\ snapshots'[w] = n
      BY <3>2, <3>4, <1>2, <1>3, <1>7 DEF WrittenUnder
    <3> QED
      BY <1>9, <3>3, <3>4
  <2>5. Grows
    <3>1. Live => skill.version <= skill'.version
      BY <1>2, Typed, ConstantsAssumption DEF Live
    <3>2. \A w \in Versions : snapshots[w] # 0 => snapshots'[w] # 0
      BY <1>8, <1>9
    <3>3. Len(contents) <= Len(contents')
      BY <1>2, <1>3
    <3>4. skill'.state # "none" /\ (skill.state = "none" \/ Live)
      BY <1>2
    <3> QED
      BY <1>2, <3>1, <3>2, <3>3, <3>4 DEF Grows
  <2>6. \A q \in Procs : CallKnows(q)'
    BY <1>1, <1>10, <2>5, KnowsKept DEF SkillInv, DataInv
  <2> QED
    BY <2>2, <2>4, <2>6 DEF DataInv
<1>12. SessionInv'
  <2>1. raced => raced'
    BY DEF ghosts
  <2>2. AppendsAlone(p)
    BY DEF AppendsAlone
  <2>3. \/ Live
        \/ \A q \in Procs : calls[q].at \notin AppendPoints
    <3> SUFFICES ASSUME skill.state = "none", NEW q \in Procs
                 PROVE  calls[q].at \notin AppendPoints
      OBVIOUS
    <3> QED
      BY Typed DEF CallKnows, BlankPoints, GeneratePoints, AppendPoints
  <2>4. Live'
    BY <1>2 DEF Live
  <2> QED
    BY <1>1, <1>2, <1>10, <2>1, <2>2, <2>3, <2>4, SessionSame DEF SkillInv
<1> QED
  BY <1>4, <1>5, <1>10, <1>11, <1>12 DEF SkillInv

LEMMA RoomLeft ==
  ASSUME SkillInv, NEW p \in Procs, p \in StillWriting
  PROVE  Len(contents) + 1 \in 1..MaxContents /\ MaxContents \in Nat
<1>1. Cardinality(StillWriting) \in Nat
  BY WritersFinite, FS_CardinalityType
<1>2. Cardinality(StillWriting) # 0
  BY WritersFinite, FS_EmptySet
<1>3. Len(contents) \in Nat /\ MaxContents \in Nat
  BY ConstantsAssumption DEF SkillInv, SkillTypeOK
<1>4. Len(contents) + Cardinality(StillWriting) <= MaxContents
  BY DEF SkillInv, RoomKept
<1> QED
  BY <1>1, <1>2, <1>3, <1>4

LEMMA CreatesKeeps ==
  ASSUME SkillInv, NEW p \in Procs, NEW s \in {"session:read", "diagram:skill", "idle"},
         Creates(p, s), p \in StillWriting,
         \/ calls[p].at = "generate:create" /\ s = "session:read"
         \/ calls[p].at = "create:insert" /\ s # "session:read"
  PROVE  SkillInv'
<1>1. CASE NameTaken \/ skill.state = "deleted"
  <2>1. Return(p) /\ Reads(p)
    BY <1>1 DEF Creates, Reads
  <2> QED
    BY <2>1, ReadReturn
<1>2. CASE ~(NameTaken \/ skill.state = "deleted")
  <2>1. skill.state = "none"
    BY <1>2 DEF NameTaken, Live, SkillInv, SkillTypeOK
  <2>2. /\ Write(1, 0)
        /\ snapshots' = [snapshots EXCEPT ![1] = Len(contents')]
        /\ UNCHANGED <<diagrams, session, ghosts>>
    BY <1>2 DEF Creates
  <2>3. 1 \in Versions /\ 0 \in 0..MaxContents /\ 1 \in 0..MaxContents
    BY ConstantsAssumption
  <2>4. /\ Len(contents') = Len(contents) + 1
        /\ contents'[Len(contents) + 1].version = 1
        /\ skill'.state = "live" /\ skill'.version = 1
    BY <2>2, <2>3, AppendFacts
  <2>5. PICK c \in 0..MaxContents : c = Len(contents')
    BY <2>4, RoomLeft
  <2>6. Len(contents') \in Nat /\ c \in 1..Len(contents')
    BY <2>4, <2>5, RoomLeft
  <2>7. HistoryFilling'
    BY <2>4 DEF HistoryFilling
  <2>8. CASE s = "idle"
    <3>1. Returned(p)
      BY <1>2, <2>8, Typed, ReturnFacts DEF Creates
    <3>2. calls'[p].at = "idle" /\ calls'[p].op = "none"
      BY <3>1, IdleFacts DEF Returned
    <3>3. Orderly(p)
      BY <3>1, ReturnOrderly
    <3>4. CallKnows(p)' /\ p \notin StillWriting' /\ calls'[p].at \notin AppendPoints
      BY <3>2 DEF CallKnows, FilePoints, DrawingPoints, SessionPoints, HealPoints,
        NewPoints, BumpPoints, BlankPoints, StillWriting, Writers, AppendPoints
    <3> QED
      BY <2>1, <2>2, <2>3, <2>7, <3>3, <3>4, WriteKeeps
  <2>9. CASE s # "idle"
    <3>9. PICK v \in 0..MaxContents : v = 1
      BY <2>3
    <3>1. calls' = [calls EXCEPT ![p].at = s, ![p].version = v, ![p].content = c]
      BY <1>2, <2>5, <2>9, <3>9 DEF Creates
    <3>2. CallsOK /\ s \in Steps
      BY Typed DEF Steps
    <3>10. /\ OthersKept(p)
           /\ calls'[p].at = s /\ calls'[p].op = calls[p].op
           /\ calls'[p].version = v /\ calls'[p].content = c
      BY <3>1, <3>2 DEF CallsOK, OthersKept, Call
    <3>3. /\ OthersKept(p)
          /\ calls'[p].at = s /\ calls'[p].op = calls[p].op
          /\ calls'[p].version = 1 /\ calls'[p].content = c
      BY <3>9, <3>10
    <3>4. WrittenUnder(calls[p].content, calls[p].version)'
      BY <2>4, <2>5, <2>6, <3>3 DEF WrittenUnder
    <3>5. CallKnows(p)'
      BY <2>4, <2>9, <3>3, <3>4 DEF CallKnows, FilePoints, DrawingPoints,
        SessionPoints, HealPoints, NewPoints, BumpPoints, BlankPoints
    <3>6. OpsKnown(p)'
      BY <2>9, <3>3, Typed DEF OpsKnown, DrawingPoints, SessionPoints, BumpPoints,
        GeneratePoints, RefinePoints
    <3>7. Orderly(p)
      BY <2>9, <3>3, <3>6, MoveOrderly DEF DrawingPoints
    <3>8. p \notin StillWriting' /\ calls'[p].at \notin AppendPoints
      BY <2>9, <3>3 DEF StillWriting, Writers, DiagramPoints, AppendPoints
    <3> QED
      BY <2>1, <2>2, <2>3, <2>7, <3>5, <3>7, <3>8, WriteKeeps
  <2> QED
    BY <2>8, <2>9
<1> QED
  BY <1>1, <1>2

LEMMA CreateKeeps ==
  ASSUME SkillInv, NEW p \in Procs, GenerateCreate(p) \/ CreateInsert(p)
  PROVE  SkillInv'
<1>1. p \in StillWriting
  BY Typed DEF GenerateCreate, CreateInsert, At, OpsKnown, GeneratePoints,
               StillWriting, Writers, DiagramPoints
<1>2. CASE GenerateCreate(p)
  BY <1>1, <1>2, CreatesKeeps DEF GenerateCreate, At
<1>3. CASE CreateInsert(p)
  BY <1>1, <1>3, CreatesKeeps DEF CreateInsert, At
<1> QED
  BY <1>2, <1>3

LEMMA BumpWriteKeeps ==
  ASSUME SkillInv, NEW p \in Procs, BumpWrite(p)
  PROVE  SkillInv'
<1>0. /\ calls[p].at = "bump:write" /\ calls[p].op \in {"refine", "approve"}
      /\ UNCHANGED <<tables, ghosts>>
  BY Typed DEF BumpWrite, At, OpsKnown, BumpPoints
<1>1. CASE ~Matches(p)
  <2>1. Return(p) /\ Reads(p)
    BY <1>0, <1>1 DEF BumpWrite, Reads
  <2> QED
    BY <1>0, <2>1, ReadReturn
<1>2. CASE Matches(p)
  <2>1. /\ Live
        /\ Write(skill.version + 1, BaseOf(p))
        /\ calls' = [calls EXCEPT ![p].at = "snapshot",
             ![p].version = skill.version + 1, ![p].content = Len(contents')]
    BY <1>2 DEF BumpWrite, Matches
  <2>2. p \in StillWriting
    BY <1>0 DEF StillWriting, Writers, DiagramPoints
  <2>3. skill.version \in 1..Len(contents) /\ Len(contents) + 1 \in 1..MaxContents
        /\ MaxContents \in Nat
    BY <2>1, <2>2, RoomLeft DEF SkillInv, DataInv, RowKnown
  <2>4. PICK v \in Versions, b \in 0..MaxContents :
          v = skill.version + 1 /\ b = BaseOf(p)
    BY <2>3, Typed DEF BaseOf
  <2>5. Write(v, b)
    BY <2>1, <2>4
  <2>6. /\ Len(contents') = Len(contents) + 1
        /\ contents'[Len(contents) + 1].version = v
        /\ skill'.state = "live" /\ skill'.version = v
    BY <2>5, AppendFacts
  <2>7. PICK c \in 0..MaxContents : c = Len(contents')
    BY <2>3, <2>6
  <2>8. c \in 1..Len(contents') /\ v \in 0..MaxContents
    BY <2>3, <2>6, <2>7
  <2>9. calls' = [calls EXCEPT ![p].at = "snapshot", ![p].version = v, ![p].content = c]
    BY <2>1, <2>4, <2>7
  <2>10. CallsOK /\ "snapshot" \in Steps
    BY Typed DEF Steps
  <2>11. /\ OthersKept(p)
         /\ calls'[p].at = "snapshot" /\ calls'[p].op = calls[p].op
         /\ calls'[p].version = v /\ calls'[p].content = c
    BY <2>8, <2>9, <2>10 DEF CallsOK, OthersKept, Call
  <2>12. WrittenUnder(calls[p].content, calls[p].version)'
    BY <2>6, <2>7, <2>8, <2>11 DEF WrittenUnder
  <2>13. CallKnows(p)' /\ OpsKnown(p)'
    BY <1>0, <2>6, <2>11, <2>12 DEF CallKnows, FilePoints, DrawingPoints,
      SessionPoints, HealPoints, NewPoints, BumpPoints, BlankPoints, OpsKnown,
      GeneratePoints, RefinePoints
  <2>14. Orderly(p)
    BY <1>0, <2>11, <2>13, MoveOrderly DEF DrawingPoints
  <2>15. p \notin StillWriting' /\ calls'[p].at \notin AppendPoints
    BY <2>11 DEF StillWriting, Writers, AppendPoints
  <2>16. HistoryFilling'
    <3> SUFFICES ASSUME NEW w \in 1..v, snapshots'[w] = 0, w \notin orphaned
                 PROVE  \E q \in Procs : (At(q, "snapshot") /\ calls[q].version = w)'
      BY <1>0, <2>6 DEF HistoryFilling, ghosts
    <3>1. snapshots' = snapshots
      BY <1>0 DEF tables
    <3>2. CASE w = v
      BY <2>11, <3>2 DEF At
    <3>3. CASE w # v
      <4>1. w \in 1..skill.version /\ skill.version \in Nat
        BY <2>3, <2>4, <3>3
      <4>2. skill.version > 1 \/ snapshots[1] # 0
        BY <1>0, <2>1, Typed DEF CallKnows, NewPoints, BumpPoints
      <4>3. skill.version # 1
        BY <3>1, <4>1, <4>2
      <4>4. PICK q \in Procs : At(q, "snapshot") /\ calls[q].version = w
        BY <2>1, <3>1, <4>1, <4>3 DEF SkillInv, DataInv, HistoryFilling
      <4>5. calls'[q] = calls[q]
        BY <1>0, <2>11, <4>4 DEF OthersKept, At
      <4> QED
        BY <4>4, <4>5 DEF At
    <3> QED
      BY <3>2, <3>3
  <2>17. v >= skill.version /\ v <= skill.version + 1
    BY <2>3, <2>4
  <2> QED
    BY <1>0, <2>1, <2>2, <2>5, <2>13, <2>14, <2>15, <2>16, <2>17, WriteKeeps DEF tables
<1> QED
  BY <1>1, <1>2

LEMMA UpdateWriteKeeps ==
  ASSUME SkillInv, NEW p \in Procs, UpdateWrite(p)
  PROVE  SkillInv'
<1>0. /\ calls[p].at = "update:write" /\ calls[p].op \in {"edit", "rename"}
      /\ Return(p) /\ UNCHANGED <<tables, ghosts>>
  BY Typed DEF UpdateWrite, At, OpsKnown
<1>1. CASE ~Matches(p)
  <2>1. Reads(p)
    BY <1>0, <1>1 DEF UpdateWrite, Reads
  <2> QED
    BY <1>0, <2>1, ReadReturn
<1>2. CASE Matches(p)
  <2>1. Live /\ Write(skill.version, calls[p].content)
    BY <1>2 DEF UpdateWrite, Matches
  <2>2. p \in StillWriting
    BY <1>0 DEF StillWriting, Writers, DiagramPoints
  <2>3. PICK v \in Versions, b \in 0..MaxContents :
          v = skill.version /\ b = calls[p].content
    BY <2>1, RowText, Typed
  <2>4. Write(v, b)
    BY <2>1, <2>3
  <2>5. skill'.state = "live" /\ skill'.version = v
    BY <2>4, AppendFacts
  <2>6. Returned(p)
    BY <1>0, Typed, ReturnFacts
  <2>7. calls'[p].at = "idle" /\ calls'[p].op = "none"
    BY <2>6, IdleFacts DEF Returned
  <2>8. Orderly(p)
    BY <2>6, ReturnOrderly
  <2>9. CallKnows(p)' /\ p \notin StillWriting' /\ calls'[p].at \notin AppendPoints
    BY <2>5, <2>7 DEF CallKnows, FilePoints, DrawingPoints, SessionPoints, HealPoints,
      NewPoints, BumpPoints, BlankPoints, StillWriting, Writers, AppendPoints
  <2>10. HistoryFilling'
    <3> SUFFICES ASSUME NEW w \in 1..v, v # 1, snapshots[w] = 0, w \notin orphaned
                 PROVE  \E q \in Procs : (At(q, "snapshot") /\ calls[q].version = w)'
      BY <1>0, <2>5 DEF HistoryFilling, ghosts, tables
    <3>1. PICK q \in Procs : At(q, "snapshot") /\ calls[q].version = w
      BY <2>1, <2>3 DEF SkillInv, DataInv, HistoryFilling
    <3>2. calls'[q] = calls[q]
      BY <1>0, <2>6, <3>1 DEF Returned, OthersKept, At
    <3> QED
      BY <3>1, <3>2 DEF At
  <2>11. v >= skill.version /\ v <= skill.version + 1
    BY <2>3
  <2> QED
    BY <1>0, <2>1, <2>2, <2>4, <2>8, <2>9, <2>10, <2>11, WriteKeeps DEF tables
<1> QED
  BY <1>1, <1>2

-----------------------------------------------------------------------------
(* The append of a prompt, the diagram of a version, and the deletion.     *)

\* The window that ends at last has last as its newest prompt,
LEMMA NewestOfWindow ==
  ASSUME NEW last \in Nat
  PROVE  Newest({n \in 1..last : n + MaxMessages > last}) = last
<1> DEFINE S == {n \in 1..last : n + MaxMessages > last}
<1>1. CASE last = 0
  BY <1>1 DEF Newest
<1>2. CASE last # 0
  <2>1. last \in S /\ S \subseteq Nat
    BY <1>2, ConstantsAssumption
  <2>2. \A m \in S : m <= last
    OBVIOUS
  <2>3. Newest(S) \in S /\ \A m \in S : m <= Newest(S)
    <3> HIDE DEF S
    <3> QED
      BY <2>1, <2>2 DEF Newest
  <2>4. Newest(S) \in Nat /\ Newest(S) <= last /\ last <= Newest(S)
    <3> HIDE DEF S
    <3> QED
      BY <2>1, <2>2, <2>3
  <2> QED
    BY <2>4
<1> QED
  BY <1>1, <1>2

\* and loses its oldest prompt when it is full.
LEMMA EvictedOfWindow ==
  ASSUME NEW last \in Nat,
         NEW n \in {m \in 1..last : m + MaxMessages > last}
  PROVE  n \in Evicted({m \in 1..last : m + MaxMessages > last}) <=>
           n + MaxMessages <= last + 1
<1> DEFINE S == {m \in 1..last : m + MaxMessages > last}
<1>1. MaxMessages \in Nat
  BY ConstantsAssumption
<1>2. {m \in S : m >= n} = n..last
  BY <1>1
<1>3. Cardinality(n..last) = last - n + 1
  <2>1. n \in Int /\ last \in Int /\ n <= last
    OBVIOUS
  <2> QED
    BY <2>1, FS_Interval
<1>4. n \in Evicted(S) <=> last - n + 1 >= MaxMessages
  BY <1>2, <1>3 DEF Evicted
<1> QED
  BY <1>1, <1>4

LEMMA AppendWindow ==
  ASSUME NEW S, NEW last \in Nat, S = {n \in 1..last : n + MaxMessages > last},
         last + 1 \in Positions,
         session \in [Positions -> 0..MaxContents], Numbers(session) = S,
         NEW c \in 1..MaxContents,
         session' = [n \in Positions |->
             IF n = last + 1 THEN c ELSE IF n \in Evicted(S) THEN 0 ELSE session[n]]
  PROVE  Window(last + 1)'
<1>1. MaxMessages \in Nat \ {0} /\ MaxContents \in Nat
  BY ConstantsAssumption
<1>2. DOMAIN session = Positions /\ DOMAIN session' = Positions
  OBVIOUS
<1>3. ASSUME NEW n \in Positions, n # last + 1
      PROVE  session'[n] # 0 <=> n \in 1..last + 1 /\ n + MaxMessages > last + 1
  <2>1. session[n] # 0 <=> n \in S
    BY <1>2 DEF Numbers
  <2>2. n \in S => (n \in Evicted(S) <=> n + MaxMessages <= last + 1)
    BY EvictedOfWindow
  <2>3. session'[n] # 0 <=> n \in S /\ ~(n + MaxMessages <= last + 1)
    BY <1>3, <2>1, <2>2
  <2>4. n \in 1..MaxContents
    OBVIOUS
  <2>5. n \in S <=> n \in 1..last /\ n + MaxMessages > last
    OBVIOUS
  <2>6. n \in 1..last /\ n + MaxMessages > last /\ ~(n + MaxMessages <= last + 1)
          <=> n \in 1..last + 1 /\ n + MaxMessages > last + 1
    BY <1>1, <1>3, <2>4
  <2> QED
    BY <2>3, <2>5, <2>6
<1>4. session'[last + 1] # 0 /\ last + 1 + MaxMessages > last + 1
  BY <1>1
<1>5. 1..last + 1 \subseteq Positions
  BY <1>1
<1>6. Numbers(session') = {n \in 1..last + 1 : n + MaxMessages > last + 1}
  BY <1>2, <1>3, <1>4, <1>5 DEF Numbers
<1> QED
  BY <1>6 DEF Window

\* A step that changes the session, and moves its call.
LEMMA SessionChanges ==
  ASSUME SkillInv, NEW p \in Procs, Orderly(p),
         UNCHANGED <<skill, contents, snapshots, diagrams, ghosts>>,
         session' \in [Positions -> 0..MaxContents],
         calls[p].at # "snapshot", CallKnows(p)', p \notin StillWriting',
         SessionInv'
  PROVE  SkillInv'
<1>1. OthersKept(p)
  BY DEF Orderly
<1>2. InOrder' /\ CallsOK'
  BY Typed, OrderlyKeeps DEF SkillInv
<1>3. RoomKept'
  BY <1>1, RoomSame DEF SkillInv, SkillTypeOK
<1>4. SkillTypeOK'
  <2>1. Len(contents') <= MaxContents
    BY DEF SkillInv, SkillTypeOK
  <2> QED
    BY <1>2, <2>1 DEF SkillInv, SkillTypeOK, CallsOK, ghosts
<1>5. DataInv'
  <2>1. RowKnown' /\ Filed'
    BY DEF SkillInv, DataInv, RowKnown, Filed, WrittenUnder, Live
  <2>2. Grows
    <3>1. skill.version <= skill'.version /\ Len(contents) <= Len(contents')
      BY DEF SkillInv, SkillTypeOK
    <3> QED
      BY <3>1 DEF Grows, Live
  <2>3. \A q \in Procs : CallKnows(q)'
    BY <1>1, <1>4, <2>2, KnowsKept DEF SkillInv, DataInv
  <2>4. HistoryFilling'
    <3> SUFFICES ASSUME Live, NEW v \in 1..skill.version,
                        skill.version # 1, snapshots[v] = 0, v \notin orphaned
                 PROVE  \E q \in Procs : (At(q, "snapshot") /\ calls[q].version = v)'
      BY DEF HistoryFilling, Live, ghosts
    <3>1. PICK q \in Procs : At(q, "snapshot") /\ calls[q].version = v
      BY DEF SkillInv, DataInv, HistoryFilling
    <3>2. calls'[q] = calls[q]
      BY <1>1, <3>1 DEF OthersKept, At
    <3> QED
      BY <3>1, <3>2 DEF At
  <2> QED
    BY <2>1, <2>3, <2>4 DEF DataInv
<1> QED
  BY <1>2, <1>3, <1>4, <1>5 DEF SkillInv

LEMMA SessionAppendKeeps ==
  ASSUME SkillInv, NEW p \in Procs, SessionAppend(p)
  PROVE  SkillInv'
<1>0. /\ calls[p].at = "session:append" /\ Return(p)
      /\ UNCHANGED <<skill, contents, snapshots, diagrams, ghosts>>
  BY DEF SessionAppend, At
<1>1. CASE UNCHANGED session
  BY <1>0, <1>1, ReadReturn DEF Reads, tables
<1>2. CASE ~UNCHANGED session
  <2> DEFINE rows == calls[p].rows
             next == Newest(rows) + 1
  <2>1. /\ Live
        /\ session' = [n \in Positions |->
             IF n = next THEN calls[p].content
             ELSE IF n \in Evicted(rows) THEN 0 ELSE session[n]]
    BY <1>2 DEF SessionAppend
  <2> HIDE DEF next
  <2>2. Returned(p)
    BY <1>0, Typed, ReturnFacts
  <2>3. calls'[p].at = "idle" /\ calls'[p].op = "none" /\ OthersKept(p)
    BY <2>2, IdleFacts DEF Returned
  <2>4. Orderly(p) /\ p \notin StillWriting'
    BY <2>2, <2>3, ReturnOrderly DEF StillWriting, Writers
  <2>6. session' \in [Positions -> 0..MaxContents]
    <3>1. session \in [Positions -> 0..MaxContents]
      BY DEF SkillInv, SkillTypeOK
    <3>2. 0 \in 0..MaxContents
      BY ConstantsAssumption
    <3> QED
      BY <2>1, <3>1, <3>2, Typed
  <2>7. CallKnows(p)'
    BY <2>3 DEF CallKnows, FilePoints, DrawingPoints, SessionPoints, HealPoints,
                NewPoints, BumpPoints, BlankPoints
  <2>8. SessionInv'
    <3>0. Live'
      BY <1>0, <2>1 DEF Live
    <3> SUFFICES ASSUME ~raced PROVE SessionInv'
      BY <1>0, <3>0 DEF SessionInv, ghosts
    <3>1. OneAppend
      BY DEF SessionInv, SkillInv
    <3>2. PICK last \in Nat :
            Window(last) /\ last + Cardinality(Prompters) <= Len(contents)
      BY DEF SessionInv, SkillInv
    <3>3. rows = Numbers(session)
      BY <1>0, <2>1, <3>1 DEF OneAppend, AppendPoints
    <3>4. next = last + 1
      BY <3>2, <3>3, NewestOfWindow DEF Window, next
    <3>5. /\ Cardinality(Prompters) \in Nat /\ Cardinality(Prompters') \in Nat
          /\ Cardinality(Prompters') + 1 <= Cardinality(Prompters)
      BY <1>0, <2>3, PromptersCount DEF Prompters, SessionPoints
    <3>6. Len(contents) \in Nat /\ Len(contents) <= MaxContents /\ MaxContents \in Nat
      BY ConstantsAssumption DEF SkillInv, SkillTypeOK
    <3>7. last + 1 \in Positions
      BY <3>2, <3>5, <3>6
    <3>8. calls[p].content \in 1..MaxContents
      BY <1>0, <3>6, Typed DEF CallKnows, FilePoints, SessionPoints, WrittenUnder
    <3>9. Window(last + 1)'
      <4>1. PICK c \in 1..MaxContents : c = calls[p].content
        BY <3>8
      <4>2. PICK S : S = rows
        OBVIOUS
      <4>3. session' = [n \in Positions |->
              IF n = last + 1 THEN c ELSE IF n \in Evicted(S) THEN 0 ELSE session[n]]
        BY <2>1, <3>4, <4>1, <4>2
      <4>4. /\ S = {n \in 1..last : n + MaxMessages > last} /\ Numbers(session) = S
        BY <3>2, <3>3, <4>2 DEF Window
      <4>5. session \in [Positions -> 0..MaxContents]
        BY DEF SkillInv, SkillTypeOK
      <4> QED
        BY <3>7, <4>3, <4>4, <4>5, AppendWindow
    <3>10. last + 1 + Cardinality(Prompters') <= Len(contents')
      BY <1>0, <3>2, <3>5, <3>6
    <3>11. OneAppend'
      <4>1. ASSUME NEW q \in Procs PROVE calls'[q].at \notin AppendPoints
        <5>1. CASE q = p
          BY <2>3, <5>1 DEF AppendPoints
        <5>2. CASE q # p
          <6>1. calls[q].at \notin AppendPoints
            BY <1>0, <3>1, <5>2 DEF OneAppend, AppendPoints
          <6> QED
            BY <2>3, <5>2, <6>1, IdleFacts DEF OthersKept, AppendPoints
        <5> QED
          BY <5>1, <5>2
      <4> QED
        BY <4>1 DEF OneAppend
    <3>12. last + 1 \in Nat
      OBVIOUS
    <3>13. PICK l \in Nat : l = last + 1
      BY <3>12
    <3> QED
      BY <3>0, <3>9, <3>10, <3>11, <3>13 DEF SessionInv
  <2> QED
    BY <1>0, <2>4, <2>6, <2>7, <2>8, SessionChanges
<1> QED
  BY <1>1, <1>2

LEMMA DiagramSaveKeeps ==
  ASSUME SkillInv, NEW p \in Procs, DiagramSave(p)
  PROVE  SkillInv'
<1>0. /\ calls[p].at = "diagram:save" /\ Return(p)
      /\ diagrams' = IF Live THEN [diagrams EXCEPT ![calls[p].version] = calls[p].content]
                             ELSE diagrams
      /\ UNCHANGED <<skill, contents, snapshots, session, ghosts>>
  BY DEF DiagramSave, At
<1>1. Returned(p)
  BY <1>0, Typed, ReturnFacts
<1>2. calls'[p].at = "idle" /\ calls'[p].op = "none"
  BY <1>1, IdleFacts DEF Returned
<1>3. Orderly(p)
  BY <1>1, ReturnOrderly
<1>4. p \notin StillWriting' /\ p \notin Prompters' /\ AppendsAlone(p)
  BY <1>2 DEF StillWriting, Writers, Prompters, AppendsAlone, AppendPoints, SessionPoints
<1>5. CallKnows(p)'
  BY <1>2 DEF CallKnows, FilePoints, DrawingPoints, SessionPoints, HealPoints,
              NewPoints, BumpPoints, BlankPoints
<1>6. /\ WrittenUnder(calls[p].content, calls[p].version)
      /\ calls[p].content \in 0..MaxContents
  BY <1>0, Typed DEF CallKnows, FilePoints, DrawingPoints
<1>7. diagrams \in [Versions -> 0..MaxContents]
  BY DEF SkillInv, SkillTypeOK
<1>8. diagrams' \in [Versions -> 0..MaxContents]
  BY <1>0, <1>6, <1>7
<1>9. Filed'
  <2> SUFFICES ASSUME NEW v \in Versions
               PROVE  /\ snapshots'[v] # 0 => WrittenUnder(snapshots[v], v)'
                      /\ diagrams'[v] # 0 => WrittenUnder(diagrams[v], v)'
    BY DEF Filed
  <2>1. \/ diagrams'[v] = diagrams[v]
        \/ v = calls[p].version /\ diagrams'[v] = calls[p].content
    BY <1>0, <1>7
  <2>2. snapshots'[v] # 0 => WrittenUnder(snapshots[v], v)'
    BY <1>0 DEF SkillInv, DataInv, Filed, WrittenUnder
  <2>3. CASE diagrams'[v] = diagrams[v]
    BY <1>0, <2>2, <2>3 DEF SkillInv, DataInv, Filed, WrittenUnder
  <2>4. CASE v = calls[p].version /\ diagrams'[v] = calls[p].content
    BY <1>0, <1>6, <2>2, <2>4 DEF WrittenUnder
  <2> QED
    BY <2>1, <2>3, <2>4
<1>10. raced' \in BOOLEAN /\ orphaned' \in SUBSET Versions
  BY <1>0 DEF ghosts, SkillInv, SkillTypeOK
<1> QED
  BY <1>0, <1>3, <1>4, <1>5, <1>8, <1>9, <1>10, CallKeeps DEF ghosts

\* The messages go while no append holds them, so the session is empty after.
LEMMA DeleteMessagesKeeps ==
  ASSUME SkillInv, NEW p \in Procs, DeleteMessages(p)
  PROVE  SkillInv'
<1> USE DEF OpsKnown, CallKnows, FilePoints, DrawingPoints, SessionPoints, HealPoints,
            NewPoints, BumpPoints, BlankPoints, GeneratePoints, RefinePoints
<1>0. PICK S \in SUBSET Contents : S = {}
  OBVIOUS
<1>1. /\ calls[p].at = "delete:messages"
      /\ calls' = [calls EXCEPT ![p].at = "delete:row", ![p].rows = S]
      /\ UNCHANGED <<skill, contents, snapshots, diagrams, ghosts>>
  BY <1>0 DEF DeleteMessages, At
<1>a. /\ OthersKept(p) /\ calls'[p].at = "delete:row"
      /\ calls'[p].op = calls[p].op
  BY <1>1, Typed, AtRows DEF Steps
<1>b. OpsKnown(p)' /\ CallKnows(p)'
  BY <1>1, <1>a, Typed
<1>2. CASE UNCHANGED session
  BY <1>1, <1>2, <1>a, <1>b, QuietMove DEF tables, DonePoints, DiagramPoints
<1>3. CASE ~UNCHANGED session
  <2>1. session' = [n \in Positions |-> IF n \in calls[p].rows THEN 0 ELSE session[n]]
    BY <1>3 DEF DeleteMessages
  <2>4. Orderly(p)
    BY <1>1, <1>a, <1>b, MoveOrderly
  <2>5. p \notin StillWriting'
    BY <1>a, <1>b DEF StillWriting, Writers
  <2>6. session' \in [Positions -> 0..MaxContents]
    <3>1. session \in [Positions -> 0..MaxContents]
      BY DEF SkillInv, SkillTypeOK
    <3>2. 0 \in 0..MaxContents
      BY ConstantsAssumption
    <3> QED
      BY <2>1, <3>1, <3>2
  <2>7. Numbers(session') \subseteq Numbers(session) \ calls[p].rows
    <3>1. session \in [Positions -> 0..MaxContents]
      BY DEF SkillInv, SkillTypeOK
    <3> QED
      BY <2>1, <3>1 DEF Numbers
  <2>8. SessionInv'
    <3>1. ~Live' => Numbers(session') = {}
      BY <1>1, <2>7 DEF SkillInv, SessionInv, Live
    <3> SUFFICES ASSUME ~raced PROVE SessionInv'
      BY <1>1, <3>1 DEF SessionInv, ghosts
    <3>2. Numbers(session') = {}
      BY <1>1, <2>7 DEF SkillInv, SessionInv, OneAppend, AppendPoints
    <3>3. \A q \in Procs : calls'[q].at \notin AppendPoints
      <4> SUFFICES ASSUME NEW q \in Procs, q # p PROVE calls'[q].at \notin AppendPoints
        BY <1>a DEF AppendPoints
      <4>1. calls[q].at \notin AppendPoints
        BY <1>1 DEF SkillInv, SessionInv, OneAppend, AppendPoints
      <4> QED
        BY <1>a, <4>1, IdleFacts DEF OthersKept, AppendPoints
    <3>4. OneAppend'
      BY <3>3 DEF OneAppend
    <3>5. Window(0)'
      BY <3>2 DEF Window
    <3>6. 0 + Cardinality(Prompters') <= Len(contents')
      <4>1. PICK last \in Nat : last + Cardinality(Prompters) <= Len(contents)
        BY DEF SkillInv, SessionInv
      <4>2. /\ Cardinality(Prompters) \in Nat /\ Cardinality(Prompters') \in Nat
            /\ Cardinality(Prompters') <= Cardinality(Prompters)
        BY <1>a, PromptersCount DEF Prompters
      <4>3. Len(contents) \in Nat /\ contents' = contents
        BY <1>1 DEF SkillInv, SkillTypeOK
      <4> QED
        BY <4>1, <4>2, <4>3
    <3>7. PICK l \in Nat : l = 0
      OBVIOUS
    <3> QED
      BY <3>1, <3>4, <3>5, <3>6, <3>7 DEF SessionInv
  <2> QED
    BY <1>1, <1>b, <2>4, <2>5, <2>6, <2>8, SessionChanges
<1> QED
  BY <1>2, <1>3

LEMMA DeleteKeeps ==
  ASSUME SkillInv, NEW p \in Procs, DeleteSkill(p)
  PROVE  SkillInv'
<1>0. /\ skill' = [state |-> "deleted", version |-> 0, content |-> 0]
      /\ snapshots' = NoRows /\ diagrams' = NoRows /\ session' = NoRows
      /\ UNCHANGED <<contents, orphaned, raced>>
  BY DEF DeleteSkill, ghosts
<1>a. Returned(p) /\ calls[p].at = "delete:row"
  BY Typed, ReturnFacts DEF DeleteSkill, At
<1>b. OthersKept(p) /\ calls'[p].at = "idle" /\ calls'[p].op = "none"
  BY <1>a, IdleFacts DEF Returned
<1>1. MaxContents \in Nat /\ 0 \in 0..MaxContents
  BY ConstantsAssumption
<1>2. NoRows \in [1..MaxContents -> 0..MaxContents] /\ \A n \in 1..MaxContents : NoRows[n] = 0
  BY <1>1 DEF NoRows
<1>3. skill'.state = "deleted"
  BY <1>0
<1>4. SkillTypeOK'
  <2>1. skill' \in [state : {"none", "live", "deleted"}, version : 0..MaxContents,
                    content : 0..MaxContents]
    BY <1>0, <1>1
  <2>2. Len(contents') <= MaxContents
    BY <1>0 DEF SkillInv, SkillTypeOK
  <2> QED
    BY <1>0, <1>b, <1>2, <2>1, <2>2 DEF SkillInv, SkillTypeOK, OthersKept
<1>5. InOrder'
  BY <1>a, ReturnOrderly, OrderlyKeeps, Typed DEF SkillInv
<1>6. RoomKept'
  <2>1. p \notin StillWriting' /\ contents' = contents
    BY <1>0, <1>b DEF StillWriting, Writers
  <2> QED
    BY <1>b, <2>1, RoomSame DEF SkillInv, SkillTypeOK
<1>7. DataInv'
  <2>1. RowKnown' /\ HistoryFilling'
    BY <1>3 DEF RowKnown, HistoryFilling, Live
  <2>2. Filed'
    BY <1>0, <1>2 DEF Filed
  <2>3. \A q \in Procs : CallKnows(q)'
    <3> SUFFICES ASSUME NEW q \in Procs,
                        calls'[q].at \in FilePoints \cup {"diagram:snapshot"}
                 PROVE  calls'[q] = calls[q]
      BY <1>0, <1>3, Typed DEF CallKnows, WrittenUnder, Live
    <3> QED
      BY <1>b, IdleFacts DEF OthersKept, FilePoints, DrawingPoints, SessionPoints
  <2> QED
    BY <2>1, <2>2, <2>3 DEF DataInv
<1>8. SessionInv'
  <2>0. Numbers(session') = {}
    BY <1>0, <1>2 DEF Numbers
  <2> SUFFICES ASSUME ~raced PROVE SessionInv'
    BY <1>0, <2>0 DEF SessionInv
  <2>1. OneAppend'
    <3>1. ASSUME NEW q \in Procs, calls'[q].at \in AppendPoints
          PROVE  calls'[q] = calls[q]
      BY <1>b, <3>1, IdleFacts DEF OthersKept, AppendPoints
    <3> QED
      BY <1>3, <3>1 DEF SkillInv, SessionInv, OneAppend, Live
  <2>2. Window(0)'
    BY <2>0 DEF Window
  <2>3. 0 + Cardinality(Prompters') <= Len(contents')
    <3>1. PICK last \in Nat : last + Cardinality(Prompters) <= Len(contents)
      BY DEF SkillInv, SessionInv
    <3>2. Cardinality(Prompters) \in Nat /\ Len(contents) \in Nat
      BY PromptersFinite, FS_CardinalityType DEF SkillInv, SkillTypeOK
    <3>3. Cardinality(Prompters') \in Nat /\ Cardinality(Prompters') <= Cardinality(Prompters)
      <4>1. p \notin Prompters'
        BY <1>b DEF Prompters, SessionPoints
      <4> QED
        BY <1>b, <4>1, PromptersCount
    <3> QED
      BY <1>0, <3>1, <3>2, <3>3
  <2>4. PICK l \in Nat : l = 0
    OBVIOUS
  <2> QED
    BY <2>0, <2>1, <2>2, <2>3, <2>4 DEF SessionInv
<1> QED
  BY <1>4, <1>5, <1>6, <1>7, <1>8 DEF SkillInv

LEMMA DeletesKeep ==
  ASSUME SkillInv, NEW p \in Procs, Deletes(p)
  PROVE  SkillInv'
<1>2. CASE DeleteSession(p)
  BY <1>2, FixesRowsKeeps
<1>3. CASE DeleteMessages(p)
  BY <1>3, DeleteMessagesKeeps
<1>4. CASE DeleteSkill(p)
  BY <1>4, DeleteKeeps
<1>5. CASE DeleteRefused(p)
  BY <1>5, ReadReturn DEF DeleteRefused, At
<1> QED
  BY <1>2, <1>3, <1>4, <1>5 DEF Deletes

-----------------------------------------------------------------------------
(* The invariant holds.                                                    *)

LEMMA InitInv == Init => SkillInv
<1> SUFFICES ASSUME Init PROVE SkillInv
  OBVIOUS
<1>1. MaxContents \in Nat \ {0} /\ MaxMessages \in Nat \ {0}
      /\ 0 \in 0..MaxContents /\ 1 \in 0..MaxContents /\ 1 \in 1..MaxContents
  BY ConstantsAssumption
<1>2. NoRows \in [1..MaxContents -> 0..MaxContents] /\ \A n \in 1..MaxContents : NoRows[n] = 0
  BY <1>1 DEF NoRows
<1>3. /\ diagrams = NoRows /\ session = NoRows /\ calls = [p \in Procs |-> Idle]
      /\ orphaned = {} /\ raced = FALSE
  BY DEF Init
<1>4. \A p \in Procs : calls[p] = Idle /\ calls[p].at = "idle" /\ calls[p].op = "none"
  BY <1>3, IdleFacts
<1>5. \/ /\ skill = [state |-> "none", version |-> 0, content |-> 0]
         /\ contents = <<>> /\ snapshots = NoRows
      \/ /\ skill = [state |-> "live", version |-> 1, content |-> 1]
         /\ contents = <<[version |-> 1, base |-> 0]>>
         /\ snapshots = NoRows \/ snapshots = [NoRows EXCEPT ![1] = 1]
  BY DEF Init
<1>6. /\ Len(contents) = 0 \/ Len(contents) = 1
      /\ contents \in Seq([version : Versions, base : 0..MaxContents])
      /\ Live => Len(contents) = 1 /\ contents[1].version = 1
                 /\ skill.version = 1 /\ skill.content = 1
      /\ ~Live => snapshots = NoRows
  <2> DEFINE T == [version : Versions, base : 0..MaxContents]
             e == [version |-> 1, base |-> 0]
  <2>1. e \in T /\ e.version = 1
    BY <1>1
  <2>2. CASE skill.state = "none" /\ contents = <<>> /\ snapshots = NoRows
    BY <2>2 DEF Live
  <2>3. CASE /\ contents = <<e>>
             /\ skill = [state |-> "live", version |-> 1, content |-> 1]
    <3> HIDE DEF e, T
    <3>1. Len(contents) = 1 /\ contents \in Seq(T) /\ contents[1] = e
      BY <2>1, <2>3
    <3>2. Live /\ skill.version = 1 /\ skill.content = 1
      BY <2>3 DEF Live
    <3> QED
      BY <2>1, <3>1, <3>2 DEF T
  <2> QED
    BY <1>5, <2>2, <2>3
<1>7. SkillTypeOK
  <2>1. skill \in [state : {"none", "live", "deleted"}, version : 0..MaxContents,
                   content : 0..MaxContents]
    BY <1>1, <1>5
  <2>2. snapshots \in [Versions -> 0..MaxContents]
    BY <1>1, <1>2, <1>5
  <2>3. calls \in [Procs -> Call]
    BY <1>3, IdleFacts
  <2>4. Len(contents) <= MaxContents
    <3>1. Len(contents) = 0 \/ Len(contents) = 1
      BY <1>6
    <3> QED
      BY <1>1, <3>1
  <2> QED
    BY <1>2, <1>3, <1>6, <2>1, <2>2, <2>3, <2>4 DEF SkillTypeOK
<1>8. InOrder
  BY <1>4 DEF InOrder, OpsKnown, GeneratePoints, RefinePoints, BumpPoints, SessionPoints,
    OneGeneration, Inflight, At, JoinersHaveAPromise, OneDrawing, Draws, DrawingPoints
<1>9. RoomKept
  <2>1. StillWriting = {}
    BY <1>4 DEF StillWriting, Writers
  <2>2. Cardinality(StillWriting) = 0
    BY <2>1, FS_EmptySet
  <2>3. Len(contents) = 0 \/ Len(contents) = 1
    BY <1>6
  <2>4. Len(contents) + 0 <= MaxContents
    <3>1. MaxContents \in Nat \ {0}
      BY <1>1
    <3> QED
      BY <2>3, <3>1
  <2> QED
    BY <2>2, <2>4 DEF RoomKept
<1>10. DataInv
  <2>0. Live => /\ 1 \in 1..Len(contents) /\ contents[1].version = 1
                /\ Len(contents) = 1 /\ skill.version = 1 /\ skill.content = 1
    <3>1. Live => /\ Len(contents) = 1 /\ contents[1].version = 1
                  /\ skill.version = 1 /\ skill.content = 1
      BY <1>6
    <3>2. \A n : n = 1 => 1 \in 1..n
      OBVIOUS
    <3> QED
      BY <3>1, <3>2, Zenon
  <2>1. RowKnown
    BY <2>0 DEF RowKnown, WrittenUnder
  <2>2. Filed
    <3> SUFFICES ASSUME NEW v \in Versions, snapshots[v] # 0
                 PROVE  WrittenUnder(snapshots[v], v)
      BY <1>2, <1>3 DEF Filed
    <3>0. snapshots # NoRows
      BY <1>2
    <3>1. Live /\ snapshots = [NoRows EXCEPT ![1] = 1]
      BY <3>0, <1>5 DEF Live
    <3>2. v = 1 /\ snapshots[v] = 1
      BY <1>2, <3>1
    <3> QED
      BY <2>0, <3>1, <3>2 DEF WrittenUnder
  <2>3. \A p \in Procs : CallKnows(p)
    BY <1>4 DEF CallKnows, FilePoints, DrawingPoints, SessionPoints, HealPoints,
                NewPoints, BumpPoints, BlankPoints
  <2>4. HistoryFilling
    BY <1>6 DEF HistoryFilling
  <2> QED
    BY <2>1, <2>2, <2>3, <2>4 DEF DataInv
<1>11. SessionInv
  <2>0. Numbers(session) = {}
    BY <1>2, <1>3 DEF Numbers
  <2>1. OneAppend
    BY <1>4 DEF OneAppend, AppendPoints
  <2>2. Window(0)
    BY <2>0 DEF Window
  <2>3. Prompters = {}
    BY <1>4 DEF Prompters, SessionPoints
  <2>4. 0 + Cardinality(Prompters) <= Len(contents)
    BY <1>6, <2>3, FS_EmptySet
  <2>5. PICK l \in Nat : l = 0
    OBVIOUS
  <2> QED
    BY <2>0, <2>1, <2>2, <2>4, <2>5 DEF SessionInv
<1> QED
  BY <1>7, <1>8, <1>9, <1>10, <1>11 DEF SkillInv

LEMMA StepInv == SkillInv /\ [SkillNext]_svVars => SkillInv'
<1> SUFFICES ASSUME SkillInv, [SkillNext]_svVars PROVE SkillInv'
  OBVIOUS
<1>1. ASSUME NEW p \in Procs, Begin(p) PROVE SkillInv'
  BY <1>1, BeginKeeps
<1>2. ASSUME NEW p \in Procs, Continue(p) PROVE SkillInv'
  BY <1>2, GenerateCheckKeeps, GenerateModelKeeps, CreateKeeps, RefineReadSkillKeeps,
     RefineReadHistoryKeeps, SnapshotsKeep, RefineModelKeeps, ExpectKeeps,
     BumpWriteKeeps, HealListKeeps, HealFullKeeps, UpdateWriteKeeps,
     FixesRowsKeeps, SessionLockKeeps, SessionAppendKeeps, DiagramSkillKeeps,
     DiagramSnapshotKeeps, DiagramReadsKeep, DiagramSaveKeeps DEF Continue
<1>3. ASSUME NEW p \in Procs, Deletes(p) PROVE SkillInv'
  BY <1>3, DeletesKeep
<1>4. ASSUME NEW p \in Procs, Abort(p) PROVE SkillInv'
  BY <1>4, AbortKeeps
<1>5. CASE UNCHANGED svVars
  <2>1. /\ UNCHANGED <<skill, contents, calls, orphaned, raced>>
        /\ UNCHANGED <<snapshots, diagrams, session>>
    BY <1>5 DEF svVars, tables, ghosts
  <2>2. SkillTypeOK' /\ RoomKept'
    BY <2>1 DEF SkillInv, SkillTypeOK, RoomKept, StillWriting, Writers
  <2>3. InOrder'
    BY <2>1 DEF SkillInv, InOrder, OpsKnown, OneGeneration, Inflight, At,
                JoinersHaveAPromise, OneDrawing, Draws, Forced
  <2>4. DataInv'
    BY <2>1 DEF SkillInv, DataInv, RowKnown, Filed, WrittenUnder, CallKnows,
                HistoryFilling, Live, At
  <2>5. SessionInv'
    BY <2>1 DEF SkillInv, SessionInv, OneAppend, Window, Prompters, Live
  <2> QED
    BY <2>2, <2>3, <2>4, <2>5 DEF SkillInv
<1> QED
  BY <1>1, <1>2, <1>3, <1>4, <1>5 DEF SkillNext

LEMMA SkillInvHolds == SkillSpec => []SkillInv
  BY InitInv, StepInv, PTL DEF SkillSpec

-----------------------------------------------------------------------------
(* The theorems.                                                           *)

\* The rows and the calls hold values of their types.
THEOREM TypeCorrect == SkillSpec => []SkillTypeOK
<1>1. SkillInv => SkillTypeOK
  BY DEF SkillInv
<1> QED
  BY <1>1, SkillInvHolds, PTL

\* However many requests overlap, fail or die, what is filed under a version is
\* a text the skill had at that version.
THEOREM FiledUnderItsVersionHolds == SkillSpec => []FiledUnderItsVersion
<1>1. SkillInv => FiledUnderItsVersion
  BY DEF SkillInv, DataInv, Filed, WrittenUnder, FiledUnderItsVersion
<1> QED
  BY <1>1, SkillInvHolds, PTL

\* When every request has ended, the history has every version but those whose
\* writer died, and the first of an old skill nothing has touched.
THEOREM HistoryCompleteHolds == SkillSpec => []HistoryComplete
<1>1. SkillInv => HistoryComplete
  <2> SUFFICES ASSUME SkillInv, Settled, Live, NEW v \in 1..skill.version,
                      skill.version # 1, snapshots[v] = 0, v \notin orphaned
               PROVE  FALSE
    BY DEF HistoryComplete
  <2>1. PICK p \in Procs : At(p, "snapshot")
    BY DEF SkillInv, DataInv, HistoryFilling
  <2> QED
    BY <2>1, IdleFacts DEF Settled, At
<1> QED
  BY <1>1, SkillInvHolds, PTL

\* Double clicks share one model call, and no caller waits for a promise that
\* has ended.
THEOREM OneModelCallHolds == SkillSpec => []OneModelCall
<1>1. SkillInv => OneModelCall
  <2> SUFFICES ASSUME SkillInv PROVE OneCallPerKey /\ JoinersHaveAPromise
    BY DEF OneModelCall
  <2>1. JoinersHaveAPromise
    BY DEF SkillInv, InOrder, OneGeneration
  <2>2. ASSUME NEW p \in Procs, NEW q \in Procs, p # q,
               calls[p].at \in {"generate:check", "generate:model", "generate:create"},
               calls[q].at \in {"generate:check", "generate:model", "generate:create"}
        PROVE  FALSE
    <3>1. p \in Inflight /\ q \in Inflight
      BY <2>2 DEF SkillInv, InOrder, OpsKnown, GeneratePoints, Inflight, At
    <3> QED
      BY <2>2, <3>1 DEF SkillInv, InOrder, OneGeneration
  <2>3. ASSUME NEW p \in Procs, NEW q \in Procs, p # q,
               At(p, "diagram:model"), At(q, "diagram:model"),
               calls[p].version = calls[q].version, ~Forced(p), ~Forced(q)
        PROVE  FALSE
    BY <2>3 DEF SkillInv, InOrder, OneDrawing, Draws, DrawingPoints, At
  <2> QED
    BY <2>1, <2>2, <2>3 DEF OneCallPerKey
<1> QED
  BY <1>1, SkillInvHolds, PTL

\* While appends do not overlap, the session keeps its newest prompts and
\* nothing else, whatever the numbers of rows, texts and requests.
THEOREM SessionKeepsNewestHolds == SkillSpec => []SessionKeepsNewest
<1>1. SkillInv => SessionKeepsNewest
  <2> SUFFICES ASSUME SkillInv, ~raced
               PROVE  Numbers(session) =
                        {n \in 1..Newest(Numbers(session)) :
                           n + MaxMessages > Newest(Numbers(session))}
    BY DEF SessionKeepsNewest
  <2>1. PICK last \in Nat : Window(last)
    BY DEF SkillInv, SessionInv
  <2>2. Newest(Numbers(session)) = last
    BY <2>1, NewestOfWindow DEF Window
  <2> QED
    BY <2>1, <2>2 DEF Window
<1> QED
  BY <1>1, SkillInvHolds, PTL

-----------------------------------------------------------------------------
(* Every request is answered with a text of its own.                       *)

AuthorPoints == {"snapshot"} \cup SessionPoints

\* The prompts of the session are of texts that were written.
Prompted == \A n \in Numbers(session) : session[n] \in 1..Len(contents)

OwnInv == SkillInv /\ Prompted /\ AnswersAreOwn

LEMMA AuthorsText ==
  ASSUME SkillInv
  PROVE  /\ \A p \in Authors : calls[p].content \in 1..Len(contents)
         /\ Len(contents) \in Nat
  BY Typed DEF Authors, CallKnows, FilePoints, SessionPoints, WrittenUnder, SkillInv,
               SkillTypeOK

\* A step of p that files no prompt keeps the answers apart when p is answered
\* with what it had written, with a new text, or not yet, or with nothing.
LEMMA OwnKept ==
  ASSUME OwnInv, NEW p \in Procs, OthersKept(p),
         \A n \in Numbers(session') : n \in Numbers(session) /\ session'[n] = session[n],
         Len(contents') \in Nat, Len(contents) <= Len(contents'),
         \/ calls'[p].at \notin AuthorPoints
         \/ p \in Authors /\ calls'[p].content = calls[p].content
         \/ Len(contents') = Len(contents) + 1 /\ calls'[p].content = Len(contents')
  PROVE  Prompted' /\ AnswersAreOwn'
<1>0. /\ \A q \in Authors : calls[q].content \in 1..Len(contents)
      /\ Len(contents) \in Nat
  BY AuthorsText DEF OwnInv
<1>1. Prompted'
  BY <1>0 DEF OwnInv, Prompted
<1>2. ASSUME NEW q \in Authors'
      PROVE  \/ q \in Authors /\ calls'[q].content = calls[q].content
             \/ q = p /\ calls'[q].content \notin 1..Len(contents)
  <2>0. q \in Procs /\ calls'[q].at \in AuthorPoints
    BY DEF Authors, AuthorPoints, SessionPoints
  <2>1. CASE q = p
    BY <1>0, <2>0, <2>1
  <2>2. CASE q # p
    <3>1. calls'[q] = calls[q]
      BY <2>0, <2>2, IdleFacts DEF OthersKept, AuthorPoints, SessionPoints
    <3> QED
      BY <2>0, <3>1 DEF Authors, AuthorPoints, SessionPoints
  <2> QED
    BY <2>1, <2>2
<1>3. \A q, r \in Authors' : calls'[q].content = calls'[r].content => q = r
  BY <1>0, <1>2 DEF OwnInv, AnswersAreOwn
<1>4. \A q \in Authors' : \A n \in Numbers(session') : session'[n] # calls'[q].content
  BY <1>0, <1>2 DEF OwnInv, AnswersAreOwn, Prompted
<1>5. \A m, n \in Numbers(session') : session'[m] = session'[n] => m = n
  BY DEF OwnInv, AnswersAreOwn
<1> QED
  BY <1>1, <1>3, <1>4, <1>5 DEF AnswersAreOwn

LEMMA AppendKeepsOwn ==
  ASSUME OwnInv, NEW p \in Procs, SessionAppend(p)
  PROVE  Prompted' /\ AnswersAreOwn'
<1>0. /\ p \in Authors /\ Return(p) /\ contents' = contents
  BY DEF SessionAppend, Authors, At
<1>1. OthersKept(p) /\ calls'[p].at = "idle"
  BY <1>0, Typed, ReturnFacts, IdleFacts DEF Returned, OwnInv
<1>2. Len(contents') \in Nat /\ Len(contents) <= Len(contents')
  BY <1>0, AuthorsText DEF OwnInv
<1>3. CASE UNCHANGED session
  BY <1>1, <1>2, <1>3, OwnKept DEF AuthorPoints, SessionPoints
<1>4. CASE ~UNCHANGED session
  <2> DEFINE next == Newest(calls[p].rows) + 1
             c == calls[p].content
  <2>1. session' = [n \in Positions |->
           IF n = next THEN c
           ELSE IF n \in Evicted(calls[p].rows) THEN 0 ELSE session[n]]
    BY <1>4 DEF SessionAppend
  <2> HIDE DEF next
  <2>2. session \in [Positions -> 0..MaxContents]
    BY DEF OwnInv, SkillInv, SkillTypeOK
  <2>3. \A n \in Numbers(session') :
          \/ n = next /\ session'[n] = c
          \/ n \in Numbers(session) /\ session'[n] = session[n]
    BY <2>1, <2>2 DEF Numbers
  <2>4. c \in 1..Len(contents)
    BY <1>0, AuthorsText DEF OwnInv
  <2>5. \A n \in Numbers(session) : session[n] # c
    BY <1>0 DEF OwnInv, AnswersAreOwn
  <2>6. \A q \in Authors' : q \in Authors /\ q # p /\ calls'[q] = calls[q]
    BY <1>1, IdleFacts DEF Authors, OthersKept
  <2>7. \A q \in Authors' : calls'[q].content # c
    BY <1>0, <2>6 DEF OwnInv, AnswersAreOwn
  <2> HIDE DEF c
  <2>8. Prompted'
    BY <1>0, <2>3, <2>4 DEF OwnInv, Prompted
  <2>9. \A m, n \in Numbers(session') : session'[m] = session'[n] => m = n
    BY <2>3, <2>5 DEF OwnInv, AnswersAreOwn
  <2>10. \A q, r \in Authors' : calls'[q].content = calls'[r].content => q = r
    BY <2>6 DEF OwnInv, AnswersAreOwn
  <2>11. \A q \in Authors' : \A n \in Numbers(session') : session'[n] # calls'[q].content
    BY <2>3, <2>6, <2>7 DEF OwnInv, AnswersAreOwn
  <2> QED
    BY <2>8, <2>9, <2>10, <2>11 DEF AnswersAreOwn
<1> QED
  BY <1>3, <1>4

\* A step of p returns, or leaves every other call alone.
LEMMA StepOthers ==
  ASSUME CallsOK, NEW p \in Procs, Begin(p) \/ Continue(p) \/ Deletes(p) \/ Abort(p)
  PROVE  Return(p) \/ \A q \in Procs \ {p} : calls'[q] = calls[q]
<1> USE DEF CallsOK
<1>1. CASE Begin(p)
  BY <1>1 DEF Begin, GenerateStart, CreateStart, RefineStart, ApproveStart, HistoryStart,
     EditStart, RenameStart, DrawStart, DeleteStart, Starts
<1>2. CASE GenerateCheck(p) \/ GenerateModel(p) \/ GenerateCreate(p) \/ CreateInsert(p)
           \/ BumpWrite(p) \/ UpdateWrite(p)
  BY <1>2 DEF GenerateCheck, GenerateModel, GenerateCreate, CreateInsert, Creates,
     BumpWrite, UpdateWrite, Goto
<1>3. CASE RefineReadSkill(p) \/ RefineReadHistory(p) \/ RefineModel(p) \/ BumpExpect(p)
           \/ UpdateExpect(p) \/ HealList(p) \/ HealFull(p)
  BY <1>3 DEF RefineReadSkill, RefineReadHistory, RefineModel, BumpExpect, UpdateExpect,
     Expect, HealList, HealFull, AfterHeal, Goto
<1>4. CASE RefinePresave(p) \/ SnapshotNew(p) \/ HealSave(p)
  BY <1>4 DEF RefinePresave, SnapshotNew, HealSave, SaveSnapshot, AfterHeal,
     AfterSnapshot, Goto
<1>5. CASE SessionRead(p) \/ SessionLock(p) \/ SessionAppend(p)
  BY <1>5 DEF SessionRead, FixesRows, SessionLock, SessionAppend
<1>6. CASE DiagramSkill(p) \/ DiagramSnapshot(p) \/ DiagramCached(p) \/ DiagramModel(p)
           \/ DiagramSave(p)
  BY <1>6 DEF DiagramSkill, DiagramSnapshot, DiagramCached, DiagramModel, DiagramSave, Goto
<1>7. CASE Deletes(p) \/ Abort(p)
  BY <1>7 DEF Deletes, DeleteSession, FixesRows, DeleteMessages, DeleteSkill,
     DeleteRefused, Abort
<1> QED
  BY <1>1, <1>2, <1>3, <1>4, <1>5, <1>6, <1>7 DEF Continue

\* What a step of p has p answered with.
Answer(p) ==
  \/ calls'[p].at \notin AuthorPoints /\ Len(contents') \in {Len(contents), Len(contents) + 1}
  \/ p \in Authors /\ calls'[p].content = calls[p].content /\ contents' = contents
  \/ Len(contents') = Len(contents) + 1 /\ calls'[p].content = Len(contents')

LEMMA WriteAnswers ==
  ASSUME SkillInv, NEW p \in Procs,
         GenerateCreate(p) \/ CreateInsert(p) \/ BumpWrite(p) \/ UpdateWrite(p),
         ~Return(p)
  PROVE  Answer(p) /\ session' = session
<1>1. /\ Len(contents') = Len(contents) + 1
      /\ calls'[p].content = Len(contents')
      /\ session' = session
  <2>1. \A e : contents \in Seq([version : Versions, base : 0..MaxContents]) =>
                 Len(Append(contents, e)) = Len(contents) + 1
    OBVIOUS
  <2>2. /\ contents \in Seq([version : Versions, base : 0..MaxContents])
        /\ calls \in [Procs -> Call]
    BY DEF SkillInv, SkillTypeOK
  <2>3. Len(contents') = Len(contents) + 1 /\ session' = session
    BY <2>1, <2>2 DEF GenerateCreate, CreateInsert, Creates, BumpWrite, UpdateWrite,
       Write, tables
  <2>4. calls'[p].content = Len(contents')
    BY <2>2 DEF GenerateCreate, CreateInsert, Creates, BumpWrite, UpdateWrite, Call
  <2> QED
    BY <2>3, <2>4
<1> QED
  BY <1>1 DEF Answer

\* A step other than an append writes at most one text, and files no prompt.
LEMMA StepFiles ==
  ASSUME SkillInv, NEW p \in Procs, ~SessionAppend(p),
         Begin(p) \/ Continue(p) \/ Deletes(p) \/ Abort(p)
  PROVE  /\ Len(contents') \in {Len(contents), Len(contents) + 1}
         /\ \A n \in Numbers(session') : n \in Numbers(session) /\ session'[n] = session[n]
<1>0. /\ session \in [Positions -> 0..MaxContents]
      /\ contents \in Seq([version : Versions, base : 0..MaxContents])
  BY DEF SkillInv, SkillTypeOK
<1>1. \/ contents' = contents
      \/ \E e : contents' = Append(contents, e)
  <2>1. CASE Begin(p) \/ Deletes(p) \/ Abort(p)
    BY <2>1 DEF Begin, GenerateStart, CreateStart, RefineStart, ApproveStart,
       HistoryStart, EditStart, RenameStart, DrawStart, DeleteStart, Starts, Deletes,
       DeleteSession, FixesRows, DeleteMessages, DeleteSkill, DeleteRefused, Reads, Abort
  <2>2. CASE GenerateCreate(p) \/ CreateInsert(p) \/ BumpWrite(p) \/ UpdateWrite(p)
    BY <2>2 DEF GenerateCreate, CreateInsert, Creates, BumpWrite, UpdateWrite, Write
  <2>3. CASE RefinePresave(p) \/ SnapshotNew(p) \/ HealSave(p) \/ SessionRead(p)
             \/ SessionLock(p) \/ DiagramSave(p)
    BY <2>3 DEF RefinePresave, SnapshotNew, HealSave, SaveSnapshot, SessionRead,
       FixesRows, SessionLock, DiagramSave, Reads
  <2>4. CASE GenerateCheck(p) \/ GenerateModel(p) \/ RefineReadSkill(p)
             \/ RefineReadHistory(p) \/ RefineModel(p) \/ BumpExpect(p) \/ HealList(p)
             \/ HealFull(p) \/ UpdateExpect(p) \/ DiagramSkill(p)
             \/ DiagramSnapshot(p) \/ DiagramCached(p) \/ DiagramModel(p)
    BY <2>4 DEF GenerateCheck, GenerateModel, RefineReadSkill, RefineReadHistory,
       RefineModel, BumpExpect, HealList, HealFull, UpdateExpect, Expect, DiagramSkill,
       DiagramSnapshot, DiagramCached, DiagramModel, Reads
  <2> QED
    BY <2>1, <2>2, <2>3, <2>4 DEF Continue
<1>2. Len(contents') \in {Len(contents), Len(contents) + 1}
  <2>1. ASSUME NEW e PROVE Len(Append(contents, e)) = Len(contents) + 1
    BY <1>0
  <2> QED
    BY <1>1, <2>1
<1>3. CASE DeleteMessages(p)
  BY <1>0, <1>3, <1>2 DEF DeleteMessages, Numbers
<1>4. CASE DeleteSkill(p)
  BY <1>4, <1>2 DEF DeleteSkill, NoRows, Numbers
<1>5. CASE ~DeleteMessages(p) /\ ~DeleteSkill(p)
  <2>1. session' = session
    <3>1. CASE Begin(p) \/ Deletes(p) \/ Abort(p)
      BY <1>5, <3>1 DEF Begin, GenerateStart, CreateStart, RefineStart, ApproveStart,
         HistoryStart, EditStart, RenameStart, DrawStart, DeleteStart, Starts, Deletes,
         DeleteSession, FixesRows, DeleteRefused, Reads, Abort, tables
    <3>2. CASE GenerateCreate(p) \/ CreateInsert(p) \/ BumpWrite(p) \/ UpdateWrite(p)
      BY <3>2 DEF GenerateCreate, CreateInsert, Creates, BumpWrite, UpdateWrite, tables
    <3>3. CASE RefinePresave(p) \/ SnapshotNew(p) \/ HealSave(p) \/ SessionRead(p)
               \/ SessionLock(p) \/ DiagramSave(p)
      BY <3>3 DEF RefinePresave, SnapshotNew, HealSave, SaveSnapshot, SessionRead,
         FixesRows, SessionLock, DiagramSave, Reads, tables
    <3>4. CASE GenerateCheck(p) \/ GenerateModel(p) \/ RefineReadSkill(p)
               \/ RefineReadHistory(p) \/ RefineModel(p) \/ BumpExpect(p) \/ HealList(p)
               \/ HealFull(p) \/ UpdateExpect(p) \/ DiagramSkill(p)
               \/ DiagramSnapshot(p) \/ DiagramCached(p) \/ DiagramModel(p)
      BY <3>4 DEF GenerateCheck, GenerateModel, RefineReadSkill, RefineReadHistory,
         RefineModel, BumpExpect, HealList, HealFull, UpdateExpect, Expect, DiagramSkill,
         DiagramSnapshot, DiagramCached, DiagramModel, Reads, tables
    <3> QED
      BY <3>1, <3>2, <3>3, <3>4 DEF Continue
  <2> QED
    BY <1>2, <2>1 DEF Numbers
<1> QED
  BY <1>3, <1>4, <1>5

LEMMA StepAnswers ==
  ASSUME SkillInv, NEW p \in Procs, ~SessionAppend(p),
         Begin(p) \/ Continue(p) \/ Deletes(p) \/ Abort(p)
  PROVE  Answer(p)
<1> USE DEF AuthorPoints, SessionPoints
<1>0. CallsOK
  BY Typed
<1>1. Len(contents') \in {Len(contents), Len(contents) + 1}
  BY StepFiles
<1>2. CASE Return(p)
  <2>1. calls'[p].at = "idle"
    BY <1>0, <1>2, ReturnFacts, IdleFacts DEF Returned
  <2> QED
    BY <1>1, <2>1 DEF Answer
<1>3. CASE ~Return(p) /\ Begin(p)
  <2>1. calls'[p].at \notin AuthorPoints
    BY <1>0, <1>3 DEF CallsOK, Begin, GenerateStart, CreateStart, RefineStart,
       ApproveStart, HistoryStart, EditStart, RenameStart, DrawStart, DeleteStart, Starts,
       NewCall
  <2> QED
    BY <1>1, <2>1 DEF Answer
<1>4. CASE ~Return(p) /\ (\/ GenerateCreate(p) \/ CreateInsert(p)
                         \/ BumpWrite(p) \/ UpdateWrite(p))
  BY <1>4, WriteAnswers
<1>5. CASE ~Return(p) /\ (SessionRead(p) \/ SessionLock(p))
  <2>1. p \in Authors /\ contents' = contents
    BY <1>5 DEF SessionRead, FixesRows, SessionLock, Reads, Authors, At
  <2>2. calls'[p].content = calls[p].content
    BY <1>0, <1>5 DEF SessionRead, FixesRows, SessionLock, CallsOK, Call
  <2> QED
    BY <2>1, <2>2 DEF Answer
<1>6. CASE ~Return(p) /\ (RefinePresave(p) \/ SnapshotNew(p) \/ HealSave(p))
  <2>1. CASE SnapshotNew(p) /\ Goto(p, "session:read")
    <3>1. p \in Authors /\ contents' = contents
      BY <2>1 DEF SnapshotNew, SaveSnapshot, Authors, At
    <3>2. calls'[p].content = calls[p].content
      BY <1>0, <2>1, GotoFacts DEF SameData, Steps
    <3> QED
      BY <3>1, <3>2 DEF Answer
  <2>2. CASE Goto(p, "refine:model") \/ Goto(p, "bump:expect") \/ Goto(p, "diagram:skill")
    <3>1. calls'[p].at \notin AuthorPoints
      BY <1>0, <2>2, GotoFacts DEF Steps
    <3> QED
      BY <1>1, <3>1 DEF Answer
  <2> QED
    BY <1>6, <2>1, <2>2 DEF RefinePresave, SnapshotNew, HealSave, SaveSnapshot,
       AfterHeal, AfterSnapshot
<1>7. CASE ~Return(p) /\ (\/ GenerateCheck(p) \/ GenerateModel(p) \/ RefineReadSkill(p)
             \/ RefineReadHistory(p) \/ RefineModel(p) \/ BumpExpect(p) \/ HealList(p)
             \/ HealFull(p) \/ UpdateExpect(p))
  <2>1. calls'[p].at \notin AuthorPoints
    BY <1>0, <1>7 DEF CallsOK, Call, GenerateCheck, GenerateModel, RefineReadSkill,
       RefineReadHistory, AfterReads, RefineModel, BumpExpect, HealList, HealFull,
       AfterHeal, UpdateExpect, Expect, Goto
  <2> QED
    BY <1>1, <2>1 DEF Answer
<1>8. CASE ~Return(p) /\ (\/ DiagramSkill(p) \/ DiagramSnapshot(p) \/ DiagramCached(p)
             \/ DiagramModel(p) \/ DiagramSave(p))
  <2>1. calls'[p].at \notin AuthorPoints
    BY <1>0, <1>8 DEF CallsOK, Call, DiagramSkill, DiagramSnapshot, DiagramCached,
       DiagramModel, DiagramSave, AfterTarget, Goto
  <2> QED
    BY <1>1, <2>1 DEF Answer
<1>9. CASE ~Return(p) /\ (Deletes(p) \/ Abort(p))
  <2>1. calls'[p].at \notin AuthorPoints
    BY <1>0, <1>9 DEF CallsOK, Call, Deletes, DeleteSession, FixesRows, DeleteMessages,
       DeleteSkill, DeleteRefused, Abort
  <2> QED
    BY <1>1, <2>1 DEF Answer
<1> QED
  BY <1>2, <1>3, <1>4, <1>5, <1>6, <1>7, <1>8, <1>9 DEF Continue

LEMMA OwnStep == OwnInv /\ [SkillNext]_svVars => OwnInv'
<1> SUFFICES ASSUME OwnInv, [SkillNext]_svVars PROVE OwnInv'
  OBVIOUS
<1>1. SkillInv /\ SkillInv'
  BY StepInv DEF OwnInv
<1>2. ASSUME NEW p \in Procs, Begin(p) \/ Continue(p) \/ Deletes(p) \/ Abort(p)
      PROVE  Prompted' /\ AnswersAreOwn'
  <2>1. CASE SessionAppend(p)
    BY <2>1, AppendKeepsOwn
  <2>2. CASE ~SessionAppend(p)
    <3>1. OthersKept(p)
      <4>1. CallsOK /\ CallsOK'
        BY <1>1 DEF SkillInv, SkillTypeOK, CallsOK
      <4>2. CASE Return(p)
        BY <4>1, <4>2, ReturnFacts DEF Returned
      <4>3. CASE \A q \in Procs \ {p} : calls'[q] = calls[q]
        BY <4>1, <4>3 DEF OthersKept, CallsOK
      <4> QED
        BY <1>2, <4>1, <4>2, <4>3, StepOthers
    <3>2. \A n \in Numbers(session') :
            n \in Numbers(session) /\ session'[n] = session[n]
      BY <1>1, <1>2, <2>2, StepFiles
    <3>3. Answer(p)
      BY <1>1, <1>2, <2>2, StepAnswers
    <3>4. Len(contents) \in Nat
      BY <1>1, AuthorsText
    <3>5. Len(contents') \in Nat /\ Len(contents) <= Len(contents')
      BY <3>3, <3>4 DEF Answer
    <3> QED
      BY <3>1, <3>2, <3>3, <3>5, OwnKept DEF Answer
  <2> QED
    BY <2>1, <2>2
<1>3. CASE UNCHANGED svVars
  BY <1>1, <1>3 DEF svVars, tables, OwnInv, Prompted, AnswersAreOwn, Authors, Numbers
<1> QED
  BY <1>1, <1>2, <1>3 DEF SkillNext, OwnInv

LEMMA OwnInit == Init => OwnInv
<1> SUFFICES ASSUME Init PROVE Prompted /\ AnswersAreOwn
  BY InitInv DEF OwnInv
<1>1. Numbers(session) = {}
  BY DEF Init, NoRows, Numbers
<1>2. Authors = {}
  BY IdleFacts DEF Init, Authors
<1> QED
  BY <1>1, <1>2 DEF Prompted, AnswersAreOwn

\* However requests on a skill overlap, fail or die, no two of them are answered
\* with one text, and no two prompts of the session claim one.
THEOREM AnswersAreOwnHolds == SkillSpec => []AnswersAreOwn
<1>1. OwnInv => AnswersAreOwn
  BY DEF OwnInv
<1> QED
  BY <1>1, OwnInit, OwnStep, PTL DEF SkillSpec
=============================================================================
