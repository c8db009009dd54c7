------------------------ MODULE OptimizationLoopProofs ------------------------
(* What TLAPS proves of OptimizationLoop, for any numbers of iterations,    *)
(* scores and targets, from OptimizationAssumption: its invariants, and     *)
(* that it implements BestDraft.                                            *)
EXTENDS OptimizationLoop, TLAPS

-----------------------------------------------------------------------------
(* The invariant.                                                          *)

Loop     == {"load", "train", "analyze", "improve", "test", "saveDraft",
             "saveIndex", "assemble"}
Saving   == {"saveDraft", "saveIndex"}
Building == {"load", "train", "analyze", "improve"}

\* Every finished iteration was measured, and the one being saved.
Measures ==
  /\ at \in Saving => Len(measured) = Iteration /\ score = measured[Iteration].test
  /\ at \in Loop \ Saving => Len(measured) = Len(iterations)
  /\ \A i \in DOMAIN iterations : iterations[i] = measured[i].test
  /\ at = "load" => iterations = <<>>

\* The best draft is the first with the highest score.
BestLeads ==
  \/ measured = <<>> /\ best = NoDraft
  \/ \E k \in DOMAIN measured :
       /\ Promise!LeadsFirst(k)
       /\ best = [iteration |-> k, draft |-> measured[k]]

\* d has the highest score of the first i measures; it is the i-th itself
\* unless that has done worse.
HoldsBest(d, i) ==
  \E k \in 1..i :
    /\ d = measured[k]
    /\ \A j \in 1..i : measured[j].test <= measured[k].test
    /\ k = i \/ measured[i].test < measured[k].test

\* The current draft has the content of a leader, or was made from one.
DraftBuilds ==
  /\ at \in Building => draft.content \in Promise!Base
  /\ at = "test" => Promise!MayTry(draft)
  /\ at \in Saving => HoldsBest(draft, Len(measured))
  /\ draft.content \notin rejected

\* What the cache holds, whether or not keys were lost.
CacheHolds ==
  /\ \A i \in DOMAIN drafts :
       \E k \in DOMAIN measured : drafts[i] = measured[k]
  /\ \A i \in DOMAIN index : index[i].iteration <= Len(iterations)
  /\ index # <<>> => \E i \in DOMAIN index : FirstBest(i)

\* What it holds as long as none was.
Saved == IF at = "saveIndex" THEN Iteration ELSE Len(iterations)
CacheIntact ==
  at \in Loop /\ ~cacheFailed =>
    /\ DOMAIN drafts = 1..Saved
    /\ \A i \in 1..Saved : HoldsBest(drafts[i], i)
    /\ Len(index) = Len(iterations)
    /\ \A i \in DOMAIN index :
         index[i] = [iteration |-> i, score |-> drafts[i].test]
    /\ at = "saveIndex" => drafts[Iteration] = draft

Cleanable == at = "cleanup" /\ ~cacheFailed => DOMAIN drafts \subseteq Indexed

Unanswered == at \in Loop => result = NoDraft

\* The feedback is given to the first improvement.
Briefing ==
  \/ at \in {"improve", "test"} \union Saving
  \/ at \in Loop /\ Len(iterations) >= 1
FeedbackGiven == Briefing /\ ~aborted /\ feedback => briefed

IInv ==
  /\ OptTypeOK
  /\ Measures
  /\ BestLeads
  /\ DraftBuilds
  /\ CacheHolds
  /\ CacheIntact
  /\ Cleanable
  /\ DraftsCleaned
  /\ Unanswered
  /\ FeedbackGiven
  /\ FeedbackIsUsed
  /\ EarlyStopIsConfirmed

-----------------------------------------------------------------------------
(* Steps that leave the drafts, the scores and the cache alone.            *)

\* What the loop has made and stored.
Made == <<config, draft, best, iterations, score, generated, cacheVars,
          measured, rejected>>

\* The control moves on within an iteration before its test evaluation, or
\* leaves it.
MovesOn ==
  /\ at' \in Steps
  /\ at' \in Loop => at' = at \/ (at \in Loop \ Saving /\ at' \notin Saving)
  /\ at' \in Building => at \in Building
  /\ at' = "test" => at \in Building \union {"test"}
  /\ at' = "load" => at = "load"
  /\ at = "assemble" => at' \notin Loop \ {"assemble"}

Flags ==
  /\ feedback' \in BOOLEAN /\ (feedback' => config.includeFeedback)
  /\ aborted' \in BOOLEAN /\ (aborted => aborted')
  /\ active' \in BOOLEAN
  /\ events' \in Seq({"complete", "error"}) /\ err' \in Errors
  /\ cacheFailed => cacheFailed'

LEMMA MadeKept ==
  ASSUME IInv, UNCHANGED Made, MovesOn, Flags,
         result' = NoDraft \/ result' \in Results
  PROVE  /\ OptTypeOK'
         /\ Measures'
         /\ BestLeads'
         /\ DraftBuilds'
         /\ CacheHolds'
         /\ CacheIntact'
<1> USE DEF Made, cacheVars
<1>1. OptTypeOK'
  BY DEF IInv, OptTypeOK, MovesOn, Flags, Drafts, Results, Iteration
<1>2. Measures'
  BY DEF IInv, Measures, MovesOn, Iteration, Loop, Saving
<1>3. BestLeads'
  BY DEF IInv, BestLeads, Promise!LeadsFirst, Promise!Leads
<1>4. DraftBuilds'
  <2>1. Promise!Base' = Promise!Base
    BY DEF Promise!Base, Promise!Leads
  <2>2. Promise!MayTry(draft)' <=> Promise!MayTry(draft)
    BY <2>1 DEF Promise!MayTry, Promise!Fresh
  <2>3. at \in Building => Promise!MayTry(draft)
    BY DEF IInv, DraftBuilds, Promise!MayTry
  <2>4. at' \in Saving => at' = at
    BY DEF MovesOn, Loop, Saving
  <2> QED
    BY <2>1, <2>2, <2>3, <2>4 DEF IInv, DraftBuilds, MovesOn, HoldsBest
<1>5. CacheHolds'
  BY DEF IInv, CacheHolds, FirstBest
<1>6. CacheIntact'
  <2>1. at' \in Loop => at \in Loop /\ (at' = "saveIndex" <=> at = "saveIndex")
    BY DEF MovesOn, Loop, Saving
  <2> QED
    BY <2>1 DEF IInv, CacheIntact, Flags, Saved, HoldsBest, Iteration
<1> QED
  BY <1>1, <1>2, <1>3, <1>4, <1>5, <1>6

-----------------------------------------------------------------------------
(* Steps that change what is made.                                         *)

LEMMA SeqElements ==
  ASSUME NEW S, NEW s \in Seq(S)
  PROVE  /\ Len(s) \in Nat /\ DOMAIN s = 1..Len(s)
         /\ \A i \in DOMAIN s : s[i] \in S
  OBVIOUS

LEMMA SeqWidens ==
  ASSUME NEW S, NEW T, S \subseteq T, NEW s \in Seq(S)
  PROVE  s \in Seq(T)
  OBVIOUS

LEMMA ImproveKeeps ==
  ASSUME IInv, Improve
  PROVE  /\ OptTypeOK'
         /\ Measures'
         /\ BestLeads'
         /\ DraftBuilds'
         /\ CacheHolds'
         /\ CacheIntact'
<1> USE DEF Improve, Leave, Goto
<1>1. /\ generated \in Nat /\ generated' = generated + 1
      /\ \A c \in 0..generated : c \in 0..generated' /\ c # generated + 1
      /\ draft \in Drafts /\ draft' \in {draft, Accepted(TRUE)}
  BY DEF IInv, OptTypeOK, Accepted
<1>2. /\ Drafts \subseteq Drafts'
      /\ draft' \in Drafts'
  BY <1>1, OptimizationAssumption DEF Drafts, Accepted, Scores
<1>3. /\ measured' = measured
      /\ \A i \in DOMAIN measured : measured[i] \in Drafts
      /\ \A i \in DOMAIN measured : measured[i].content \in 0..generated
  <2>1. measured' = measured /\ measured \in Seq(Drafts)
    BY DEF IInv, OptTypeOK, cacheVars
  <2>2. \A i \in DOMAIN measured : measured[i] \in Drafts
    BY <2>1
  <2> QED
    BY <2>1, <2>2 DEF Drafts
<1>4. OptTypeOK'
  <2>1. at' \in Steps /\ rejected' \subseteq 1..generated'
    <3>1. at' \in Steps
      BY DEF Steps
    <3>2. rejected \subseteq 1..generated
      BY DEF IInv, OptTypeOK
    <3>3. rejected' \subseteq rejected \union {generated + 1}
      OBVIOUS
    <3>4. 1..generated \union {generated + 1} \subseteq 1..(generated + 1)
      BY <1>1
    <3> QED
      BY <1>1, <3>1, <3>2, <3>3, <3>4
  <2>2. \A i \in DOMAIN measured' : measured'[i].content \notin rejected'
    <3>1. \A i \in DOMAIN measured : measured[i].content \notin rejected
      BY DEF IInv, OptTypeOK
    <3>2. rejected' \subseteq rejected \union {generated + 1}
      BY <1>1
    <3> QED
      BY <1>1, <1>3, <3>1, <3>2
  <2>3. measured' \in Seq(Drafts')
    BY <1>2, <1>3 DEF IInv, OptTypeOK
  <2>4. best' = NoDraft \/ best' \in [iteration : DOMAIN measured', draft : Drafts']
    BY <1>2, <1>3 DEF IInv, OptTypeOK
  <2>5. result' = NoDraft \/ result' \in Results'
    BY <1>1, <1>3 DEF IInv, OptTypeOK, Results
  <2>6. \A i \in DOMAIN drafts' : drafts'[i] \in Drafts'
    BY <1>2 DEF IInv, OptTypeOK, cacheVars
  <2> QED
    BY <1>1, <1>2, <1>3, <2>1, <2>2, <2>3, <2>4, <2>5, <2>6
       DEF IInv, OptTypeOK, cacheVars, Iteration
<1>5. Measures'
  BY DEF IInv, Measures, Iteration, Loop, Saving
<1>6. BestLeads'
  BY DEF IInv, BestLeads, Promise!LeadsFirst, Promise!Leads
<1>7. DraftBuilds'
  <2>1. Promise!Base' = Promise!Base
    BY DEF Promise!Base, Promise!Leads
  <2>2. draft.content \in Promise!Base /\ draft.content \notin rejected
    BY DEF IInv, DraftBuilds, Building
  <2>3. draft'.content \notin rejected'
    BY <1>1, <2>2 DEF Accepted, Drafts, IInv, OptTypeOK
  <2>4. Promise!MayTry(draft)'
    <3>1. CASE draft' = draft
      BY <2>1, <2>2, <3>1 DEF Promise!MayTry
    <3>2. CASE draft' = Accepted(TRUE)
      BY <1>1, <1>3, <2>1, <2>2, <3>2
         DEF Promise!MayTry, Promise!Fresh, Accepted
    <3> QED
      BY <1>1, <3>1, <3>2
  <2> QED
    BY <2>3, <2>4 DEF DraftBuilds, Building, Saving
<1>8. CacheHolds'
  BY DEF IInv, CacheHolds, FirstBest, cacheVars
<1>9. CacheIntact'
  BY DEF IInv, CacheIntact, Saved, HoldsBest, Iteration, cacheVars, Loop
<1> QED
  BY <1>4, <1>5, <1>6, <1>7, <1>8, <1>9

\* The current draft with the score s.
Stamped(s) == [draft EXCEPT !.test = s]

\* What a test evaluation leaves to be saved.
LEMMA TestEvalMakes ==
  ASSUME IInv, TestEval, ~aborted, NEW n \in Nat, n = Len(measured)
  PROVE  /\ n = Len(iterations) /\ DOMAIN measured = 1..n
         /\ \A i \in 1..n : measured[i] \in Drafts
         /\ Len(measured') = n + 1 /\ DOMAIN measured' = 1..(n + 1)
         /\ measured' \in Seq(Drafts)
         /\ \A i \in 1..n : measured'[i] = measured[i]
         /\ measured'[n + 1] \in Drafts
         /\ measured'[n + 1].content = draft.content
         /\ measured'[n + 1].from = draft.from
         /\ score' = measured'[n + 1].test
         /\ HoldsBest(draft, n + 1)'
         /\ \E k \in 1..(n + 1) :
              /\ Promise!LeadsFirst(k)'
              /\ best' = [iteration |-> k, draft |-> measured'[k]]
<1>1. /\ n = Len(iterations) /\ DOMAIN measured = 1..n
      /\ \A i \in 1..n : measured[i] \in Drafts
      /\ \A i \in 1..n : measured[i].test \in Nat
      /\ draft \in Drafts
  <2>1. n = Len(iterations)
    BY DEF IInv, Measures, TestEval, Loop, Saving
  <2>2. measured \in Seq(Drafts) /\ draft \in Drafts
    BY DEF IInv, OptTypeOK
  <2>3. \A d \in Drafts : d.test \in Nat
    BY OptimizationAssumption DEF Drafts, Scores
  <2>4. DOMAIN measured = 1..n /\ \A i \in 1..n : measured[i] \in Drafts
    BY <2>2
  <2> QED
    BY <2>1, <2>2, <2>3, <2>4
<1>2. PICK s \in Scores :
        /\ score' = s
        /\ measured' = Append(measured, Stamped(s))
        /\ draft' = IF Regressed(s) THEN best.draft ELSE Stamped(s)
        /\ best' = IF IsNewPeak(s)
                   THEN [iteration |-> Iteration, draft |-> Stamped(s)]
                   ELSE best
  BY DEF TestEval, Stamped
<1>3. /\ Stamped(s) \in Drafts /\ Stamped(s).test = s /\ s \in Nat
      /\ Stamped(s).content = draft.content /\ Stamped(s).from = draft.from
  BY <1>1, OptimizationAssumption DEF Drafts, Scores, Stamped
<1>4. /\ measured' = Append(measured, Stamped(s))
      /\ draft' = IF Regressed(s) THEN best.draft ELSE Stamped(s)
      /\ best' = IF IsNewPeak(s)
                 THEN [iteration |-> n + 1, draft |-> Stamped(s)] ELSE best
      /\ score' = s
  BY <1>1, <1>2 DEF Iteration
<1>5. /\ Len(measured') = n + 1 /\ DOMAIN measured' = 1..(n + 1)
      /\ measured' \in Seq(Drafts)
      /\ \A i \in 1..n : measured'[i] = measured[i]
      /\ measured'[n + 1] = Stamped(s)
  BY <1>1, <1>3, <1>4 DEF IInv, OptTypeOK
<1>8. /\ \A j \in 1..(n + 1) : j \in 1..n \/ j = n + 1
      /\ \A j \in 1..n : measured'[j].test = measured[j].test
      /\ measured'[n + 1].test = s
      /\ \A j \in 1..n : j \in DOMAIN measured' /\ j \in 1..(n + 1)
      /\ n + 1 \in DOMAIN measured'
  BY <1>3, <1>5
<1>6. CASE measured = <<>>
  <2>1. n = 0 /\ best = NoDraft
    BY <1>1, <1>6 DEF IInv, BestLeads
  <2>2. draft' = Stamped(s) /\ best' = [iteration |-> 1, draft |-> Stamped(s)]
    BY <1>4, <2>1 DEF Regressed, IsNewPeak
  <2>3. HoldsBest(draft, n + 1)' /\ Promise!LeadsFirst(1)'
    BY <1>3, <1>5, <2>1, <2>2
       DEF HoldsBest, Promise!LeadsFirst, Promise!Leads
  <2> QED
    BY <1>1, <1>3, <1>4, <1>5, <2>1, <2>2, <2>3
<1>7. CASE measured # <<>>
  <2>1. PICK k \in 1..n :
          /\ Promise!LeadsFirst(k)
          /\ best = [iteration |-> k, draft |-> measured[k]]
    BY <1>1, <1>7 DEF IInv, BestLeads
  <2>2. /\ best # NoDraft /\ best.draft = measured[k]
        /\ BestScore = measured[k].test
    BY <1>1, <2>1 DEF NoDraft, BestScore
  <2>3. /\ \A j \in 1..n : measured[j].test <= measured[k].test
        /\ \A j \in 1..(k - 1) : measured[j].test < measured[k].test
    BY <1>1, <2>1 DEF Promise!LeadsFirst, Promise!Leads
  <2>4. HoldsBest(draft, n + 1)'
    <3>1. CASE s < measured[k].test
      <4>1. draft' = measured'[k]
        BY <1>4, <1>5, <2>2, <3>1 DEF Regressed
      <4>2. \A j \in 1..(n + 1) : measured'[j].test <= measured'[k].test
        BY <1>1, <1>3, <1>8, <2>3, <3>1
      <4> QED
        BY <1>8, <3>1, <4>1, <4>2 DEF HoldsBest
    <3>2. CASE ~(s < measured[k].test)
      <4>1. draft' = measured'[n + 1]
        BY <1>4, <1>5, <2>2, <3>2 DEF Regressed
      <4>2. \A j \in 1..(n + 1) : measured'[j].test <= measured'[n + 1].test
        BY <1>1, <1>3, <1>8, <2>3, <3>2
      <4> QED
        BY <4>1, <4>2 DEF HoldsBest
    <3> QED
      BY <3>1, <3>2
  <2>5. \E m \in 1..(n + 1) :
          /\ Promise!LeadsFirst(m)'
          /\ best' = [iteration |-> m, draft |-> measured'[m]]
    <3>1. CASE s > measured[k].test
      <4>1. best' = [iteration |-> n + 1, draft |-> measured'[n + 1]]
        BY <1>4, <1>5, <2>2, <3>1 DEF IsNewPeak
      <4>2. Promise!LeadsFirst(n + 1)'
        <5>1. \A j \in 1..(n + 1) : measured'[j].test <= measured'[n + 1].test
          BY <1>1, <1>3, <1>8, <2>3, <3>1
        <5>2. \A j \in 1..n : measured'[j].test < measured'[n + 1].test
          BY <1>1, <1>3, <1>8, <2>3, <3>1
        <5> QED
          BY <1>5, <5>1, <5>2 DEF Promise!LeadsFirst, Promise!Leads
      <4> QED
        BY <1>1, <4>1, <4>2
    <3>2. CASE ~(s > measured[k].test)
      <4>1. best' = [iteration |-> k, draft |-> measured'[k]]
        BY <1>1, <1>4, <1>5, <2>1, <2>2, <3>2 DEF IsNewPeak
      <4>2. Promise!LeadsFirst(k)'
        <5>1. \A j \in 1..(n + 1) : measured'[j].test <= measured'[k].test
          BY <1>1, <1>3, <1>8, <2>3, <3>2
        <5>2. \A j \in 1..(k - 1) : measured'[j].test < measured'[k].test
          BY <1>1, <1>8, <2>3
        <5> QED
          BY <1>5, <5>1, <5>2 DEF Promise!LeadsFirst, Promise!Leads
      <4> QED
        BY <1>1, <4>1, <4>2
    <3> QED
      BY <3>1, <3>2
  <2> QED
    BY <1>1, <1>3, <1>4, <1>5, <2>4, <2>5
<1> QED
  BY <1>6, <1>7

\* Leaving the loop at a test evaluation changes nothing.
LEMMA TestEvalKeeps ==
  ASSUME IInv, TestEval, ~aborted
  PROVE  /\ OptTypeOK'
         /\ Measures'
         /\ BestLeads'
         /\ DraftBuilds'
         /\ CacheHolds'
         /\ CacheIntact'
<1> DEFINE n == Len(measured)
<1>1. /\ n \in Nat /\ n = Len(iterations) /\ DOMAIN measured = 1..n
      /\ DOMAIN measured' = 1..(n + 1) /\ Len(measured') = n + 1
      /\ measured' \in Seq(Drafts)
      /\ \A i \in 1..n : measured'[i] = measured[i]
      /\ measured'[n + 1].content = draft.content
      /\ score' = measured'[n + 1].test
      /\ \A i \in 1..(n + 1) : measured'[i] \in Drafts
      /\ HoldsBest(draft, Len(measured))'
      /\ \E k \in 1..(n + 1) :
           /\ Promise!LeadsFirst(k)'
           /\ best' = [iteration |-> k, draft |-> measured'[k]]
  <2>1. n \in Nat
    BY DEF IInv, OptTypeOK
  <2>2. \E m \in Nat : m = n
    BY <2>1
  <2> QED
    BY <2>2, TestEvalMakes
<1>2. /\ at = "test" /\ at' = "saveDraft"
      /\ UNCHANGED <<config, feedback, iterations, generated, aborted, active,
                     err, drafts, index, events, result, rejected, cacheFailed>>
  BY DEF TestEval, Goto, cacheVars
<1>3. \A i \in 1..n : i \in 1..(n + 1)
  BY <1>1
<1>4. draft' \in Drafts /\ score' \in Scores
  <2>1. \E k \in 1..(n + 1) : draft' = measured'[k]
    BY <1>1 DEF HoldsBest
  <2>2. draft' \in Drafts
    BY <1>1, <2>1
  <2>3. n + 1 \in 1..(n + 1)
    BY <1>1
  <2>4. measured'[n + 1] \in Drafts
    BY <1>1, <2>3
  <2> QED
    BY <1>1, <2>2, <2>4 DEF Drafts
<1>5. OptTypeOK'
  <2>1. best' \in [iteration : DOMAIN measured', draft : Drafts']
    BY <1>1, <1>2 DEF Drafts
  <2>2. /\ DOMAIN measured \subseteq DOMAIN measured'
        /\ Drafts' = Drafts
    BY <1>1, <1>2, <1>3 DEF Drafts
  <2>3. index' \in Seq([iteration : DOMAIN measured', score : Scores])
    <3>1. index \in Seq([iteration : DOMAIN measured, score : Scores])
      BY DEF IInv, OptTypeOK
    <3>2. [iteration : DOMAIN measured, score : Scores]
            \subseteq [iteration : DOMAIN measured', score : Scores]
      BY <2>2
    <3> QED
      BY <1>2, <3>1, <3>2, SeqWidens
  <2>4. result' = NoDraft \/ result' \in Results'
    BY <1>2, <2>2 DEF IInv, OptTypeOK, Results
  <2>5. \A i \in DOMAIN measured' : measured'[i].content \notin rejected'
    <3>1. \A i \in 1..n : measured[i].content \notin rejected
      BY <1>1 DEF IInv, OptTypeOK
    <3>2. draft.content \notin rejected
      BY DEF IInv, DraftBuilds
    <3>3. \A i \in 1..(n + 1) : i \in 1..n \/ i = n + 1
      BY <1>1
    <3> QED
      BY <1>1, <1>2, <3>1, <3>2, <3>3
  <2>6. Len(measured') \in {Len(iterations'), Iteration'}
    BY <1>1, <1>2 DEF Iteration
  <2>7. measured' \in Seq(Drafts') /\ draft' \in Drafts'
    BY <1>1, <1>4, <2>2
  <2>8. DOMAIN drafts' \subseteq DOMAIN measured'
    BY <1>2, <2>2 DEF IInv, OptTypeOK
  <2>9. \A i \in DOMAIN drafts' : drafts'[i] \in Drafts'
    BY <1>2, <2>2 DEF IInv, OptTypeOK
  <2> QED
    BY <1>2, <1>4, <2>1, <2>2, <2>3, <2>4, <2>5, <2>6, <2>7, <2>8, <2>9
       DEF IInv, OptTypeOK, Steps
<1>6. Measures'
  <2>1. Len(measured') = Iteration' /\ score' = measured'[Iteration'].test
    BY <1>1, <1>2 DEF Iteration
  <2>2. \A i \in DOMAIN iterations : i \in 1..n /\ iterations[i] = measured[i].test
    BY <1>1 DEF IInv, OptTypeOK, Measures
  <2>3. \A i \in DOMAIN iterations : iterations[i] = measured'[i].test
    BY <1>1, <2>2
  <2> QED
    BY <1>2, <2>1, <2>3 DEF Measures, Saving
<1>7. BestLeads'
  BY <1>1 DEF BestLeads
<1>8. DraftBuilds'
  <2>1. draft'.content \notin rejected'
    <3>1. PICK k \in DOMAIN measured' : draft' = measured'[k]
      BY <1>1 DEF HoldsBest
    <3> QED
      BY <1>5, <3>1 DEF OptTypeOK
  <2> QED
    BY <1>1, <1>2, <2>1 DEF DraftBuilds, Building, Saving
<1>9. CacheHolds'
  <2>1. \A i \in DOMAIN drafts : \E k \in 1..(n + 1) : drafts[i] = measured'[k]
    BY <1>1, <1>3 DEF IInv, CacheHolds
  <2>2. index # <<>> => \E i \in DOMAIN index : FirstBest(i)'
    BY <1>2 DEF IInv, CacheHolds, FirstBest
  <2> QED
    BY <1>1, <1>2, <2>1, <2>2 DEF IInv, CacheHolds
<1>10. CacheIntact'
  <2> SUFFICES ASSUME ~cacheFailed
               PROVE  /\ DOMAIN drafts = 1..n
                      /\ \A i \in 1..n : HoldsBest(drafts[i], i)'
                      /\ Len(index) = n
                      /\ \A i \in DOMAIN index :
                           index[i] = [iteration |-> i, score |-> drafts[i].test]
    BY <1>1, <1>2 DEF CacheIntact, Saved
  <2>1. /\ DOMAIN drafts = 1..n
        /\ \A i \in 1..n : HoldsBest(drafts[i], i)
        /\ Len(index) = n
        /\ \A i \in DOMAIN index :
             index[i] = [iteration |-> i, score |-> drafts[i].test]
    BY <1>1, <1>2 DEF IInv, CacheIntact, Saved, Loop
  <2>2. \A i \in 1..n : HoldsBest(drafts[i], i)'
    <3> SUFFICES ASSUME NEW i \in 1..n
                 PROVE  HoldsBest(drafts[i], i)'
      OBVIOUS
    <3>1. \A j \in 1..i : j \in 1..n /\ measured'[j] = measured[j]
      BY <1>1
    <3>2. PICK k \in 1..i :
            /\ drafts[i] = measured[k]
            /\ \A j \in 1..i : measured[j].test <= measured[k].test
            /\ k = i \/ measured[i].test < measured[k].test
      BY <2>1 DEF HoldsBest
    <3>3. drafts'[i] = measured'[k]
      BY <1>2, <3>1, <3>2
    <3>4. \A j \in 1..i : measured'[j].test <= measured'[k].test
      BY <3>1, <3>2
    <3>5. k = i \/ measured'[i].test < measured'[k].test
      BY <3>1, <3>2
    <3> QED
      BY <3>3, <3>4, <3>5 DEF HoldsBest
  <2> QED
    BY <2>1, <2>2
<1> QED
  BY <1>5, <1>6, <1>7, <1>8, <1>9, <1>10

LEMMA SaveDraftKeeps ==
  ASSUME IInv, SaveDraft
  PROVE  /\ OptTypeOK'
         /\ Measures'
         /\ BestLeads'
         /\ DraftBuilds'
         /\ CacheHolds'
         /\ CacheIntact'
<1>1. /\ at = "saveDraft" /\ at' = "saveIndex"
      /\ UNCHANGED <<config, feedback, draft, best, iterations, score,
                     generated, err, aborted, active, index, events, result,
                     history>>
  BY DEF SaveDraft, Goto
<1>2. /\ Len(iterations) \in Nat
      /\ Iteration = Len(iterations) + 1 /\ Iteration' = Iteration
      /\ Len(measured) = Iteration /\ DOMAIN measured = 1..Iteration
      /\ HoldsBest(draft, Iteration)
  BY <1>1 DEF IInv, OptTypeOK, Measures, DraftBuilds, Iteration, Saving
<1>3. /\ DOMAIN drafts' = DOMAIN drafts \union {Iteration}
      /\ drafts'[Iteration] = draft
      /\ \A i \in DOMAIN drafts : i # Iteration => drafts'[i] = drafts[i]
  BY DEF SaveDraft
<1>4. OptTypeOK'
  <2>1. /\ DOMAIN drafts' \subseteq DOMAIN measured
        /\ \A i \in DOMAIN drafts' : drafts'[i] \in Drafts
    BY <1>2, <1>3 DEF IInv, OptTypeOK
  <2> QED
    BY <1>1, <1>2, <2>1 DEF IInv, OptTypeOK, history, Drafts, Results, Steps
<1>5. Measures'
  BY <1>1, <1>2 DEF IInv, Measures, Saving, Loop, history
<1>6. BestLeads'
  BY <1>1 DEF IInv, BestLeads, Promise!LeadsFirst, Promise!Leads, history
<1>7. DraftBuilds'
  BY <1>1 DEF IInv, DraftBuilds, HoldsBest, Building, Saving, history
<1>8. CacheHolds'
  <2>1. \E k \in DOMAIN measured : draft = measured[k]
    BY <1>2 DEF HoldsBest
  <2>2. \A i \in DOMAIN drafts' : \E k \in DOMAIN measured : drafts'[i] = measured[k]
    BY <1>3, <2>1 DEF IInv, CacheHolds
  <2> QED
    BY <1>1, <2>2 DEF IInv, CacheHolds, FirstBest, history
<1>9. CacheIntact'
  <2> SUFFICES ASSUME ~cacheFailed
               PROVE  /\ DOMAIN drafts' = 1..Iteration
                      /\ \A i \in 1..Iteration : HoldsBest(drafts[i], i)'
                      /\ Len(index) = Len(iterations)
                      /\ \A i \in DOMAIN index :
                           index[i] = [iteration |-> i, score |-> drafts'[i].test]
                      /\ drafts'[Iteration] = draft
    BY <1>1, <1>2 DEF CacheIntact, Saved, history
  <2>1. /\ DOMAIN drafts = 1..Len(iterations)
        /\ \A i \in 1..Len(iterations) : HoldsBest(drafts[i], i)
        /\ Len(index) = Len(iterations) /\ DOMAIN index = 1..Len(iterations)
        /\ \A i \in DOMAIN index :
             index[i] = [iteration |-> i, score |-> drafts[i].test]
    BY <1>1 DEF IInv, OptTypeOK, CacheIntact, Saved, Loop
  <2>2. \A i \in 1..Iteration : i = Iteration \/ (i \in 1..Len(iterations) /\ i # Iteration)
    BY <1>2
  <2>3. \A i \in 1..Len(iterations) : drafts'[i] = drafts[i]
    BY <1>2, <1>3, <2>1
  <2>4. \A i \in 1..Iteration : HoldsBest(drafts[i], i)'
    BY <1>1, <1>2, <1>3, <2>1, <2>2, <2>3 DEF HoldsBest, history
  <2>5. DOMAIN drafts' = 1..Iteration
    BY <1>2, <1>3, <2>1
  <2> QED
    BY <1>3, <2>1, <2>3, <2>4, <2>5
<1> QED
  BY <1>4, <1>5, <1>6, <1>7, <1>8, <1>9

\* The index of an unfinished iteration never has an entry for it already.
LEMMA IndexGrows ==
  ASSUME IInv, SaveIndex
  PROVE  LET e == [iteration |-> Iteration, score |-> draft.test]
         IN  /\ index' = Append(index, e)
             /\ e \in [iteration : DOMAIN measured, score : Scores]
             /\ e.score \in Nat
             /\ \A i \in DOMAIN index : index[i].score \in Nat
<1> DEFINE e == [iteration |-> Iteration, score |-> draft.test]
<1>1. index \in Seq([iteration : DOMAIN measured, score : Scores])
  BY DEF IInv, OptTypeOK
<1>2. /\ Len(iterations) \in Nat
      /\ Iteration = Len(iterations) + 1
      /\ Iteration = Len(measured) /\ Iteration \in DOMAIN measured
  BY DEF IInv, OptTypeOK, Measures, SaveIndex, Saving, Iteration
<1>3. \A i \in DOMAIN index :
        /\ index[i].iteration \in DOMAIN measured
        /\ index[i].score \in Scores
        /\ index[i].iteration <= Len(iterations)
  <2>1. \A i \in DOMAIN index :
          index[i] \in [iteration : DOMAIN measured, score : Scores]
    BY <1>1, SeqElements
  <2> QED
    BY <2>1 DEF IInv, CacheHolds
<1>4. \A m \in DOMAIN measured : m \in Nat
  BY DEF IInv, OptTypeOK
<1>5. Iteration \notin Indexed
  BY <1>2, <1>3, <1>4 DEF Indexed
<1>6. draft.test \in Scores /\ Scores \subseteq Nat
  BY OptimizationAssumption DEF IInv, OptTypeOK, Drafts, Scores
<1> QED
  BY <1>2, <1>3, <1>5, <1>6 DEF SaveIndex, OtherEntries

LEMMA SaveIndexKeeps ==
  ASSUME IInv, SaveIndex
  PROVE  /\ OptTypeOK'
         /\ Measures'
         /\ BestLeads'
         /\ DraftBuilds'
         /\ CacheHolds'
         /\ CacheIntact'
<1> DEFINE e == [iteration |-> Iteration, score |-> draft.test]
           n == Len(index)
<1>1. /\ at = "saveIndex" /\ at' \in {"assemble", "train"}
      /\ UNCHANGED <<config, feedback, draft, best, score, generated, aborted,
                     err, active, drafts, events, result, history>>
      /\ iterations' = Append(iterations, score)
  BY DEF SaveIndex, Goto
<1>2. /\ Len(iterations) \in Nat
      /\ Iteration = Len(iterations) + 1
      /\ Len(measured) = Iteration /\ DOMAIN measured = 1..Iteration
      /\ HoldsBest(draft, Iteration)
      /\ score \in Scores /\ score = measured[Iteration].test
  BY <1>1 DEF IInv, OptTypeOK, Measures, DraftBuilds, Iteration, Saving
<1>3. /\ iterations' \in Seq(Scores) /\ Len(iterations') = Iteration
      /\ DOMAIN iterations' = 1..Iteration
      /\ \A i \in 1..Len(iterations) : iterations'[i] = iterations[i]
      /\ iterations'[Iteration] = score
      /\ DOMAIN iterations = 1..Len(iterations)
  BY <1>1, <1>2 DEF IInv, OptTypeOK
<1>4. /\ index \in Seq([iteration : DOMAIN measured, score : Scores])
      /\ e \in [iteration : DOMAIN measured, score : Scores]
      /\ index' = Append(index, e) /\ e.score \in Nat
      /\ \A i \in DOMAIN index : index[i].score \in Nat
  BY IndexGrows DEF IInv, OptTypeOK
<1> HIDE DEF e
<1>5. /\ n \in Nat /\ DOMAIN index = 1..n /\ DOMAIN index' = 1..(n + 1)
      /\ Len(index') = n + 1
      /\ index' \in Seq([iteration : DOMAIN measured, score : Scores])
      /\ \A i \in 1..n : index'[i] = index[i]
      /\ index'[n + 1] = e
      /\ \A i \in 1..(n + 1) : i \in 1..n \/ i = n + 1
  BY <1>4
<1>6. e.iteration = Iteration /\ e.score = draft.test
  BY DEF e
<1>7. OptTypeOK'
  <2>1. Len(measured) \in {Len(iterations'), Iteration'}
    BY <1>2, <1>3
  <2> QED
    BY <1>1, <1>3, <1>5, <2>1 DEF IInv, OptTypeOK, history, Drafts, Results, Steps
<1>8. Measures'
  <2>1. \A i \in DOMAIN iterations' : iterations'[i] = measured[i].test
    <3>1. \A i \in 1..Len(iterations) : iterations[i] = measured[i].test
      BY <1>3 DEF IInv, Measures
    <3>2. \A i \in 1..Iteration : i \in 1..Len(iterations) \/ i = Iteration
      BY <1>2
    <3> QED
      BY <1>2, <1>3, <3>1, <3>2
  <2> QED
    BY <1>1, <1>2, <1>3, <2>1 DEF Measures, Saving, history
<1>9. BestLeads'
  BY <1>1 DEF IInv, BestLeads, Promise!LeadsFirst, Promise!Leads, history
<1>10. DraftBuilds'
  <2>1. PICK k \in DOMAIN measured :
          /\ draft = measured[k]
          /\ \A j \in DOMAIN measured : measured[j].test <= measured[k].test
    BY <1>2 DEF HoldsBest
  <2>2. draft.content \in Promise!Base'
    BY <1>1, <1>2, <2>1 DEF Promise!Base, Promise!Leads, history
  <2> QED
    BY <1>1, <2>2 DEF IInv, DraftBuilds, Building, Saving, history
<1>11. CacheHolds'
  <2>1. \A i \in DOMAIN index' : index'[i].iteration <= Iteration
    <3>1. \A m \in DOMAIN measured : m \in Nat
      BY <1>2
    <3>2. \A i \in 1..n : index[i].iteration \in Nat
      <4>1. \A i \in DOMAIN index :
              index[i] \in [iteration : DOMAIN measured, score : Scores]
        BY <1>4, SeqElements
      <4> QED
        BY <1>5, <3>1, <4>1
    <3> QED
      BY <1>2, <1>5, <1>6, <3>2 DEF IInv, CacheHolds
  <2>2. \E i \in DOMAIN index' : FirstBest(i)'
    <3>1. CASE n = 0
      BY <1>4, <1>5, <3>1 DEF FirstBest
    <3>2. CASE n # 0
      <4>1. PICK k \in 1..n : FirstBest(k)
        BY <1>5, <3>2 DEF IInv, CacheHolds
      <4>2. /\ \A j \in 1..n : index'[j].score <= index'[k].score
            /\ \A j \in 1..(k - 1) : index'[j].score < index'[k].score
        BY <1>5, <4>1 DEF FirstBest
      <4>3. \A j \in 1..(n + 1) : index'[j].score \in Nat
        BY <1>4, <1>5
      <4>4. CASE e.score <= index'[k].score
        <5>1. FirstBest(k)'
          BY <1>5, <4>2, <4>4 DEF FirstBest
        <5> QED
          BY <1>5, <5>1
      <4>5. CASE ~(e.score <= index'[k].score)
        <5>1. \A j \in 1..n : index'[j].score < index'[n + 1].score
          BY <1>5, <4>2, <4>3, <4>5
        <5>2. \A j \in 1..(n + 1) : index'[j].score <= index'[n + 1].score
          BY <1>5, <4>3, <5>1
        <5>3. \E i \in 1..(n + 1) :
                /\ \A j \in 1..(n + 1) : index'[j].score <= index'[i].score
                /\ \A j \in 1..(i - 1) : index'[j].score < index'[i].score
          BY <1>5, <5>1, <5>2
        <5> QED
          BY <1>5, <5>3 DEF FirstBest
      <4> QED
        BY <4>4, <4>5
    <3> QED
      BY <3>1, <3>2
  <2> QED
    BY <1>1, <1>3, <2>1, <2>2 DEF IInv, CacheHolds, history
<1>12. CacheIntact'
  <2> SUFFICES ASSUME ~cacheFailed
               PROVE  /\ DOMAIN drafts = 1..Iteration
                      /\ \A i \in 1..Iteration : HoldsBest(drafts[i], i)'
                      /\ Len(index') = Iteration
                      /\ \A i \in DOMAIN index' :
                           index'[i] = [iteration |-> i, score |-> drafts[i].test]
    BY <1>1, <1>2, <1>3 DEF CacheIntact, Saved, history
  <2>1. /\ DOMAIN drafts = 1..Iteration
        /\ \A i \in 1..Iteration : HoldsBest(drafts[i], i)
        /\ n = Len(iterations)
        /\ \A i \in 1..n :
             index[i] = [iteration |-> i, score |-> drafts[i].test]
        /\ drafts[Iteration] = draft
    BY <1>1, <1>5 DEF IInv, CacheIntact, Saved, Loop
  <2>2. \A i \in 1..Iteration : HoldsBest(drafts[i], i)'
    BY <1>1, <2>1 DEF HoldsBest, history
  <2>3. index'[n + 1] = [iteration |-> n + 1, score |-> drafts[n + 1].test]
    BY <1>2, <1>5, <2>1 DEF e
  <2> QED
    BY <1>2, <1>5, <2>1, <2>2, <2>3
<1> QED
  BY <1>7, <1>8, <1>9, <1>10, <1>11, <1>12

\* The end of the run, and a key lost meanwhile: the cache shrinks.
LEMMA CacheShrinks ==
  ASSUME IInv, Cleanup \/ LoseKey
  PROVE  /\ OptTypeOK'
         /\ Measures'
         /\ BestLeads'
         /\ DraftBuilds'
         /\ CacheHolds'
         /\ CacheIntact'
<1>1. /\ UNCHANGED <<config, feedback, draft, best, iterations, score,
                     generated, err, aborted, active, events, result, measured,
                     rejected>>
      /\ at' = at \/ at' = "ended"
      /\ cacheFailed' \in {cacheFailed, TRUE}
      /\ at' \in Loop => cacheFailed'
  BY DEF Cleanup, LoseKey, Goto, loopVars, history, Loop
<1>2. /\ DOMAIN drafts' \subseteq DOMAIN drafts
      /\ \A i \in DOMAIN drafts' : drafts'[i] = drafts[i]
  BY DEF Cleanup, LoseKey, Restrict
<1>3. index' = index \/ index' = <<>>
  BY DEF Cleanup, LoseKey
<1>4. OptTypeOK'
  <2>1. index' \in Seq([iteration : DOMAIN measured, score : Scores])
    <3>1. /\ index \in Seq([iteration : DOMAIN measured, score : Scores])
          /\ <<>> \in Seq([iteration : DOMAIN measured, score : Scores])
      BY DEF IInv, OptTypeOK
    <3> QED
      BY <1>3, <3>1
  <2>2. /\ DOMAIN drafts' \subseteq DOMAIN measured
        /\ \A i \in DOMAIN drafts' : drafts'[i] \in Drafts
    BY <1>2 DEF IInv, OptTypeOK
  <2> QED
    BY <1>1, <2>1, <2>2
       DEF IInv, OptTypeOK, Drafts, Results, Steps, Iteration
<1>5. Measures'
  BY <1>1 DEF IInv, Measures, Iteration, Saving, Loop
<1>6. BestLeads'
  BY <1>1 DEF IInv, BestLeads, Promise!LeadsFirst, Promise!Leads
<1>7. DraftBuilds'
  <2>1. Promise!Base' = Promise!Base
    BY <1>1 DEF Promise!Base, Promise!Leads
  <2>2. Promise!MayTry(draft)' <=> Promise!MayTry(draft)
    BY <1>1, <2>1 DEF Promise!MayTry, Promise!Fresh
  <2> QED
    BY <1>1, <2>1, <2>2
       DEF IInv, DraftBuilds, HoldsBest, Building, Saving
<1>8. CacheHolds'
  <2>1. index' # <<>> => index' = index
    BY <1>3
  <2>2. \A i \in DOMAIN index' : index'[i].iteration <= Len(iterations)
    BY <1>3 DEF IInv, CacheHolds
  <2> QED
    BY <1>1, <1>2, <2>1, <2>2 DEF IInv, CacheHolds, FirstBest
<1>9. CacheIntact'
  BY <1>1 DEF CacheIntact
<1> QED
  BY <1>4, <1>5, <1>6, <1>7, <1>8, <1>9

-----------------------------------------------------------------------------
(* The invariant holds.                                                    *)

LEMMA InitHolds == Init => IInv
<1> SUFFICES ASSUME Init PROVE IInv
  OBVIOUS
<1>1. OptTypeOK
  <2>1. 0 \in Scores /\ 0 \in 0..generated
    BY OptimizationAssumption DEF Init, Scores
  <2>2. draft \in Drafts
    BY <2>1 DEF Init, Drafts
  <2>3. /\ Len(measured) = Len(iterations)
        /\ iterations \in Seq(Scores) /\ measured \in Seq(Drafts)
        /\ index \in Seq([iteration : DOMAIN measured, score : Scores])
        /\ events \in Seq({"complete", "error"})
        /\ DOMAIN measured = {} /\ DOMAIN drafts = {}
    BY DEF Init
  <2> QED
    BY <2>1, <2>2, <2>3 DEF Init, OptTypeOK, Steps, Errors
<1>2. Measures /\ BestLeads
  BY DEF Init, Measures, BestLeads, Saving, Loop
<1>3. DraftBuilds
  BY DEF Init, DraftBuilds, Building, Saving, Promise!Base
<1>4. CacheHolds /\ CacheIntact
  BY DEF Init, CacheHolds, CacheIntact, Saved
<1>5. Cleanable /\ DraftsCleaned /\ Unanswered
  BY DEF Init, Cleanable, DraftsCleaned, Unanswered
<1>6. FeedbackGiven /\ FeedbackIsUsed /\ EarlyStopIsConfirmed
  BY DEF Init, FeedbackGiven, FeedbackIsUsed, EarlyStopIsConfirmed
<1> QED
  BY <1>1, <1>2, <1>3, <1>4, <1>5, <1>6 DEF IInv

\* The kinds of steps.
Quietly == MovesOn /\ Flags /\ UNCHANGED Made
Outside == Cancel \/ Shutdown \/ Crash
Calls   == Load \/ LoadFails \/ TrainEval \/ Analyze \/ ModelCallFails
Changes == Improve \/ SaveDraft \/ SaveIndex \/ Cleanup \/ LoseKey

\* A run that ends in the loop has ended with an event.
LEMMA EventAppended ==
  ASSUME IInv, NEW e \in {"complete", "error"}
  PROVE  Append(events, e) \in Seq({"complete", "error"})
  BY DEF IInv, OptTypeOK

LEMMA Thrown ==
  ASSUME IInv, NEW e \in {"cancellation", "failure"}, Throw(e)
  PROVE  /\ at' = "cleanup" /\ active' = FALSE
         /\ events' \in Seq({"complete", "error"}) /\ err' \in Errors
<1>1. events \in Seq({"complete", "error"})
  BY DEF IInv, OptTypeOK
<1> QED
  BY <1>1, EventAppended DEF Throw, Goto, Errors

LEMMA Quiet ==
  ASSUME IInv,
         Outside \/ Calls \/ CacheFails \/ CleanupFails \/ Assemble
           \/ (TestEval /\ aborted) \/ UNCHANGED vars
  PROVE  Quietly
<1> USE DEF Quietly, MovesOn, Flags, Made
<1>0. /\ at \in Steps /\ feedback \in BOOLEAN /\ (feedback => config.includeFeedback)
      /\ config.includeFeedback \in BOOLEAN
      /\ aborted \in BOOLEAN /\ active \in BOOLEAN
      /\ events \in Seq({"complete", "error"})
      /\ Append(events, "error") \in Seq({"complete", "error"})
      /\ Append(events, "complete") \in Seq({"complete", "error"})
      /\ err \in Errors
  BY EventAppended DEF IInv, OptTypeOK
<1> USE <1>0 DEF Goto, Leave, Steps, Loop, Saving, Building, cacheVars, history
<1>1. CASE Outside
  <2> USE DEF loopVars
  <2>1. CASE Cancel
    BY <2>1 DEF Cancel
  <2>2. CASE Shutdown
    BY <2>2 DEF Shutdown
  <2>3. CASE Crash
    BY <2>3 DEF Crash
  <2> QED
    BY <1>1, <2>1, <2>2, <2>3 DEF Outside
<1>2. CASE Load \/ LoadFails
  <2>1. CASE Load
    BY <2>1 DEF Load
  <2>2. CASE LoadFails
    BY <2>2, Thrown DEF LoadFails
  <2> QED
    BY <1>2, <2>1, <2>2
<1>3. CASE TrainEval \/ Analyze
  <2>1. CASE TrainEval
    <3>1. at' \in {"assemble", "analyze", "test"}
      BY <2>1 DEF TrainEval
    <3> QED
      BY <2>1, <3>1 DEF TrainEval
  <2>2. CASE Analyze
    BY <2>2 DEF Analyze
  <2> QED
    BY <1>3, <2>1, <2>2
<1>4. CASE ModelCallFails
  <2>1. /\ at \in {"train", "improve", "test"}
        /\ \E e \in {"cancellation", "failure"} : Throw(e)
        /\ UNCHANGED <<config, feedback, draft, best, iterations, score,
                       generated, aborted, cacheVars, result, history>>
    BY <1>4 DEF ModelCallFails, CallFails
  <2> QED
    BY <2>1, Thrown
<1>5. CASE CacheFails \/ CleanupFails
  <2>1. CASE CacheFails
    BY <2>1, Thrown DEF CacheFails
  <2>2. CASE CleanupFails
    BY <2>2 DEF CleanupFails
  <2> QED
    BY <1>5, <2>1, <2>2
<1>6. CASE Assemble
  <2>1. /\ at = "assemble" /\ at' = "cleanup"
        /\ active' = FALSE /\ events' = Append(events, "complete")
        /\ UNCHANGED <<config, feedback, draft, best, iterations, score,
                       generated, err, aborted, cacheVars, history>>
    BY <1>6 DEF Assemble
  <2> QED
    BY <2>1
<1>7. CASE TestEval /\ aborted
  <2>1. /\ at = "test" /\ at' = "assemble"
        /\ UNCHANGED <<draft, best, score, measured>>
        /\ UNCHANGED <<config, feedback, iterations, generated, aborted, active,
                       err, cacheVars, events, result, rejected, briefed,
                       cacheFailed>>
    BY <1>7, Zenon DEF TestEval, Leave, Goto
  <2> QED
    BY <2>1
<1>8. CASE UNCHANGED vars
  BY <1>8 DEF vars, loopVars
<1> QED
  BY <1>1, <1>2, <1>3, <1>4, <1>5, <1>6, <1>7, <1>8 DEF Calls

\* What getBest returns is a draft of the cache, and one of the cache of a run
\* that lost nothing is the first with the highest score.
LEMMA BestOfCache ==
  ASSUME IInv, GetBest # NoDraft
  PROVE  \E i \in DOMAIN drafts :
           /\ GetBest = Kept(i, drafts[i])
           /\ \E m \in DOMAIN index : FirstBest(m) /\ index[m].iteration = i
<1>1. index # <<>>
  BY DEF GetBest
<1> DEFINE m == CHOOSE i \in DOMAIN index : FirstBest(i)
<1>2. \E i \in DOMAIN index : FirstBest(i)
  BY <1>1 DEF IInv, CacheHolds
<1>3. m \in DOMAIN index /\ FirstBest(m)
  BY <1>2
<1> HIDE DEF m
<1>4. GetBest = IF index[m].iteration \in DOMAIN drafts
                THEN Kept(index[m].iteration, drafts[index[m].iteration])
                ELSE NoDraft
  BY <1>1 DEF GetBest, m
<1> QED
  BY <1>3, <1>4

LEMMA AnswerIsKept ==
  ASSUME IInv, Assemble
  PROVE  result' = NoDraft \/ result' \in Results
<1>1. result' = NoDraft \/ (result' = GetBest /\ GetBest # NoDraft)
  BY DEF Assemble
<1>2. CASE GetBest # NoDraft
  <2>1. PICK i \in DOMAIN drafts : GetBest = Kept(i, drafts[i])
    BY <1>2, BestOfCache
  <2>2. drafts[i] \in Drafts /\ i \in DOMAIN measured
    BY <2>1 DEF IInv, OptTypeOK
  <2>3. Kept(i, drafts[i]) \in Results
    BY <2>2 DEF Kept, Drafts, Results
  <2> QED
    BY <1>1, <2>1, <2>3
<1> QED
  BY <1>1, <1>2

\* The first six conjuncts are preserved by every step.
LEMMA BodyHolds ==
  ASSUME IInv, [Next]_vars
  PROVE  /\ OptTypeOK'
         /\ Measures'
         /\ BestLeads'
         /\ DraftBuilds'
         /\ CacheHolds'
         /\ CacheIntact'
<1> DEFINE Body == /\ OptTypeOK'
                   /\ Measures'
                   /\ BestLeads'
                   /\ DraftBuilds'
                   /\ CacheHolds'
                   /\ CacheIntact'
<1>1. ASSUME Quietly, UNCHANGED result PROVE Body
  <2>1. result' = NoDraft \/ result' \in Results
    BY <1>1 DEF IInv, OptTypeOK
  <2> QED
    BY <1>1, <2>1, MadeKept DEF Quietly
<1>2. CASE Outside \/ Calls \/ CacheFails \/ CleanupFails
             \/ (TestEval /\ aborted) \/ UNCHANGED vars
  <2>1. UNCHANGED result
    <3>1. CASE TestEval /\ aborted
      BY <3>1, Zenon DEF TestEval
    <3>2. CASE ModelCallFails
      BY <3>2 DEF ModelCallFails, CallFails
    <3>3. CASE Outside \/ Load \/ LoadFails \/ TrainEval \/ Analyze
      BY <3>3 DEF Outside, Cancel, Shutdown, Crash, Load, LoadFails,
                  TrainEval, Analyze
    <3>4. CASE CacheFails \/ CleanupFails \/ UNCHANGED vars
      BY <3>4 DEF CacheFails, CleanupFails, vars
    <3> QED
      BY <1>2, <3>1, <3>2, <3>3, <3>4 DEF Calls
  <2>2. Quietly
    BY <1>2, Quiet
  <2> QED
    BY <1>1, <2>1, <2>2
<1>3. CASE Assemble
  <2>1. Quietly
    BY <1>3, Quiet
  <2>2. result' = NoDraft \/ result' \in Results
    BY <1>3, AnswerIsKept
  <2> QED
    BY <2>1, <2>2, MadeKept DEF Quietly
<1>4. CASE TestEval /\ ~aborted
  BY <1>4, TestEvalKeeps
<1>5. CASE Changes
  BY <1>5, ImproveKeeps, SaveDraftKeeps, SaveIndexKeeps, CacheShrinks
     DEF Changes
<1> QED
  BY <1>2, <1>3, <1>4, <1>5 DEF Next, Run, Outside, Calls, Changes

\* What is in the cache at a time when no iteration is half saved is named by
\* the index.
LEMMA NamedByIndex ==
  ASSUME IInv, at \in Loop, at # "saveIndex", ~cacheFailed
  PROVE  DOMAIN drafts \subseteq Indexed
<1>1. /\ DOMAIN drafts = 1..Len(iterations)
      /\ Len(index) = Len(iterations)
      /\ \A i \in DOMAIN index : index[i].iteration = i
  BY DEF IInv, CacheIntact, Saved
<1>2. DOMAIN index = 1..Len(index)
  BY DEF IInv, OptTypeOK
<1> QED
  BY <1>1, <1>2 DEF Indexed

LEMMA CleanHolds ==
  ASSUME IInv, [Next]_vars
  PROVE  Cleanable' /\ DraftsCleaned'
<1>1. CASE Cleanup
  <2>1. at' = "ended" /\ index' = <<>> /\ cacheFailed' = cacheFailed
    BY <1>1 DEF Cleanup, Goto, history
  <2>2. ASSUME ~cacheFailed PROVE drafts' = <<>>
    <3>1. DOMAIN drafts \ Indexed = {}
      BY <1>1, <2>2 DEF IInv, Cleanable, Cleanup
    <3>2. drafts' = [x \in {} |-> drafts[x]]
      BY <1>1, <3>1 DEF Cleanup, Restrict
    <3> QED
      BY <3>2
  <2> QED
    BY <2>1, <2>2 DEF Cleanable, DraftsCleaned
<1>2. CASE CacheFails \/ CleanupFails \/ LoseKey
  BY <1>2 DEF CacheFails, CleanupFails, LoseKey, Cleanable, DraftsCleaned
<1>3. CASE LoadFails \/ ModelCallFails \/ Assemble
  <2>1. /\ at \in Loop /\ at # "saveIndex" /\ at' = "cleanup"
        /\ UNCHANGED <<drafts, index, cacheFailed>>
    BY <1>3 DEF LoadFails, ModelCallFails, CallFails, Assemble, Throw, Goto,
                cacheVars, history, Loop
  <2>2. Indexed' = Indexed
    BY <2>1 DEF Indexed
  <2> QED
    BY <2>1, <2>2, NamedByIndex DEF Cleanable, DraftsCleaned
<1>4. CASE Load \/ TrainEval \/ Analyze \/ Improve \/ TestEval \/ SaveDraft
             \/ SaveIndex \/ Crash
  <2>1. at' \notin {"cleanup", "ended"}
    <3>1. CASE TestEval
      BY <3>1, Zenon DEF TestEval, Leave, Goto
    <3>2. CASE ~TestEval
      BY <1>4, <3>2
         DEF Load, TrainEval, Analyze, Improve, SaveDraft, SaveIndex, Crash,
             Leave, Goto
    <3> QED
      BY <3>1, <3>2
  <2> QED
    BY <2>1 DEF Cleanable, DraftsCleaned
<1>5. CASE Cancel \/ Shutdown \/ UNCHANGED vars
  <2>1. UNCHANGED <<at, drafts, index, cacheFailed>>
    BY <1>5 DEF Cancel, Shutdown, vars, loopVars, cacheVars, history
  <2> QED
    BY <2>1 DEF IInv, Cleanable, DraftsCleaned, Indexed
<1> QED
  BY <1>1, <1>2, <1>3, <1>4, <1>5 DEF Next, Run

\* There is no answer before the loop is left.
LEMMA UnansweredHolds ==
  ASSUME IInv, [Next]_vars
  PROVE  Unanswered'
<1>1. CASE Assemble \/ Cleanup \/ CleanupFails
  <2>1. at' \notin Loop
    BY <1>1 DEF Assemble, Cleanup, CleanupFails, Goto, Loop
  <2> QED
    BY <2>1 DEF Unanswered
<1>2. CASE TestEval
  <2>1. at = "test" /\ result' = result
    BY <1>2, Zenon DEF TestEval
  <2> QED
    BY <2>1 DEF IInv, Unanswered, Loop
<1>3. CASE UNCHANGED <<at, result>>
  BY <1>3 DEF IInv, Unanswered
<1>4. CASE Load \/ LoadFails \/ TrainEval \/ Analyze \/ Improve \/ SaveDraft
             \/ SaveIndex \/ ModelCallFails \/ CacheFails
  <2>1. at \in Loop /\ result' = result
    BY <1>4 DEF Load, LoadFails, TrainEval, Analyze, Improve, SaveDraft,
                SaveIndex, ModelCallFails, CallFails, CacheFails, Loop
  <2> QED
    BY <2>1 DEF IInv, Unanswered
<1>5. CASE Crash
  BY <1>5 DEF Crash, Goto, Unanswered, Loop
<1> QED
  BY <1>1, <1>2, <1>3, <1>4, <1>5
     DEF Next, Run, Cancel, Shutdown, LoseKey, vars, loopVars

\* Feedback makes for a second iteration.
LEMMA FeedbackNeedsTwo ==
  ASSUME IInv, feedback
  PROVE  EffectiveLimit \in Nat /\ EffectiveLimit >= 2
<1>1. config.limit \in Nat
  BY OptimizationAssumption DEF IInv, OptTypeOK
<1> QED
  BY <1>1 DEF EffectiveLimit

LEMMA FeedbackGivenHolds ==
  ASSUME IInv, [Next]_vars
  PROVE  FeedbackGiven'
<1> SUFFICES ASSUME Briefing', ~aborted', feedback' PROVE briefed'
  BY DEF FeedbackGiven
<1>0. /\ Len(iterations) \in Nat /\ Iteration = Len(iterations) + 1
      /\ Briefing /\ ~aborted /\ feedback => briefed
  BY DEF IInv, OptTypeOK, FeedbackGiven, Iteration
<1>1. CASE Load
  <2>1. Len(iterations') = 0 /\ at' \in {"train", "assemble"}
    BY <1>1 DEF Load, Goto, IInv, Measures
  <2> QED
    BY <2>1 DEF Briefing, Saving
<1>2. CASE TrainEval
  <2>1. /\ at = "train" /\ at' \in {"assemble", "analyze", "test"}
        /\ UNCHANGED <<feedback, aborted, briefed, iterations>>
    BY <1>2 DEF TrainEval, Goto, history
  <2>2. CASE Len(iterations) >= 1
    BY <1>0, <2>1, <2>2 DEF Briefing, Loop
  <2>3. CASE ~(Len(iterations) >= 1)
    <3>1. PendingFeedback /\ Iteration < EffectiveLimit
      BY <1>0, <2>1, <2>3, FeedbackNeedsTwo DEF PendingFeedback
    <3>2. at' \in {"assemble", "analyze"}
      BY <1>2, <2>1, <3>1 DEF TrainEval, NeedsImprovement, Goto
    <3> QED
      BY <2>1, <2>3, <3>2 DEF Briefing, Saving
  <2> QED
    BY <2>2, <2>3
<1>3. CASE Analyze
  <2>1. /\ at = "analyze"
        /\ briefed' = (briefed \/ (PendingFeedback /\ ~aborted))
        /\ UNCHANGED <<feedback, aborted, iterations>>
    BY <1>3 DEF Analyze
  <2>2. CASE Len(iterations) >= 1
    BY <1>0, <2>1, <2>2 DEF Briefing, Loop
  <2>3. CASE ~(Len(iterations) >= 1)
    <3>1. Iteration = 1
      BY <1>0, <2>3
    <3>2. PendingFeedback /\ ~aborted
      BY <2>1, <3>1 DEF PendingFeedback
    <3> QED
      BY <2>1, <3>2, Zenon
  <2> QED
    BY <2>2, <2>3
<1>4. CASE Improve \/ SaveDraft \/ SaveIndex
  <2>1. /\ at \in {"improve"} \union Saving
        /\ UNCHANGED <<feedback, aborted, briefed>>
    BY <1>4 DEF Improve, SaveDraft, SaveIndex, history, Saving
  <2> QED
    BY <1>0, <2>1 DEF Briefing, Saving
<1>5. CASE TestEval
  <2>1. at = "test" /\ UNCHANGED <<feedback, aborted, briefed>>
    BY <1>5, Zenon DEF TestEval
  <2> QED
    BY <1>0, <2>1 DEF Briefing
<1>6. CASE LoadFails \/ ModelCallFails \/ CacheFails \/ CleanupFails \/ Assemble
             \/ Cleanup \/ Crash
  <2>1. at' \in {"cleanup", "ended", "crashed"}
    BY <1>6 DEF LoadFails, ModelCallFails, CallFails, CacheFails, CleanupFails,
                Assemble, Cleanup, Crash, Throw, Goto
  <2> QED
    BY <2>1 DEF Briefing, Saving, Loop
<1>7. CASE Cancel \/ Shutdown \/ LoseKey \/ UNCHANGED vars
  <2>1. /\ UNCHANGED <<at, feedback, iterations, briefed>>
        /\ aborted' \in {aborted, TRUE}
    BY <1>7 DEF Cancel, Shutdown, LoseKey, vars, loopVars, history
  <2> QED
    BY <1>0, <2>1 DEF Briefing
<1> QED
  BY <1>1, <1>2, <1>3, <1>4, <1>5, <1>6, <1>7 DEF Next, Run

\* A run that is not aborted comes to the end of its loop at a save.
LEMMA EndsAtSave ==
  ASSUME IInv, [Next]_vars, at' = "assemble", ~aborted', ~SaveIndex
  PROVE  /\ at = "assemble" /\ ~aborted
         /\ UNCHANGED <<config, feedback, iterations, briefed, measured>>
<1>1. CASE TestEval
  <2>1. at' = "saveDraft" \/ aborted'
    BY <1>1, Zenon DEF TestEval, Goto
  <2> QED
    BY <2>1
<1>2. CASE Load \/ TrainEval \/ Analyze \/ Improve
  <2>1. CASE Load
    BY <2>1 DEF Load, Goto
  <2>2. CASE TrainEval
    BY <2>2 DEF TrainEval, Goto
  <2>3. CASE Analyze
    BY <2>3 DEF Analyze, Goto
  <2>4. CASE Improve
    BY <2>4 DEF Improve, Goto
  <2> QED
    BY <1>2, <2>1, <2>2, <2>3, <2>4
<1>3. CASE LoadFails \/ SaveDraft \/ ModelCallFails \/ CacheFails
             \/ CleanupFails \/ Assemble \/ Cleanup \/ Crash
  BY <1>3 DEF LoadFails, SaveDraft, ModelCallFails, CallFails, CacheFails,
              CleanupFails, Assemble, Cleanup, Crash, Throw, Goto
<1>4. CASE Cancel \/ Shutdown \/ LoseKey \/ UNCHANGED vars
  BY <1>4 DEF Cancel, Shutdown, LoseKey, vars, loopVars, history
<1> QED
  BY <1>1, <1>2, <1>3, <1>4 DEF Next, Run

\* Why the loop is left at a save.
LEMMA StopsAtSave ==
  ASSUME IInv, SaveIndex, at' = "assemble", ~aborted
  PROVE  /\ Len(iterations') = Iteration /\ Iteration \in Nat
         /\ Iteration < EffectiveLimit =>
              \/ best.iteration # Iteration /\ ~PendingFeedback
              \/ Plateaued(iterations')
<1>1. /\ Len(iterations) \in Nat /\ Iteration = Len(iterations) + 1
      /\ iterations \in Seq(Scores) /\ score \in Scores
      /\ EffectiveLimit \in Nat
  BY OptimizationAssumption
     DEF IInv, OptTypeOK, Iteration, EffectiveLimit
<1>2. iterations' = Append(iterations, score)
  BY DEF SaveIndex
<1>3. Len(iterations') = Iteration
  BY <1>1, <1>2
<1>4. ShouldStop(iterations') \/ Iteration >= EffectiveLimit
  BY <1>2, <1>3 DEF SaveIndex, Goto
<1> QED
  BY <1>1, <1>3, <1>4 DEF ShouldStop, TargetHolds

LEMMA FeedbackIsUsedKept ==
  ASSUME IInv, [Next]_vars
  PROVE  FeedbackIsUsed'
<1> SUFFICES ASSUME at' = "assemble", ~aborted', feedback'
             PROVE  briefed' /\ Len(iterations') >= 2
  BY DEF FeedbackIsUsed
<1>1. CASE SaveIndex
  <2>1. /\ at = "saveIndex" /\ feedback /\ ~aborted /\ briefed' = briefed
        /\ Len(iterations) \in Nat /\ Iteration = Len(iterations) + 1
    BY <1>1 DEF SaveIndex, history, IInv, OptTypeOK, Iteration
  <2>2. briefed
    BY <2>1 DEF IInv, FeedbackGiven, Briefing, Saving
  <2>3. Iteration # 1
    <3> SUFFICES ASSUME Iteration = 1 PROVE FALSE
      OBVIOUS
    <3>1. Iteration < EffectiveLimit
      BY <2>1, FeedbackNeedsTwo
    <3>2. PendingFeedback
      BY <2>1 DEF PendingFeedback
    <3>3. Plateaued(iterations') /\ Len(iterations') = 1
      BY <1>1, <2>1, <3>1, <3>2, StopsAtSave
    <3> QED
      BY <3>3 DEF Plateaued
  <2> QED
    BY <1>1, <2>1, <2>2, <2>3, StopsAtSave
<1>2. CASE ~SaveIndex
  BY <1>2, EndsAtSave DEF IInv, FeedbackIsUsed
<1> QED
  BY <1>1, <1>2

LEMMA EarlyStopKept ==
  ASSUME IInv, [Next]_vars
  PROVE  EarlyStopIsConfirmed'
<1> SUFFICES ASSUME at' = "assemble", ~aborted',
                    Len(iterations') < EffectiveLimit',
                    NEW i \in DOMAIN measured', Promise!LeadsFirst(i)'
             PROVE  i < Len(iterations')
  BY DEF EarlyStopIsConfirmed
<1>1. CASE SaveIndex
  <2>1. /\ at = "saveIndex" /\ ~aborted
        /\ UNCHANGED <<config, feedback, measured, best>>
    BY <1>1 DEF SaveIndex, history
  <2>2. EffectiveLimit' = EffectiveLimit
    BY <2>1 DEF EffectiveLimit
  <2>3. /\ Len(iterations') = Iteration /\ Iteration \in Nat
        /\ \/ best.iteration # Iteration
           \/ Plateaued(iterations')
    BY <1>1, <2>1, <2>2, StopsAtSave
  <2>4. /\ Len(measured) = Iteration /\ DOMAIN measured = 1..Iteration
        /\ \A j \in 1..Iteration : measured[j] \in Drafts
    BY <2>1 DEF IInv, OptTypeOK, Measures, Saving
  <2>5. \A j \in 1..Iteration : measured[j].test \in Nat
    BY <2>4, OptimizationAssumption DEF Drafts, Scores
  <2>6. /\ \A j \in 1..Iteration : measured[j].test <= measured[i].test
        /\ \A j \in 1..(i - 1) : measured[j].test < measured[i].test
        /\ i \in 1..Iteration
    BY <2>1, <2>4 DEF Promise!LeadsFirst, Promise!Leads
  <2>7. CASE best.iteration # Iteration
    <3>1. PICK k \in 1..Iteration :
            Promise!LeadsFirst(k) /\ best.iteration = k
      BY <2>3, <2>4, <2>6 DEF IInv, BestLeads
    <3>2. /\ measured[i].test <= measured[k].test
          /\ \A j \in 1..(k - 1) : measured[j].test < measured[k].test
      BY <2>4, <2>6, <3>1 DEF Promise!LeadsFirst, Promise!Leads
    <3>3. ~(k < i) /\ ~(i < k)
      BY <2>3, <2>5, <2>6, <3>1, <3>2
    <3> QED
      BY <2>3, <2>6, <2>7, <3>1, <3>3
  <2>8. CASE Plateaued(iterations')
    <3>1. /\ Iteration >= 3
          /\ iterations'[Iteration] <= iterations'[Iteration - 2]
      BY <2>3, <2>8 DEF Plateaued
    <3>2. /\ iterations'[Iteration] = measured[Iteration].test
          /\ iterations'[Iteration - 2] = measured[Iteration - 2].test
      <4>1. /\ DOMAIN iterations' = 1..Iteration
            /\ \A j \in DOMAIN iterations' : iterations'[j] = measured'[j].test
        BY <2>3, BodyHolds DEF OptTypeOK, Measures
      <4> QED
        BY <2>1, <2>3, <3>1, <4>1
    <3>3. i # Iteration
      BY <2>3, <2>5, <2>6, <3>1, <3>2
    <3> QED
      BY <2>3, <2>6, <3>3
  <2> QED
    BY <2>3, <2>7, <2>8
<1>2. CASE ~SaveIndex
  <2>1. /\ at = "assemble" /\ ~aborted
        /\ UNCHANGED <<config, feedback, iterations, measured>>
    BY <1>2, EndsAtSave
  <2>2. EffectiveLimit' = EffectiveLimit /\ Promise!LeadsFirst(i)
    BY <2>1 DEF EffectiveLimit, Promise!LeadsFirst, Promise!Leads
  <2> QED
    BY <2>1, <2>2 DEF IInv, EarlyStopIsConfirmed
<1> QED
  BY <1>1, <1>2

\* The inductive invariant of the loop and its cache.
THEOREM Invariant == Spec => []IInv
<1>1. IInv /\ [Next]_vars => IInv'
  BY BodyHolds, CleanHolds, UnansweredHolds, FeedbackGivenHolds,
     FeedbackIsUsedKept, EarlyStopKept DEF IInv
<1> QED
  BY <1>1, InitHolds, PTL DEF Spec

-----------------------------------------------------------------------------
(* The properties.                                                         *)

\* Type correctness: what is in the variables, the numbers of what was scored
\* and finished, and nothing scored that failed validation.
THEOREM TypeCorrect == Spec => []OptTypeOK
<1>1. IInv => OptTypeOK
  BY DEF IInv
<1> QED
  BY <1>1, Invariant, PTL

\* The loop never stops early on the iteration that set the best score.
THEOREM EarlyStopIsConfirmedHolds == Spec => []EarlyStopIsConfirmed
<1>1. IInv => EarlyStopIsConfirmed
  BY DEF IInv
<1> QED
  BY <1>1, Invariant, PTL

\* Feedback that was loaded has been given to an improvement, and its outcome
\* has been scored, in every run that leaves its loop and was not cancelled.
THEOREM FeedbackIsUsedHolds == Spec => []FeedbackIsUsed
<1>1. IInv => FeedbackIsUsed
  BY DEF IInv
<1> QED
  BY <1>1, Invariant, PTL

\* A run whose calls of the cache succeeded leaves nothing in it.
THEOREM DraftsCleanedHolds == Spec => []DraftsCleaned
<1>1. IInv => DraftsCleaned
  BY DEF IInv
<1> QED
  BY <1>1, Invariant, PTL

-----------------------------------------------------------------------------
(* The optimizer implements BestDraft.                                     *)

\* What an intact cache is read for: the first measure with the highest score
\* was saved as it is, under its iteration.
LEMMA BestIsFirst ==
  ASSUME IInv, at = "assemble", ~cacheFailed, GetBest # NoDraft
  PROVE  \E i \in DOMAIN measured :
           Promise!LeadsFirst(i) /\ GetBest = Promise!Answer(i, measured[i])
<1>1. PICK i \in DOMAIN drafts :
        /\ GetBest = Kept(i, drafts[i])
        /\ \E m \in DOMAIN index : FirstBest(m) /\ index[m].iteration = i
  BY BestOfCache
<1> DEFINE n == Len(iterations)
<1>2. /\ n \in Nat /\ Len(measured) = n /\ DOMAIN measured = 1..n
      /\ DOMAIN drafts = 1..n /\ DOMAIN index = 1..n
      /\ \A j \in 1..n : HoldsBest(drafts[j], j)
      /\ \A j \in 1..n : index[j] = [iteration |-> j, score |-> drafts[j].test]
      /\ i \in 1..n
  <2>1. /\ Len(measured) = n /\ Len(index) = n /\ DOMAIN drafts = 1..n
        /\ \A j \in 1..n : HoldsBest(drafts[j], j)
        /\ \A j \in DOMAIN index :
             index[j] = [iteration |-> j, score |-> drafts[j].test]
    BY DEF IInv, Measures, CacheIntact, Saved, Loop, Saving
  <2>2. n \in Nat /\ DOMAIN measured = 1..Len(measured) /\ DOMAIN index = 1..Len(index)
    BY DEF IInv, OptTypeOK
  <2> QED
    BY <1>1, <2>1, <2>2
<1>3. \A j \in 1..n : measured[j].test \in Nat
  <2>1. \A j \in DOMAIN measured : measured[j] \in Drafts
    BY SeqElements DEF IInv, OptTypeOK
  <2>2. \A d \in Drafts : d.test \in Nat
    BY OptimizationAssumption DEF Drafts, Scores
  <2> QED
    BY <1>2, <2>1, <2>2
<1>4. FirstBest(i)
  BY <1>1, <1>2
<1>5. /\ \A j \in 1..n : drafts[j].test <= drafts[i].test
      /\ \A j \in 1..(i - 1) : drafts[j].test < drafts[i].test
  <2>1. \A j \in 1..(i - 1) : j \in 1..n
    BY <1>2
  <2> QED
    BY <1>2, <1>4, <2>1 DEF FirstBest
\* the score of the draft saved for an iteration is at least its own
<1>6. \A j \in 1..n : /\ measured[j].test <= drafts[j].test
                     /\ drafts[j].test \in Nat
  <2> SUFFICES ASSUME NEW j \in 1..n
               PROVE  measured[j].test <= drafts[j].test /\ drafts[j].test \in Nat
    OBVIOUS
  <2>1. PICK k \in 1..j :
          drafts[j] = measured[k] /\ \A m \in 1..j : measured[m].test <= measured[k].test
    BY <1>2 DEF HoldsBest
  <2> QED
    BY <1>2, <1>3, <2>1
<1>7. drafts[i] = measured[i]
  <2>1. PICK k \in 1..i :
          /\ drafts[i] = measured[k]
          /\ k = i \/ measured[i].test < measured[k].test
    BY <1>2 DEF HoldsBest
  <2>2. CASE k # i
    <3>1. k \in 1..(i - 1) /\ k \in 1..n
      BY <1>2, <2>2
    <3>2. measured[k].test <= drafts[k].test /\ drafts[k].test < measured[k].test
      BY <1>5, <1>6, <2>1, <3>1
    <3> QED
      BY <1>3, <1>6, <3>1, <3>2
  <2> QED
    BY <2>1, <2>2
<1>8. Promise!LeadsFirst(i)
  <2>1. \A j \in 1..n : measured[j].test <= measured[i].test
    BY <1>2, <1>3, <1>5, <1>6, <1>7
  <2>2. \A j \in 1..(i - 1) : measured[j].test < measured[i].test
    <3>1. \A j \in 1..(i - 1) : j \in 1..n
      BY <1>2
    <3> QED
      BY <1>2, <1>3, <1>5, <1>6, <1>7, <3>1
  <2> QED
    BY <1>2, <2>1, <2>2 DEF Promise!LeadsFirst, Promise!Leads
<1> QED
  BY <1>1, <1>2, <1>7, <1>8 DEF Kept, Promise!Answer

\* A test evaluation is a trial.
LEMMA TestEvalTries ==
  ASSUME IInv, TestEval, ~aborted
  PROVE  Promise!Try
<1> DEFINE n == Len(measured)
<1>1. n \in Nat /\ measured \in Seq(Drafts)
  BY DEF IInv, OptTypeOK
<1>2. /\ Len(measured') = n + 1 /\ measured' \in Seq(Drafts)
      /\ \A i \in 1..n : measured'[i] = measured[i]
      /\ measured'[n + 1] \in Drafts
      /\ measured'[n + 1].content = draft.content
      /\ measured'[n + 1].from = draft.from
  <2>1. \E m \in Nat : m = n
    BY <1>1
  <2> QED
    BY <2>1, TestEvalMakes
<1>3. measured' = Append(measured, measured'[n + 1])
  BY <1>1, <1>2
<1>4. measured'[n + 1] \in Promise!Trials
  <2>1. /\ Scores = Promise!Scores
        /\ \A c \in 0..generated : c \in Nat
    BY DEF IInv, OptTypeOK, Scores, Promise!Scores
  <2> QED
    BY <1>2, <2>1 DEF Drafts, Promise!Trials
<1>5. Promise!MayTry(draft)
  BY DEF IInv, DraftBuilds, TestEval
<1>6. Promise!MayTry(measured'[n + 1])
  BY <1>2, <1>5 DEF Promise!MayTry
<1>7. /\ at = "test" /\ at' = "saveDraft"
      /\ UNCHANGED <<result, cacheFailed>>
  BY Zenon DEF TestEval, Goto
<1>8. ~Closed /\ ~Closed' /\ UNCHANGED <<result, Closed, ~cacheFailed>>
  BY <1>7 DEF Closed
<1> QED
  BY <1>1, <1>2, <1>3, <1>4, <1>6, <1>8 DEF Promise!Try

\* The end of the loop closes the run, with the best draft or with nothing.
LEMMA LoopCloses ==
  ASSUME IInv, ~Closed, Closed', UNCHANGED measured,
         cacheFailed' \in {cacheFailed, TRUE},
         result' = NoDraft \/ Assemble
  PROVE  Promise!Close
<1>1. NoDraft = Promise!NoAnswer
  BY DEF NoDraft, Promise!NoAnswer
<1>2. /\ ~Closed /\ Closed' = TRUE
      /\ (~cacheFailed') \in {(~cacheFailed), FALSE}
  <2>1. CASE cacheFailed' = cacheFailed
    BY <2>1 DEF Closed
  <2>2. CASE cacheFailed' = TRUE
    BY <2>2 DEF Closed
  <2> QED
    BY <2>1, <2>2
<1>3. CASE result' = NoDraft
  BY <1>1, <1>2, <1>3 DEF Promise!Close
<1>4. CASE Assemble /\ result' # NoDraft
  <2>1. result' = GetBest /\ GetBest # NoDraft /\ at = "assemble"
    BY <1>4 DEF Assemble
  <2>2. CASE ~cacheFailed
    BY <1>2, <2>1, <2>2, BestIsFirst DEF Promise!Close
  <2>3. CASE cacheFailed
    <3>1. PICK j \in DOMAIN drafts : GetBest = Kept(j, drafts[j])
      BY <2>1, BestOfCache
    <3>2. PICK i \in DOMAIN measured : drafts[j] = measured[i]
      BY DEF IInv, CacheHolds
    <3>3. j \in DOMAIN measured
      BY DEF IInv, OptTypeOK
    <3>4. result' = Promise!Answer(j, measured[i])
      BY <2>1, <3>1, <3>2 DEF Kept, Promise!Answer
    <3> QED
      BY <1>2, <2>3, <3>3, <3>4 DEF Promise!Close
  <2> QED
    BY <2>2, <2>3
<1> QED
  BY <1>3, <1>4

LEMMA StepRefines ==
  ASSUME IInv, [Next]_vars
  PROVE  [Promise!Next]_Promise!vars
<1> USE DEF Promise!Next, Promise!vars
<1>1. CASE TestEval /\ ~aborted
  BY <1>1, TestEvalTries
<1>2. CASE LoadFails \/ ModelCallFails \/ CacheFails \/ Assemble
  <2>1. /\ at \in Loop /\ at' = "cleanup" /\ UNCHANGED measured
        /\ cacheFailed' \in {cacheFailed, TRUE}
        /\ result' = result \/ Assemble
    BY <1>2 DEF LoadFails, ModelCallFails, CallFails, CacheFails, Assemble,
                Throw, Goto, Loop, history
  <2>2. result' = NoDraft \/ Assemble
    BY <2>1 DEF IInv, Unanswered
  <2>3. ~Closed /\ Closed'
    BY <2>1 DEF Closed, Loop
  <2> QED
    BY <2>1, <2>2, <2>3, LoopCloses
<1>3. CASE Crash
  <2>1. /\ at' = "crashed" /\ UNCHANGED <<measured, result, cacheFailed>>
        /\ at \in Loop \/ at = "cleanup"
    BY <1>3 DEF Crash, Goto, history, IInv, OptTypeOK, Steps, Loop
  <2>2. CASE at \in Loop
    <3>1. ~Closed /\ Closed' /\ result' = NoDraft
      BY <2>1, <2>2 DEF Closed, Loop, IInv, Unanswered
    <3> QED
      BY <2>1, <3>1, LoopCloses
  <2>3. CASE at = "cleanup"
    BY <2>1, <2>3 DEF Closed
  <2> QED
    BY <2>1, <2>2, <2>3
<1>4. CASE CleanupFails \/ LoseKey
  <2>1. cacheFailed' = TRUE /\ UNCHANGED <<measured, result, Closed>>
    BY <1>4 DEF CleanupFails, LoseKey, Goto, loopVars, Closed
  <2> QED
    BY <2>1 DEF Promise!Forget
<1>5. CASE Load \/ TrainEval \/ Analyze \/ Improve \/ SaveDraft \/ SaveIndex
  <2>1. /\ UNCHANGED <<measured, result, cacheFailed>>
        /\ ~Closed /\ ~Closed'
    BY <1>5 DEF Load, TrainEval, Analyze, Improve, SaveDraft, SaveIndex, Goto,
                Leave, history, Closed
  <2> QED
    BY <2>1 DEF Closed
<1>6. CASE TestEval /\ aborted
  <2>1. at = "test" /\ at' = "assemble" /\ UNCHANGED <<measured, result, cacheFailed>>
    BY <1>6, Zenon DEF TestEval, Leave, Goto
  <2> QED
    BY <2>1 DEF Closed
<1>7. CASE Cleanup
  <2>1. /\ at = "cleanup" /\ at' = "ended"
        /\ UNCHANGED <<measured, result, cacheFailed>>
    BY <1>7 DEF Cleanup, Goto, history
  <2> QED
    BY <2>1 DEF Closed
<1>8. CASE Cancel \/ Shutdown \/ UNCHANGED vars
  <2>1. UNCHANGED <<at, measured, result, cacheFailed>>
    BY <1>8 DEF Cancel, Shutdown, vars, loopVars, history
  <2> QED
    BY <2>1 DEF Closed
<1> QED
  BY <1>1, <1>2, <1>3, <1>4, <1>5, <1>6, <1>7, <1>8 DEF Next, Run

\* The optimizer implements BestDraft: every draft it scores has the content of
\* a draft with the highest score so far or was made from one, and what it
\* answers with is the first with the highest score of all, or nothing, and,
\* when the cache has lost something, some draft with the score it got.
THEOREM KeepsTheBestHolds == Spec => KeepsTheBest
<1>1. Init => Promise!Init
  BY DEF Init, Promise!Init, Promise!NoAnswer, NoDraft, Closed
<1>2. IInv /\ [Next]_vars => [Promise!Next]_Promise!vars
  BY StepRefines
<1> QED
  BY <1>1, <1>2, Invariant, PTL DEF Spec, KeepsTheBest, Promise!Spec
=============================================================================
