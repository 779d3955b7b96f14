---------------------------- MODULE SequenceProofs ----------------------------
(***************************************************************************)
(* Proofs about Sequence, for any sequences whose neighbouring steps differ *)
(* (that of the "00" key does not): every step reaches the host.            *)
(***************************************************************************)
EXTENDS Sequence, SequenceTheorems, TLAPS

Step == (SUBSET StepUsages) \ {{}}

LEMMA Data ==
  ASSUME NEW s \in SequenceData
  PROVE  /\ s # NULL /\ s \in Seq(Step) /\ Len(s) \in Nat \ {0}
         /\ \A n \in 1 .. Len(s) : s[n] \in Step
  BY DataAssumption DEF Step

\* The part of a report that a sequence may have put there.
Portion(report) == report \ OtherKeys

LEMMA Sampled ==
  ASSUME TypeOK
  PROVE  /\ Sample \in Report /\ Sample # NULL
         /\ Playing => /\ active_sequence \in SequenceData
                       /\ active_sequence_step \in 0 .. Len(active_sequence) - 1
                       /\ Portion(Sample) = active_sequence[active_sequence_step + 1]
         /\ ~Playing => Portion(Sample) = {}
<1>1. CASE Playing
  <2>1. active_sequence \in SequenceData
    BY <1>1 DEF TypeOK, Playing
  <2>2. active_sequence_step \in 0 .. Len(active_sequence) - 1
    BY <1>1, <2>1, Data DEF TypeOK, Playing, Ended
  <2>3. active_sequence[active_sequence_step + 1] \in Step
    BY <2>1, <2>2, Data
  <2>4. Sample = others \cup active_sequence[active_sequence_step + 1]
    BY <1>1 DEF Sample
  <2> QED
    BY <1>1, <2>1, <2>2, <2>3, <2>4, DataAssumption
       DEF TypeOK, Report, Step, Portion
<1>2. CASE ~Playing
  <2>1. Sample = others
    BY <1>2 DEF Sample, TypeOK
  <2> QED
    BY <1>2, <2>1, DataAssumption DEF TypeOK, Report, Portion
<1> QED
  BY <1>1, <1>2

-----------------------------------------------------------------------------
(* What is owed after a report has been taken. *)

Consume(steps, report) ==
  IF report # NULL /\ steps # <<>> /\ Portion(report) = Head(steps)
    THEN Tail(steps) ELSE steps

LEMMA ConsumeType ==
  ASSUME NEW steps \in Seq(Step), NEW report
  PROVE  Consume(steps, report) \in Seq(Step)
  BY DEF Consume

\* A report without a step is none of those owed.
LEMMA NothingConsumed ==
  ASSUME NEW steps \in Seq(Step), NEW report, report = NULL \/ Portion(report) = {}
  PROVE  Consume(steps, report) = steps
<1>1. steps # <<>> => Head(steps) \in Step
  OBVIOUS
<1> QED
  BY <1>1 DEF Consume, Step

\* The last steps of s, at most n of them.
Suffix(steps, s, n) ==
  /\ Len(steps) <= n
  /\ \A i \in 1 .. Len(steps) : steps[i] = s[Len(s) - Len(steps) + i]

LEMMA TailSuffix ==
  ASSUME NEW steps \in Seq(Step), steps # <<>>, NEW s \in Seq(Step), NEW n \in Nat,
         Suffix(steps, s, n)
  PROVE  n > 0 /\ Suffix(Tail(steps), s, n - 1)
<1>1. Len(steps) \in Nat \ {0} /\ Len(s) \in Nat /\ Len(steps) <= n
  BY DEF Suffix
<1>2. Len(Tail(steps)) = Len(steps) - 1
  OBVIOUS
<1>3. ASSUME NEW i \in 1 .. Len(Tail(steps))
      PROVE  Tail(steps)[i] = s[Len(s) - Len(Tail(steps)) + i]
  <2>1. Tail(steps)[i] = steps[i + 1] /\ i + 1 \in 1 .. Len(steps)
    BY <1>1, <1>2
  <2>2. Len(s) - Len(steps) + (i + 1) = Len(s) - Len(Tail(steps)) + i
    BY <1>1, <1>2
  <2> QED
    BY <2>1, <2>2 DEF Suffix
<1> QED
  BY <1>1, <1>2, <1>3 DEF Suffix

LEMMA SuffixConsumed ==
  ASSUME NEW steps \in Seq(Step), NEW s \in Seq(Step), NEW n \in Nat,
         Suffix(steps, s, n), NEW report
  PROVE  Suffix(Consume(steps, report), s, n)
<1>1. CASE Consume(steps, report) = steps
  BY <1>1
<1>2. CASE steps # <<>> /\ Consume(steps, report) = Tail(steps)
  BY <1>2, TailSuffix DEF Suffix
<1> QED
  BY <1>1, <1>2 DEF Consume

\* The report of the next step leaves only what comes after it.
LEMMA StepConsumed ==
  ASSUME NEW s \in Seq(Step), NEW n \in 1 .. Len(s),
         NEW steps \in Seq(Step), Suffix(steps, s, n),
         NEW report, report # NULL, Portion(report) = s[Len(s) - n + 1]
  PROVE  Suffix(Consume(steps, report), s, n - 1)
<1>1. CASE steps # <<>> /\ Portion(report) = Head(steps)
  BY <1>1, TailSuffix DEF Consume
<1>2. CASE ~(steps # <<>> /\ Portion(report) = Head(steps))
  <2>1. Consume(steps, report) = steps
    BY <1>2 DEF Consume
  <2>2. Len(steps) # n
    <3> SUFFICES ASSUME Len(steps) = n PROVE FALSE
      OBVIOUS
    <3>1. steps # <<>> /\ Head(steps) = steps[1] /\ steps[1] = s[Len(s) - n + 1]
      BY DEF Suffix
    <3> QED
      BY <1>2, <3>1
  <2> QED
    BY <2>1, <2>2 DEF Suffix
<1> QED
  BY <1>1, <1>2

\* A sequence registered while the endpoint holds the last step of the one before.
LEMMA Registered ==
  ASSUME NEW steps \in Seq(Step), NEW s \in Seq(Step), NEW report,
         Consume(steps, report) = <<>>
  PROVE  Suffix(Consume(steps \o s, report), s, Len(s))
<1>1. Suffix(s, s, Len(s))
  BY DEF Suffix
<1>2. CASE steps = <<>>
  BY <1>1, <1>2, SuffixConsumed
<1>3. CASE steps # <<>>
  <2>1. /\ report # NULL /\ Portion(report) = Head(steps) /\ Tail(steps) = <<>>
    BY <1>3 DEF Consume
  <2>2. Len(steps) = 1
    <3>1. Len(Tail(steps)) = Len(steps) - 1 /\ Len(steps) \in Nat
      BY <1>3, HeadTailProperties
    <3>2. Len(Tail(steps)) = 0
      BY <2>1, EmptySeq
    <3> QED
      BY <3>1, <3>2
  <2>3. /\ steps \o s \in Seq(Step) /\ Len(steps \o s) = 1 + Len(s)
        /\ \A i \in 1 .. 1 + Len(s) :
             (steps \o s)[i] = IF i <= 1 THEN steps[i] ELSE s[i - 1]
    <3>1. steps \o s \in Seq(Step)
      BY ConcatProperties
    <3>2. Len(steps \o s) = Len(steps) + Len(s)
      BY ConcatProperties
    <3>3. \A i \in 1 .. Len(steps) + Len(s) : (steps \o s)[i] =
            IF i <= Len(steps) THEN steps[i] ELSE s[i - Len(steps)]
      BY Zenon, ConcatProperties
    <3> QED
      BY <2>2, <3>1, <3>2, <3>3
  <2>4. steps \o s # <<>> /\ Head(steps \o s) = Head(steps)
    <3>1. (steps \o s)[1] = steps[1]
      BY <2>3
    <3>2. steps \o s # <<>>
      BY <2>3, EmptySeq
    <3> QED
      BY <1>3, <3>1, <3>2
  <2>5. Consume(steps \o s, report) = Tail(steps \o s)
    BY <2>1, <2>4 DEF Consume
  <2>6. Tail(steps \o s) = s
    <3>1. /\ Tail(steps \o s) \in Seq(Step) /\ Len(Tail(steps \o s)) = Len(s)
          /\ \A i \in 1 .. Len(s) : Tail(steps \o s)[i] = (steps \o s)[i + 1]
      BY <2>3, <2>4, HeadTailProperties
    <3>2. \A i \in 1 .. Len(s) : Tail(steps \o s)[i] = s[i]
      BY <2>3, <3>1
    <3> QED
      BY <3>1, <3>2, SeqEqual
  <2> QED
    BY <1>1, <2>5, <2>6
<1> QED
  BY <1>2, <1>3

-----------------------------------------------------------------------------
(* The type invariant *)

\* No step that is owed is empty.
TypeInv == TypeOK /\ owed \in Seq(Step)

LEMMA PopulateType ==
  ASSUME TypeInv, NEW steps \in Seq(Step), overwritten' \in BOOLEAN, Populate(steps)
  PROVE  /\ edge' \in SequenceData \cup {NULL}
         /\ active_sequence' \in SequenceData \cup {NULL}
         /\ active_sequence_step' \in
              0 .. IF active_sequence' = NULL THEN 0 ELSE Len(active_sequence')
         /\ owed' \in Seq(Step)
<1>1. edge' = NULL
  BY DEF Populate
<1>2. owed' \in Seq(Step)
  <2>1. Registers => steps \o edge \in Seq(Step)
    <3> SUFFICES ASSUME Registers PROVE steps \o edge \in Seq(Step)
      OBVIOUS
    <3>1. edge \in Seq(Step)
      BY Data DEF Registers, TypeInv, TypeOK
    <3> QED
      BY <3>1, ConcatProperties
  <2>2. <<>> \in Seq(Step)
    BY EmptySeq
  <2> QED
    BY <2>1, <2>2 DEF Populate
<1>3. CASE Playing /\ ~Registers
  <2>1. /\ active_sequence \in SequenceData
        /\ active_sequence_step \in 0 .. Len(active_sequence) - 1
    BY <1>3, Sampled DEF TypeInv
  <2>2. active_sequence' = active_sequence /\ active_sequence_step' = active_sequence_step + 1
    BY <1>3 DEF Populate, NextStep
  <2> QED
    BY <1>1, <1>2, <2>1, <2>2, Data
<1>4. CASE ~(Playing /\ ~Registers)
  <2>1. active_sequence_step' = 0
    BY <1>4 DEF Populate
  <2>2. active_sequence' \in SequenceData \cup {NULL}
    BY <1>4 DEF Populate, Registers, TypeInv, TypeOK
  <2>3. active_sequence' # NULL => Len(active_sequence') \in Nat
    BY <2>2, Data
  <2> QED
    BY <1>1, <1>2, <2>1, <2>2, <2>3
<1> QED
  BY <1>3, <1>4

LEMMA OwedIsTyped == Seq(Step) \subseteq Seq(SUBSET StepUsages)
  BY DEF Step

LEMMA InitTypeInv == Init => TypeInv
<1> SUFFICES ASSUME Init PROVE TypeInv
  OBVIOUS
<1>1. owed \in Seq(Step)
  BY EmptySeq DEF Init
<1>2. owed \in Seq(SUBSET StepUsages)
  BY <1>1, OwedIsTyped
<1>3. active_sequence_step \in
        0 .. IF active_sequence = NULL THEN 0 ELSE Len(active_sequence)
  BY DEF Init
<1> QED
  BY Zenon, <1>1, <1>2, <1>3 DEF Init, TypeInv, TypeOK, Report

LEMMA StepTypeInv ==
  ASSUME TypeInv, [Next]_vars
  PROVE  TypeInv'
<1> USE DEF TypeInv, TypeOK
<1>1. ASSUME NEW s \in SequenceData, PressSequenceKey(s) PROVE TypeInv'
  BY <1>1 DEF PressSequenceKey, sequence, pipeline, history
<1>2. ASSUME NEW k \in OtherKeys, OtherKey(k) PROVE TypeInv'
  BY <1>2 DEF OtherKey, sequence, pipeline, history
<1>3. CASE Poll
  <2>1. /\ next' \in Report \cup {NULL} /\ old' \in Report /\ fifo' \in Report \cup {NULL}
        /\ UNCHANGED <<others, host, overwritten>>
    BY <1>3, Sampled DEF Poll, Resamples
  <2>2. CASE Resamples /\ Populate(owed)
    BY <2>1, <2>2, PopulateType, OwedIsTyped
  <2>3. CASE UNCHANGED <<edge, sequence, owed>>
    BY <2>1, <2>3 DEF sequence
  <2> QED
    BY <1>3, <2>2, <2>3 DEF Poll
<1>4. CASE HostRead
  <2>1. owed' = Consume(owed, fifo)
    BY <1>4 DEF HostRead, Taken, Consume, Portion
  <2>2. owed' \in Seq(Step)
    BY <2>1, ConsumeType
  <2> QED
    BY <1>4, <2>2, OwedIsTyped DEF HostRead, sequence
<1>5. CASE GetReport
  <2>1. Sample \in Report /\ Sample # NULL
    BY Sampled
  <2>2. Taken(Sample) = Consume(owed, Sample)
    BY <2>1 DEF Taken, Consume, Portion
  <2>3. Taken(Sample) \in Seq(Step)
    BY <2>2, ConsumeType
  <2>4. overwritten' \in BOOLEAN /\ Populate(Taken(Sample))
    BY <1>5 DEF GetReport
  <2> QED
    BY <1>5, <2>1, <2>3, <2>4, PopulateType, OwedIsTyped DEF GetReport
<1>6. CASE SetConfig
  <2>1. <<>> \in Seq(Step) /\ {} \in Report
    BY EmptySeq DEF Report
  <2>2. owed' \in Seq(Step) /\ owed' \in Seq(SUBSET StepUsages)
    BY <1>6, <2>1, OwedIsTyped DEF SetConfig
  <2>3. /\ active_sequence' = NULL /\ active_sequence_step' = 0
        /\ overwritten' = FALSE /\ old' = {} /\ fifo' = NULL /\ host' = {}
        /\ UNCHANGED <<edge, others, next>>
    BY <1>6 DEF SetConfig, StepAfterReset
  <2>4. active_sequence_step' \in
          0 .. IF active_sequence' = NULL THEN 0 ELSE Len(active_sequence')
    BY <2>3
  <2> QED
    BY Zenon, <2>1, <2>2, <2>3, <2>4
<1>7. CASE UNCHANGED vars
  BY <1>7 DEF vars, sequence, pipeline, history
<1> QED
  BY <1>1, <1>2, <1>3, <1>4, <1>5, <1>6, <1>7 DEF Next

\* Every variable keeps to its range: no step is read past the end of a sequence.
THEOREM TypeCorrect == Spec => []TypeOK
<1>1. TypeInv => TypeOK
  BY DEF TypeInv
<1> QED
  BY <1>1, InitTypeInv, StepTypeInv, PTL DEF Spec

-----------------------------------------------------------------------------
(* Every step reaches the host.  What is still owed when the reports on their  *)
(* way have been taken is the end of the sequence that has not been sampled.   *)
(* No step is discarded as unchanged, because the last report sampled, which   *)
(* is the baseline or waits in the queue, shows the step before.               *)

\* Unlike those of the "00" key.
NeighboursDiffer ==
  \A s \in SequenceData : \A n \in 1 .. Len(s) - 1 : s[n] # s[n + 1]

\* The step in the last report sampled while a sequence is active.
LastStep ==
  IF active_sequence_step = 0 THEN {} ELSE active_sequence[active_sequence_step]

LastSampled == IF next = NULL THEN old ELSE next

Caught == Consume(Consume(owed, fifo), next)

BaselineInv ==
  /\ fifo # NULL => old = fifo
  /\ active_sequence # NULL => Portion(LastSampled) = LastStep

\* With what is to be sampled it is all that is owed.
AllOwed ==
  /\ Playing => Suffix(Caught, active_sequence,
                      Len(active_sequence) - active_sequence_step)
  /\ ~Playing => Caught = <<>>

\* A queued step will be sent.
StepQueued == next # NULL /\ Portion(next) # {} => next # old

DeliverInv == TypeInv /\ BaselineInv /\ (~overwritten => AllOwed /\ StepQueued)

LEMMA DeliverInit == Init => DeliverInv
<1> SUFFICES ASSUME Init PROVE DeliverInv
  OBVIOUS
<1>1. TypeInv
  BY InitTypeInv
<1>2. Caught = <<>>
  BY DEF Init, Caught, Consume
<1> QED
  BY <1>1, <1>2 DEF Init, DeliverInv, BaselineInv, AllOwed, StepQueued, Playing

\* A step is sampled only when the report before it, which it differs from, is the
\* one it is compared with.
LEMMA StepIsNew ==
  ASSUME NeighboursDiffer, TypeInv, BaselineInv, Playing, next = NULL
  PROVE  Portion(Sample) # Portion(old) /\ Portion(Sample) # {}
<1>1. /\ active_sequence \in SequenceData
      /\ active_sequence_step \in 0 .. Len(active_sequence) - 1
      /\ Portion(Sample) = active_sequence[active_sequence_step + 1]
  BY Sampled DEF TypeInv
<1>2. Portion(Sample) \in Step
  BY <1>1, Data
<1>3. Portion(old) = LastStep
  BY <1>1, Data DEF BaselineInv, LastSampled
<1>4. CASE active_sequence_step = 0
  BY <1>2, <1>3, <1>4 DEF LastStep, Step
<1>5. CASE active_sequence_step # 0
  <2>1. active_sequence_step \in 1 .. Len(active_sequence) - 1
    BY <1>1, <1>5, Data
  <2>2. active_sequence[active_sequence_step] # active_sequence[active_sequence_step + 1]
    BY <1>1, <2>1 DEF NeighboursDiffer
  <2> QED
    BY <1>1, <1>2, <1>3, <1>5, <2>2 DEF LastStep, Step
<1> QED
  BY <1>4, <1>5

\* What a sample does to the sequence, and the last report sampled after it.
LEMMA PopulateSequence ==
  ASSUME TypeInv, NEW steps, Populate(steps)
  PROVE  /\ Playing => /\ active_sequence' = active_sequence
                       /\ active_sequence_step' = active_sequence_step + 1
         /\ ~Playing => /\ active_sequence_step' = 0
                        /\ active_sequence' = IF edge # NULL THEN edge ELSE NULL
         /\ active_sequence' # NULL => Portion(Sample) = LastStep'
<1>1. CASE Playing
  <2>1. ~Registers
    BY <1>1 DEF Registers
  <2>2. active_sequence' = active_sequence /\ active_sequence_step' = active_sequence_step + 1
    BY <1>1, <2>1 DEF Populate, NextStep
  <2>3. /\ active_sequence_step \in 0 .. Len(active_sequence) - 1
        /\ Len(active_sequence) \in Nat
        /\ Portion(Sample) = active_sequence[active_sequence_step + 1]
    BY <1>1, Sampled, Data DEF TypeInv
  <2>4. active_sequence_step' # 0
    BY <2>2, <2>3
  <2> QED
    BY <1>1, <2>2, <2>3, <2>4 DEF LastStep
<1>2. CASE ~Playing
  <2>1. active_sequence_step' = 0 /\ active_sequence' = IF edge # NULL THEN edge ELSE NULL
    BY <1>2 DEF Populate, Registers
  <2>2. Portion(Sample) = {}
    BY <1>2, Sampled DEF TypeInv
  <2> QED
    BY <1>2, <2>1, <2>2 DEF LastStep
<1> QED
  BY <1>1, <1>2

\* The step just sampled leaves what comes after it ...
LEMMA PlayedOn ==
  ASSUME TypeInv, Playing, active_sequence' = active_sequence,
         active_sequence_step' = active_sequence_step + 1,
         Caught' \in Seq(Step),
         Suffix(Caught', active_sequence,
                Len(active_sequence) - active_sequence_step - 1)
  PROVE  AllOwed'
<1>1. /\ active_sequence \in SequenceData /\ Len(active_sequence) \in Nat
      /\ active_sequence_step \in 0 .. Len(active_sequence) - 1
  BY Sampled, Data DEF TypeInv
<1>2. Len(active_sequence) - active_sequence_step - 1
        = Len(active_sequence') - active_sequence_step'
  BY <1>1
<1>3. ASSUME ~Playing' PROVE Caught' = <<>>
  <2>1. active_sequence_step' >= Len(active_sequence')
    BY <1>1, <1>3, Data DEF Playing, Ended
  <2>2. Len(Caught') <= 0
    BY <1>1, <1>2, <2>1 DEF Suffix
  <2> QED
    BY <2>2, EmptySeq
<1> QED
  BY <1>2, <1>3 DEF AllOwed

\* ... and one that has been registered is owed as a whole.
LEMMA Started ==
  ASSUME TypeInv, AllOwed, next = NULL, ~Playing, ~overwritten', Populate(owed),
         Caught' = Consume(owed', fifo)
  PROVE  AllOwed'
<1>1. Consume(owed, fifo) = <<>>
  BY DEF AllOwed, Caught, Consume
<1>2. CASE edge # NULL
  <2>1. /\ active_sequence' = edge /\ active_sequence_step' = 0
        /\ owed' = owed \o edge
    BY <1>2 DEF Populate, Registers
  <2>2. edge \in SequenceData /\ edge \in Seq(Step) /\ Len(edge) \in Nat \ {0}
    BY <1>2, Data DEF TypeInv, TypeOK
  <2>3. Suffix(Caught', edge, Len(edge))
    BY <1>1, <2>1, <2>2, Registered DEF TypeInv
  <2>4. Playing'
    BY <1>2, <2>1, <2>2 DEF Playing, Ended
  <2> QED
    BY <2>1, <2>2, <2>3, <2>4 DEF AllOwed
<1>3. CASE edge = NULL
  <2>1. active_sequence' = NULL /\ owed' = owed
    BY <1>3 DEF Populate, Registers
  <2> QED
    BY <1>1, <2>1 DEF AllOwed, Playing
<1> QED
  BY <1>2, <1>3

\* One sample, by hid_poll.
LEMMA PollSamples ==
  ASSUME NeighboursDiffer, DeliverInv, Poll, next = NULL
  PROVE  DeliverInv'
<1> DEFINE report == Sample
<1>1. TypeInv'
  BY StepTypeInv DEF DeliverInv, Next
<1>2. /\ Populate(owed) /\ overwritten' = overwritten
      /\ next' = IF report # old /\ fifo # NULL THEN report ELSE NULL
      /\ old' = IF report # old /\ fifo = NULL THEN report ELSE old
      /\ fifo' = IF report # old /\ fifo = NULL THEN report ELSE fifo
  BY DEF Poll, Resamples
<1>3. TypeInv /\ BaselineInv /\ report # NULL
  BY Sampled DEF DeliverInv, TypeInv
<1>4. LastSampled' = report
  BY <1>2, <1>3 DEF LastSampled
<1>5. BaselineInv'
  <2>1. fifo' # NULL => old' = fifo'
    BY <1>2, <1>3 DEF BaselineInv
  <2>2. active_sequence' # NULL => Portion(LastSampled') = LastStep'
    BY <1>2, <1>3, <1>4, PopulateSequence
  <2> QED
    BY <2>1, <2>2 DEF BaselineInv
<1>6. StepQueued'
  BY <1>2 DEF StepQueued
<1>7. ASSUME ~overwritten PROVE AllOwed'
  <2>1. AllOwed /\ Caught = Consume(owed, fifo)
    BY <1>7 DEF DeliverInv, Caught, Consume
  <2>2. CASE Playing
    <3>1. /\ active_sequence' = active_sequence
          /\ active_sequence_step' = active_sequence_step + 1 /\ owed' = owed
      BY <1>2, <1>3, <1>7, <2>2, PopulateSequence DEF Populate, Registers
    <3>2. report # old
      BY <1>3, <2>2, StepIsNew
    <3>3. Caught' = Consume(Caught, report)
      BY <1>2, <2>1, <3>1, <3>2 DEF Caught, Consume
    <3>4. Caught \in Seq(Step) /\ Caught' \in Seq(Step)
      BY <1>3, <2>1, <3>3, ConsumeType DEF TypeInv
    <3>5. /\ active_sequence \in Seq(Step)
          /\ Len(active_sequence) - active_sequence_step \in 1 .. Len(active_sequence)
          /\ Portion(report) = active_sequence[Len(active_sequence)
                - (Len(active_sequence) - active_sequence_step) + 1]
      BY <1>3, <2>2, Sampled, Data DEF TypeInv
    <3>6. Suffix(Caught', active_sequence,
                 Len(active_sequence) - active_sequence_step - 1)
      BY <1>3, <2>1, <2>2, <3>3, <3>4, <3>5, StepConsumed DEF AllOwed
    <3> QED
      BY <1>3, <2>2, <3>1, <3>4, <3>6, PlayedOn
  <2>3. CASE ~Playing
    <3>1. Portion(report) = {}
      BY <1>3, <2>3, Sampled DEF TypeInv
    <3>2. owed' \in Seq(Step) /\ Consume(owed', fifo) \in Seq(Step)
      BY <1>1, ConsumeType DEF TypeInv
    <3>3. Caught' = Consume(owed', fifo)
      BY <1>2, <3>1, <3>2, NothingConsumed DEF Caught
    <3> QED
      BY <1>2, <1>3, <1>7, <2>1, <2>3, <3>3, Started
  <2> QED
    BY <2>2, <2>3
<1> QED
  BY <1>1, <1>2, <1>5, <1>6, <1>7 DEF DeliverInv

\* hid_poll with a report in the queue: a step in it is sent or goes on waiting.
LEMMA PollSends ==
  ASSUME DeliverInv, Poll, next # NULL
  PROVE  DeliverInv'
<1>1. TypeInv'
  BY StepTypeInv DEF DeliverInv, Next
<1>2. /\ UNCHANGED <<edge, sequence, owed, overwritten>>
      /\ next' = IF next # old /\ fifo # NULL THEN next ELSE NULL
      /\ old' = IF next # old /\ fifo = NULL THEN next ELSE old
      /\ fifo' = IF next # old /\ fifo = NULL THEN next ELSE fifo
  BY DEF Poll, Resamples
<1>3. LastSampled' = LastSampled /\ LastStep' = LastStep
  BY <1>2 DEF LastSampled, LastStep, sequence
<1>4. BaselineInv'
  BY <1>2, <1>3 DEF DeliverInv, BaselineInv, sequence
<1>5. ASSUME ~overwritten PROVE AllOwed' /\ StepQueued'
  <2>1. AllOwed /\ StepQueued
    BY <1>5 DEF DeliverInv
  <2>2. Caught' = Caught
    <3>1. CASE next # old
      BY <1>2, <3>1 DEF Caught, Consume
    <3>2. CASE next = old
      <4>1. Portion(next) = {}
        BY <2>1, <3>2 DEF StepQueued
      <4>2. Consume(owed, fifo) \in Seq(Step)
        BY ConsumeType DEF DeliverInv, TypeInv
      <4>3. Caught = Consume(owed, fifo)
        BY <4>1, <4>2, NothingConsumed DEF Caught
      <4> QED
        BY <1>2, <3>2, <4>3 DEF Caught, Consume
    <3> QED
      BY <3>1, <3>2
  <2> QED
    BY <1>2, <2>1, <2>2 DEF AllOwed, StepQueued, Playing, Ended, sequence
<1> QED
  BY <1>1, <1>2, <1>4, <1>5 DEF DeliverInv

\* GET_REPORT: the reply may be the step that is owed, if no packet waits with the
\* one before; the queue keeps a copy.
LEMMA GetReportDelivers ==
  ASSUME NeighboursDiffer, DeliverInv, GetReport
  PROVE  DeliverInv'
<1> DEFINE report == Sample
           steps == Consume(owed, report)
<1>1. TypeInv'
  BY StepTypeInv DEF DeliverInv, Next
<1>2. TypeInv /\ BaselineInv /\ report # NULL /\ owed \in Seq(Step)
  BY Sampled DEF DeliverInv, TypeInv
<1>3. /\ Populate(steps) /\ overwritten' = (overwritten \/ next # NULL)
      /\ next' = report /\ old' = old /\ fifo' = fifo
  BY <1>2 DEF GetReport, Taken, Consume, Portion
<1>4. BaselineInv'
  <2>1. active_sequence' # NULL => Portion(report) = LastStep'
    BY <1>2, <1>3, PopulateSequence
  <2> QED
    BY <1>2, <1>3, <2>1 DEF BaselineInv, LastSampled
<1>5. ASSUME ~overwritten' PROVE AllOwed' /\ StepQueued'
  <2>1. ~overwritten /\ next = NULL
    BY <1>2, <1>3, <1>5 DEF TypeInv, TypeOK
  <2>2. AllOwed /\ Caught = Consume(owed, fifo) /\ Caught \in Seq(Step)
    BY <1>2, <2>1, ConsumeType DEF DeliverInv, Caught, Consume
  <2>3. CASE Playing
    <3>1. /\ active_sequence' = active_sequence
          /\ active_sequence_step' = active_sequence_step + 1 /\ owed' = steps
      BY <1>2, <1>3, <1>5, <2>3, PopulateSequence DEF Populate, Registers
    <3>2. Portion(report) # Portion(old)
      BY <1>2, <2>1, <2>3, StepIsNew
    <3>3. StepQueued'
      BY <1>3, <3>2 DEF StepQueued
    <3>4. /\ active_sequence \in Seq(Step) /\ Len(active_sequence) \in Nat
          /\ Len(active_sequence) - active_sequence_step \in 1 .. Len(active_sequence)
          /\ Portion(report) = active_sequence[Len(active_sequence)
                - (Len(active_sequence) - active_sequence_step) + 1]
      BY <1>2, <2>3, Sampled, Data DEF TypeInv
    <3> DEFINE rest == Len(active_sequence) - active_sequence_step
    <3>5. Suffix(Caught, active_sequence, rest)
      BY <2>2, <2>3 DEF AllOwed
    <3>6. Caught' = Consume(Consume(steps, fifo), report)
      BY <1>3, <3>1 DEF Caught
    <3>7. Caught' \in Seq(Step) /\ Consume(steps, fifo) \in Seq(Step) /\ steps \in Seq(Step)
      BY <1>2, <3>6, ConsumeType
    <3>8. rest - 1 \in Nat /\ rest \in 1 .. Len(active_sequence)
      BY <3>4
    <3>9. CASE Caught = owed
      <4>1. Suffix(steps, active_sequence, rest - 1)
        BY <1>2, <3>4, <3>5, <3>9, StepConsumed
      <4>2. Suffix(Consume(steps, fifo), active_sequence, rest - 1)
        BY <3>4, <3>7, <3>8, <4>1, SuffixConsumed
      <4>3. Suffix(Caught', active_sequence, rest - 1)
        BY <3>4, <3>6, <3>7, <3>8, <4>2, SuffixConsumed
      <4> QED
        BY <1>2, <2>3, <3>1, <3>3, <3>7, <4>3, PlayedOn
    <3>10. CASE Caught # owed
      <4>1. fifo # NULL /\ Portion(fifo) = Head(owed) /\ old = fifo
        BY <1>2, <2>2, <3>10 DEF Consume, BaselineInv
      <4>2. steps = owed
        BY <3>2, <4>1 DEF Consume
      <4>3. Caught' = Consume(Caught, report)
        BY <2>2, <3>6, <4>2
      <4>4. Suffix(Caught', active_sequence, rest - 1)
        BY <1>2, <2>2, <3>4, <3>5, <4>3, StepConsumed
      <4> QED
        BY <1>2, <2>3, <3>1, <3>3, <3>7, <4>4, PlayedOn
    <3> QED
      BY <3>9, <3>10
  <2>4. CASE ~Playing
    <3>1. Portion(report) = {}
      BY <1>2, <2>4, Sampled DEF TypeInv
    <3>2. steps = owed
      BY <1>2, <3>1, NothingConsumed
    <3>3. owed' \in Seq(Step) /\ Consume(owed', fifo) \in Seq(Step)
      BY <1>1, ConsumeType DEF TypeInv
    <3>4. Caught' = Consume(owed', fifo)
      BY <1>3, <3>1, <3>3, NothingConsumed DEF Caught
    <3>5. StepQueued'
      BY <1>3, <3>1 DEF StepQueued
    <3> QED
      BY <1>2, <1>3, <1>5, <2>1, <2>2, <2>4, <3>2, <3>4, <3>5, Started
  <2> QED
    BY <2>3, <2>4
<1> QED
  BY <1>1, <1>4, <1>5 DEF DeliverInv

LEMMA DeliverStep ==
  ASSUME NeighboursDiffer, DeliverInv, [Next]_vars
  PROVE  DeliverInv'
<1>1. TypeInv'
  BY StepTypeInv DEF DeliverInv
<1>2. ASSUME UNCHANGED <<active_sequence, active_sequence_step, pipeline, history>>
      PROVE  DeliverInv'
  <2>1. Caught' = Caught /\ LastSampled' = LastSampled /\ LastStep' = LastStep
    BY <1>2 DEF Caught, LastSampled, LastStep, pipeline, history, Consume
  <2> QED
    BY <1>1, <1>2, <2>1
       DEF DeliverInv, BaselineInv, AllOwed, StepQueued, Playing, Ended, pipeline, history
<1>3. ASSUME NEW s \in SequenceData, PressSequenceKey(s) PROVE DeliverInv'
  BY <1>2, <1>3 DEF PressSequenceKey, sequence
<1>4. ASSUME NEW k \in OtherKeys, OtherKey(k) PROVE DeliverInv'
  BY <1>2, <1>4 DEF OtherKey, sequence
<1>5. CASE Poll
  BY <1>5, PollSamples, PollSends
<1>6. CASE HostRead
  <2>1. /\ fifo # NULL /\ fifo' = NULL /\ owed' = Consume(owed, fifo)
        /\ UNCHANGED <<sequence, next, old, overwritten>>
    BY <1>6 DEF HostRead, Taken, Consume, Portion
  <2>2. Caught' = Caught /\ LastSampled' = LastSampled /\ LastStep' = LastStep
    BY <2>1 DEF Caught, LastSampled, LastStep, sequence, Consume
  <2> QED
    BY <1>1, <2>1, <2>2
       DEF DeliverInv, BaselineInv, AllOwed, StepQueued, Playing, Ended, sequence
<1>7. CASE GetReport
  BY <1>7, GetReportDelivers
<1>8. CASE SetConfig
  <2>1. /\ active_sequence' = NULL /\ old' = {} /\ fifo' = NULL /\ owed' = <<>>
        /\ next' = next
    BY <1>8 DEF SetConfig
  <2>2. Caught' = <<>>
    BY <2>1 DEF Caught, Consume
  <2>3. StepQueued'
    BY <2>1 DEF StepQueued, Portion
  <2> QED
    BY <1>1, <2>1, <2>2, <2>3 DEF DeliverInv, BaselineInv, AllOwed, Playing
<1>9. CASE UNCHANGED vars
  BY <1>2, <1>9 DEF vars, sequence
<1> QED
  BY <1>3, <1>4, <1>5, <1>6, <1>7, <1>8, <1>9 DEF Next

\* Whatever keys, requests and polls come between, the host takes every step of every
\* sequence in order, unless a GET_REPORT overwrites a waiting report
\* (StepsDelivered).
THEOREM Delivered ==
  ASSUME NeighboursDiffer
  PROVE  Spec => []StepsDelivered
<1>1. DeliverInv => StepsDelivered
  BY DEF DeliverInv, AllOwed, Playing, Caught, Consume, StepsDelivered
<1> QED
  BY <1>1, DeliverInit, DeliverStep, PTL DEF Spec
=============================================================================
