------------------------------- MODULE Sequence -------------------------------
(***************************************************************************)
(* Key sequences (keyboard/keys/sequence.c): one key plays several reports *)
(* to the host, one step per sample.  Sampling is paced by the report      *)
(* pipeline of keyboard/hid.c, here the boot interface with its idle rate  *)
(* at 0 and the bus active; HidReports.tla has the rest of the pipeline.   *)
(***************************************************************************)
EXTENDS Sequences, Naturals, FiniteSets

CONSTANTS
  SequenceData,  \* the sequences of layers.c: tuples of sets of usages
  OtherKeys,     \* usages of other keys, in none of the sequences
  HostDoes,      \* the requests of the host
  NULL           \* no sequence, no report

HostActs == {"set_config", "get_report"}

StepUsages == UNION UNION {{s[n] : n \in DOMAIN s} : s \in SequenceData}

Report == SUBSET (OtherKeys \cup StepUsages)

ASSUME DataAssumption ==
  /\ NULL \notin SequenceData /\ \A r \in Report : r # NULL
  /\ \A s \in SequenceData :
       s \in Seq((SUBSET StepUsages) \ {{}}) /\ Len(s) > 0
  /\ OtherKeys \cap StepUsages = {}
  /\ HostDoes \subseteq HostActs

VARIABLES
  edge,                  \* the sequence whose key has an unseen press edge
  others,                \* the other keys that are down
  active_sequence,
  active_sequence_step,  \* counts from 0
  next,                  \* next_hid_in_report_boot
  old,                   \* old_hid_in_report_boot
  fifo,                  \* the packet in the endpoint (transmitting)
  host                   \* the last report the host took

(* History variables. *)
VARIABLES
  overwritten,           \* a GET_REPORT has replaced a report that waited
  owed                   \* the steps registered and not yet taken by the host,
                         \* counted as long as none is overwritten

sequence == <<active_sequence, active_sequence_step>>
pipeline == <<next, old, fifo>>
history == <<owed, overwritten>>
vars == <<edge, others, sequence, pipeline, host, history>>

Init ==
  /\ edge = NULL /\ others = {}
  /\ active_sequence = NULL /\ active_sequence_step = 0
  /\ next = NULL /\ old = {} /\ fifo = NULL /\ host = {}
  /\ owed = <<>> /\ overwritten = FALSE

-----------------------------------------------------------------------------
(* keys_populate_hid_usage_list: sequence_play, then keys_scan, whose *)
(* callback may call sequence_register.                               *)

EndedMutant == active_sequence_step >= Len(active_sequence) - 1
\* The step with count 0 that SEQ_END puts after the last one.
Ended == active_sequence_step >= Len(active_sequence)

Playing == active_sequence # NULL /\ ~Ended

NextStepMutant == active_sequence_step
NextStep == active_sequence_step + 1

RegistersMutant == edge # NULL
\* sequence_register, after sequence_play has freed a sequence that ended.
Registers == edge # NULL /\ ~Playing

\* What a sample made now reports.
Sample == others \cup IF Playing THEN active_sequence[active_sequence_step + 1] ELSE {}

\* Of the steps it is owed, the host recognises the first.
Taken(report) ==
  IF owed # <<>> /\ report \ OtherKeys = Head(owed) THEN Tail(owed) ELSE owed

Populate(steps) ==
  /\ active_sequence' = IF Registers THEN edge ELSE IF Playing THEN active_sequence
                        ELSE NULL
  /\ active_sequence_step' = IF Playing /\ ~Registers THEN NextStep ELSE 0
  /\ owed' = IF overwritten' THEN <<>> ELSE IF Registers THEN steps \o edge
            ELSE steps
  /\ edge' = NULL

-----------------------------------------------------------------------------

PressSequenceKey(s) ==
  /\ edge = NULL
  /\ edge' = s
  /\ UNCHANGED <<others, sequence, pipeline, host, history>>

OtherKey(k) ==
  /\ others' = IF k \in others THEN others \ {k} ELSE others \cup {k}
  /\ UNCHANGED <<edge, sequence, pipeline, host, history>>

ResamplesMutant == TRUE
\* update_hid_in_reports samples only when the queue is empty.
Resamples == next = NULL

\* hid_poll: an unchanged report is discarded, a changed one is written when
\* the endpoint is free and waits otherwise.
Poll ==
  LET report == IF Resamples THEN Sample ELSE next
      changed == report # old
  IN /\ UNCHANGED overwritten
     /\ \/ Resamples /\ Populate(owed)
        \/ ~Resamples /\ UNCHANGED <<edge, sequence, owed>>
     /\ next' = IF changed /\ fifo # NULL THEN report ELSE NULL
     /\ old' = IF changed /\ fifo = NULL THEN report ELSE old
     /\ fifo' = IF changed /\ fifo = NULL THEN report ELSE fifo
     /\ UNCHANGED <<others, host>>

HostRead ==
  /\ fifo # NULL
  /\ host' = fifo /\ fifo' = NULL
  /\ owed' = Taken(fifo)
  /\ UNCHANGED <<edge, others, sequence, next, old, overwritten>>

\* GET_REPORT: a sample is forced into the queue, whatever it holds, and is the
\* reply.
GetReport ==
  /\ "get_report" \in HostDoes
  /\ overwritten' = (overwritten \/ next # NULL)
  /\ Populate(Taken(Sample))
  /\ next' = Sample
  /\ UNCHANGED <<others, old, fifo, host>>

StepAfterResetMutant == active_sequence_step
\* sequence_reset, but only if a sequence is active.
StepAfterReset == 0

\* SET_CONFIGURATION: keys_reset and the reports start over, the queue does not.
SetConfig ==
  /\ "set_config" \in HostDoes
  /\ active_sequence' = NULL /\ active_sequence_step' = StepAfterReset
  /\ old' = {} /\ fifo' = NULL /\ host' = {}
  /\ owed' = <<>> /\ overwritten' = FALSE
  /\ UNCHANGED <<edge, others, next>>

Next ==
  \/ \E s \in SequenceData : PressSequenceKey(s)
  \/ \E k \in OtherKeys : OtherKey(k)
  \/ Poll
  \/ HostRead
  \/ GetReport
  \/ SetConfig

Spec == Init /\ [][Next]_vars

(* The main loop polls for ever, and the host polls the endpoint. *)
FairSpec == Spec /\ WF_vars(Poll) /\ WF_vars(HostRead)
-----------------------------------------------------------------------------
(* Properties *)

\* Every variable keeps to its range; in particular the step never runs past
\* the end mark of the sequence.
TypeOK ==
  /\ edge \in SequenceData \cup {NULL} /\ others \subseteq OtherKeys
  /\ active_sequence \in SequenceData \cup {NULL}
  /\ active_sequence_step \in
       0 .. IF active_sequence = NULL THEN 0 ELSE Len(active_sequence)
  /\ next \in Report \cup {NULL} /\ old \in Report
  /\ fifo \in Report \cup {NULL} /\ host \in Report
  /\ owed \in Seq(SUBSET StepUsages) /\ overwritten \in BOOLEAN

\* "Send sequence of key presses" (README.md): when a sequence is over and
\* nothing waits to be sent, the host has taken a report for every step, in
\* order, whatever other keys were pressed meanwhile and however late it polled:
\* from the endpoint or in reply to GET_REPORT, unless such a request found a
\* report waiting in the queue and overwrote it.
StepsDelivered ==
  active_sequence = NULL /\ next = NULL /\ fifo = NULL /\ ~overwritten
    => owed = <<>>

\* No usage of a sequence is left pressed on the host, although no step says
\* that it is released, unless GET_REPORT goes on sampling in between.
NothingStuck ==
  <>[][~GetReport]_vars
    => (host \cap StepUsages # {} ~> host \cap StepUsages = {})
=============================================================================
