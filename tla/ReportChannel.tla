---------------------------- MODULE ReportChannel ----------------------------
(***************************************************************************)
(* What the keyboard promises a host on its interrupt endpoints, without    *)
(* the flags, deadlines and copies of old reports it is implemented with: a *)
(* sample of all interfaces at once, one packet per endpoint, and nothing   *)
(* sent that the host has already been given, unless repeats were asked for.*)
(***************************************************************************)

CONSTANTS
  Interface,
  Report,
  NoKeys,     \* the report a host assumes before the first one
  NULL,       \* no sample, no packet
  Repeats     \* may the host have asked for repeats of an unchanged report?

VARIABLES
  keys,       \* the reports of the keys that are down
  sample,     \* the reports taken from them that are still to be served
  packet,     \* what each endpoint holds out to the host
  host        \* the last report the host took

Each(v) == [i \in Interface |-> v]

\* What the host has, or is about to take.
Given(i) == IF packet[i] # NULL THEN packet[i] ELSE host[i]

Init ==
  /\ keys = Each(NoKeys) /\ sample = Each(NULL)
  /\ packet = Each(NULL) /\ host = Each(NoKeys)

KeyChange ==
  /\ keys' \in [Interface -> Report]
  /\ UNCHANGED <<sample, packet, host>>

\* One report of a sample is kept for later, sent, or dropped as nothing new.
Keep(i, report) == sample'[i] = report /\ packet'[i] = packet[i]

Send(i, report) ==
  /\ report # NULL /\ packet[i] = NULL
  /\ Repeats \/ report # host[i]
  /\ packet'[i] = report /\ sample'[i] = NULL

Drop(i, report) ==
  report = Given(i) /\ sample'[i] = NULL /\ packet'[i] = packet[i]

Serve(reports) ==
  /\ sample' \in [Interface -> Report \cup {NULL}]
  /\ packet' \in [Interface -> Report \cup {NULL}]
  /\ \A i \in Interface :
       Keep(i, reports[i]) \/ Send(i, reports[i]) \/ Drop(i, reports[i])
  /\ UNCHANGED <<keys, host>>

\* A new sample is taken only when that of every interface has been served.
SampleAndServe == sample = Each(NULL) /\ Serve(keys)

\* GET_REPORT asks for a new sample at once.
SampleNow == sample' = keys /\ UNCHANGED <<keys, packet, host>>

HostRead(i) ==
  /\ packet[i] # NULL
  /\ host' = [host EXCEPT ![i] = packet[i]]
  /\ packet' = [packet EXCEPT ![i] = NULL]
  /\ UNCHANGED <<keys, sample>>

\* The host configures the device, and assumes that no key is down.
Configure ==
  /\ packet' = Each(NULL) /\ host' = Each(NoKeys)
  /\ UNCHANGED <<keys, sample>>

Next ==
  \/ KeyChange
  \/ Serve(sample)
  \/ SampleAndServe
  \/ SampleNow
  \/ \E i \in Interface : HostRead(i)
  \/ Configure

Spec == Init /\ [][Next]_<<keys, sample, packet, host>>
=============================================================================
