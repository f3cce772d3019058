----------------------------- MODULE RateLimiter -----------------------------
(***************************************************************************)
(* InMemoryRateLimiter, for one bucket of one process: a sliding window of *)
(* admissions.  A request's thread reads the clock before it takes the     *)
(* lock, so the times it appends need not be in order, and it may judge by *)
(* a time that another thread's has overtaken.  The lag is how long a      *)
(* thread may stay between the two; everything below is relative to it.    *)
(***************************************************************************)
EXTENDS Integers, Sequences, FiniteSets

CONSTANTS
  Threads,  \* request threads of the process
  Limit,    \* admissions per window
  Window,   \* window_seconds
  MaxLag,   \* longest time between reading the clock and holding the lock
  MaxTime   \* bound: the clock stops

ASSUME LimiterAssumption ==
  /\ Limit \in Nat \ {0}
  /\ Window \in Nat /\ MaxLag \in Nat /\ MaxTime \in Nat

Times  == 0..MaxTime
NoTime == -1

VARIABLES
  now,       \* time.monotonic()
  stamp,     \* the time each thread has read, NoTime outside check
  bucket,    \* the deque: one entry for each admission, oldest first
  admitted,  \* every admission there was, numbered, with the time it was judged by
  newest     \* the newest time any check was judged by

vars == <<now, stamp, bucket, admitted, newest>>

Entries == [no : Nat \ {0}, at : Times]

Init ==
  /\ now = 0
  /\ stamp = [t \in Threads |-> NoTime]
  /\ bucket = << >> /\ admitted = {}
  /\ newest = 0

-----------------------------------------------------------------------------

\* Time passes, unless a thread has been kept from the lock for MaxLag.
Tick ==
  /\ now < MaxTime
  /\ \A t \in Threads : stamp[t] # NoTime => now < stamp[t] + MaxLag
  /\ now' = now + 1
  /\ UNCHANGED <<stamp, bucket, admitted, newest>>

ReadClock(t) ==
  /\ stamp[t] = NoTime
  /\ stamp' = [stamp EXCEPT ![t] = now]
  /\ UNCHANGED <<now, bucket, admitted, newest>>

\* Faulty variant of Kept: an entry expires a moment too late.
KeptTooLong(s) ==
  LET fresh == {i \in DOMAIN bucket : bucket[i].at >= s - Window} IN
  IF fresh = {}
    THEN << >>
    ELSE SubSeq(bucket, CHOOSE i \in fresh : \A j \in fresh : i <= j, Len(bucket))

\* Entries leave from the left until one is younger than the window: what is behind
\* that one stays, whatever its age.
Fresh(s) == {i \in DOMAIN bucket : bucket[i].at > s - Window}
Kept(s)  == IF Fresh(s) = {}
              THEN << >>
              ELSE SubSeq(bucket, CHOOSE i \in Fresh(s) : \A j \in Fresh(s) : i <= j,
                          Len(bucket))

Entry(t) == [no |-> Cardinality(admitted) + 1, at |-> stamp[t]]

Judge(t) ==
  /\ stamp[t] # NoTime
  /\ stamp' = [stamp EXCEPT ![t] = NoTime]
  /\ newest' = IF stamp[t] > newest THEN stamp[t] ELSE newest
  /\ UNCHANGED now

\* Faulty variant of Admit: one more than the limit.
AdmitOneMore(t) ==
  /\ Judge(t)
  /\ Len(Kept(stamp[t])) <= Limit
  /\ bucket' = Append(Kept(stamp[t]), Entry(t))
  /\ admitted' = admitted \cup {Entry(t)}

Admit(t) ==
  /\ Judge(t)
  /\ Len(Kept(stamp[t])) < Limit
  /\ bucket' = Append(Kept(stamp[t]), Entry(t))
  /\ admitted' = admitted \cup {Entry(t)}

\* 429
Refuse(t) ==
  /\ Judge(t)
  /\ Len(Kept(stamp[t])) >= Limit
  /\ bucket' = Kept(stamp[t])
  /\ UNCHANGED admitted

Next ==
  \/ Tick
  \/ \E t \in Threads : ReadClock(t) \/ Admit(t) \/ Refuse(t)

Spec == Init /\ [][Next]_vars

-----------------------------------------------------------------------------
(* Properties *)

\* The admissions judged by a time later than from, and by to at the latest.
AdmittedWithin(from, to) == {e \in admitted : from < e.at /\ e.at <= to}

TypeOK ==
  /\ now \in Times /\ newest \in 0..now
  /\ stamp \in [Threads -> Times \cup {NoTime}]
  /\ bucket \in Seq(Entries)
  /\ admitted \subseteq Entries

\* At most Limit requests pass in any window shortened by the lag, wherever it
\* begins and although times are appended out of order: a late thread does not
\* find what an earlier one, with a newer time, has expired.
WindowRespected ==
  \A to \in Times :
    Cardinality(AdmittedWithin(to - (Window - MaxLag), to)) <= Limit

\* A request is refused for Limit others that passed within the window lengthened
\* by the lag: entries that are stuck behind a younger one refuse nobody for longer.
RefusalIsEarned ==
  [][\A t \in Threads :
       stamp[t] # NoTime /\ stamp'[t] = NoTime /\ admitted' = admitted
         => Cardinality(AdmittedWithin(stamp[t] - (Window + MaxLag), now)) >= Limit]_vars

=============================================================================
