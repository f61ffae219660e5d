-------------------------- MODULE RequestSampler --------------------------
(***************************************************************************)
(* The request sampler (gateway/request_sampler.go): one request in every  *)
(* Rate, counted over all services, is fingerprinted into its service's    *)
(* current window; a window that has run its length is rotated by the next *)
(* request or report, and its uniqueness published.                        *)
(*                                                                         *)
(* A request draws its number and reads the clock before it takes the lock.*)
(* A body is the sequence of its JSON-RPC items, <<>> for anything else; an*)
(* item is its method and its parameters, the id being left out.           *)
(***************************************************************************)
EXTENDS Integers, Sequences, FiniteSets, SequencesExt

CONSTANTS
    Service,
    Caller,             \* goroutines serving requests
    Body,               \* the bodies they carry
    Rate,               \* one request in Rate is sampled
    MaxFingerprints,    \* size of a window's table
    MaxRequests,        \* bound: requests
    MaxTime             \* bound: window lengths observed

VARIABLES
    counter,            \* requests numbered so far
    now,                \* in window lengths
    calls,              \* per caller: the request it is about to observe
    current, previous,  \* per service: its live and its last completed window
    gauge               \* per service: the window the gauges were set from

vars == <<counter, now, calls, current, previous, gauge>>

Idle == [service |-> "none", n |-> 0, now |-> 0, body |-> <<>>]
NoMethod == "none"
Item == [method : {NoMethod, "m1", "m2"}, params : {"p", "q"}]

\* items is a history of what was fingerprinted; the code keeps the rest.
newSampleWindow(t) ==
    [start |-> t, live |-> TRUE, seen |-> 0, sampled |-> 0, overflow |-> 0,
     fingerprints |-> {}, distinct |-> [m \in {} |-> 0], items |-> {}]
NoWindow == [newSampleWindow(0) EXCEPT !.live = FALSE]

Init ==
    /\ counter = 0 /\ now = 0
    /\ calls = [c \in Caller |-> Idle]
    /\ current = [s \in Service |-> NoWindow] /\ previous = [s \in Service |-> NoWindow]
    /\ gauge = [s \in Service |-> NoWindow]

-----------------------------------------------------------------------------
\* One fingerprint per JSON-RPC item that names a method.
fingerprintJSONRPC(body) == SelectSeq(body, LAMBDA it : it.method # NoMethod)

\* No such item: the HTTP method and path stand for the method, the whole body for the rest.
fingerprintRequest(body) ==
    IF fingerprintJSONRPC(body) # <<>> THEN fingerprintJSONRPC(body)
    ELSE <<[method |-> "POST /", params |-> "body"]>>

Bump(f, m) == [x \in DOMAIN f \cup {m} |-> (IF x \in DOMAIN f THEN f[x] ELSE 0) + (IF x = m THEN 1 ELSE 0)]

recordUncounted(w, item) ==
    LET known == item \in w.fingerprints
        full == Cardinality(w.fingerprints) >= MaxFingerprints
    IN [w EXCEPT !.sampled = @ + 1,
                 !.distinct = IF known THEN @ ELSE Bump(@, item.method),
                 !.fingerprints = IF known \/ full THEN @ ELSE @ \cup {item},
                 !.items = @ \cup {item}]

\* A new fingerprint that finds the table full is counted and forgotten.
recordLocked(w, item) ==
    LET known == item \in w.fingerprints
        full == Cardinality(w.fingerprints) >= MaxFingerprints
    IN [w EXCEPT !.sampled = @ + 1,
                 !.distinct = IF known THEN @ ELSE Bump(@, item.method),
                 !.overflow = IF ~known /\ full THEN @ + 1 ELSE @,
                 !.fingerprints = IF known \/ full THEN @ ELSE @ \cup {item},
                 !.items = @ \cup {item}]

\* The gauges keep the window before when this one sampled nothing.
publishLocked(s, w) == gauge' = IF w.sampled = 0 THEN gauge ELSE [gauge EXCEPT ![s] = w]

\* A live window that has run its length at t is rotated.
rotationDue(s, t) == current[s].live /\ t - current[s].start >= 1

\* The window of s that is live at t, after the rotation that was due.
currentWindowLocked(s, t) ==
    IF ~current[s].live \/ rotationDue(s, t) THEN newSampleWindow(t) ELSE current[s]

\* The rotation, if it was due at t, and w the live window as its caller leaves it.
Rotate(s, t, w) ==
    /\ current' = [current EXCEPT ![s] = w]
    /\ previous' = IF rotationDue(s, t) THEN [previous EXCEPT ![s] = current[s]] ELSE previous
    /\ IF rotationDue(s, t) THEN publishLocked(s, current[s]) ELSE UNCHANGED gauge

\* Observe up to the lock ...
Number(c, s, body) ==
    /\ calls[c] = Idle /\ counter < MaxRequests
    /\ counter' = counter + 1
    /\ (counter + 1) % Rate # 0 => body = <<>>       \* the body of another is not looked at
    /\ calls' = [calls EXCEPT ![c] = [service |-> s, n |-> counter + 1, now |-> now, body |-> body]]
    /\ UNCHANGED <<now, current, previous, gauge>>

\* ... and under it.
Observe(c) ==
    LET call == calls[c]
        live == currentWindowLocked(call.service, call.now)
        seen == [live EXCEPT !.seen = @ + 1]
        sampled == FoldLeft(recordLocked, seen, fingerprintRequest(call.body))
    IN /\ call # Idle
       /\ Rotate(call.service, call.now, IF call.n % Rate = 0 THEN sampled ELSE seen)
       /\ calls' = [calls EXCEPT ![c] = Idle]
       /\ UNCHANGED <<counter, now>>

\* A report rotates a window that is due before it reads one.
Report(s) ==
    /\ current[s].live
    /\ Rotate(s, now, currentWindowLocked(s, now))
    /\ UNCHANGED <<counter, now, calls>>

Tick == now < MaxTime /\ now' = now + 1 /\ UNCHANGED <<counter, calls, current, previous, gauge>>

Next ==
    \/ \E c \in Caller, s \in Service, b \in Body : Number(c, s, b)
    \/ \E c \in Caller : Observe(c)
    \/ \E s \in Service : Report(s)
    \/ Tick

Spec == Init /\ [][Next]_vars

-----------------------------------------------------------------------------
Windows == {current[s] : s \in Service} \cup {previous[s] : s \in Service} \cup {gauge[s] : s \in Service}
Distinct(w) == Cardinality(w.fingerprints) + w.overflow
PerMethod(w) == FoldFunction(+, 0, w.distinct)

\* Overflow can only make traffic look more diverse than it is: what a report calls
\* distinct is at least the number of different requests sampled, exactly that while
\* the table has room, never more than were sampled, and the sum over the methods
\* (recordLocked, renderLocked).
DistinctNeverUnderstates ==
    \A w \in Windows :
        /\ Cardinality(w.items) <= Distinct(w) /\ Distinct(w) <= w.sampled
        /\ w.overflow = 0 => Distinct(w) = Cardinality(w.items)
        /\ PerMethod(w) = Distinct(w)
=============================================================================
