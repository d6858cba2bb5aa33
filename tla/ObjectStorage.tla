---------------------------- MODULE ObjectStorage ----------------------------
(***************************************************************************)
(* The base storages of temporary networks: S3ReservationsStorage,            *)
(* AzureBlobReservationsStorage and LocalReservationsStorage.  A batch of     *)
(* reservations is written object by object; a thread sweeps the expired     *)
(* ones out, page by page, while requests read and another server process    *)
(* sweeps the same store.  Under the prefix there may be objects nobody here  *)
(* wrote: `strays', of a newer schema or none.                               *)
(***************************************************************************)
EXTENDS Integers, FiniteSets

CONSTANTS
  Kinds,        \* the storages, of "s3", "azure" and "local"
  Ids,          \* reservations, by number: the order of their keys
  Strays,       \* keys of objects nobody here wrote
  Shapes,       \* what may be in such an object
  MaxLifetime,  \* the longest lease
  Grace,        \* MALFORMED_OBJECT_GRACE_SECONDS
  PageSize,     \* max_keys_per_page
  MaxAttempts,  \* CREDENTIAL_RETRY_MAX_ATTEMPTS
  MaxTime, MaxFailures   \* bounds on the clock and on the failed calls

ObjectAssumption ==
  /\ Ids \cup Strays \subseteq Nat \ {0} /\ Ids \cap Strays = {} /\ IsFiniteSet(Ids \cup Strays)
  /\ Kinds \subseteq {"s3", "azure", "local"}
  /\ Shapes \subseteq {"reservation", "foreign", "nullmeta", "text", "bytes"}
  /\ {MaxLifetime, PageSize, MaxAttempts} \subseteq Nat \ {0}
  /\ Grace \in Nat /\ Grace >= MaxLifetime /\ {MaxTime, MaxFailures} \subseteq Nat

VARIABLES
  kind,      \* the storage
  now,       \* the clock
  objects,   \* the object at each key, or NoObject
  leases,    \* when each reservation expires
  writer,    \* the batch being written
  sweep,     \* the pass of the expiration thread
  failures   \* failed calls so far

objectVars == <<kind, now, objects, leases, writer, sweep, failures>>

\* AzureBlobReservationsWriter names a blob by the bare id, without the prefix
\* that get_reservation_id() puts before it: such a key is written -i.
Keys == Ids \cup Strays \cup {-i : i \in Ids}
KeyWritten(i) == IF kind = "azure" THEN -i ELSE i

NoObject == [shape |-> "none", expiration |-> 0, modified |-> 0]
Stored(i) == [shape |-> "reservation", expiration |-> leases[i], modified |-> now]
Present == {k \in Keys : objects[k] # NoObject}

First(S) == CHOOSE k \in S : \A j \in S : k <= j
Last(S) == CHOOSE k \in S : \A j \in S : k >= j

\* The next page of a listing of S, in the order of the keys.
Page(S) == {k \in S : Cardinality({j \in S : j < k}) < PageSize}

Start == First(Keys) - 1   \* before every key
Idle == [pc |-> "idle", time |-> 0, token |-> Start, page |-> {}, doomed |-> {}, attempt |-> 1, clean |-> TRUE]

Init ==
  /\ kind \in Kinds /\ now = 0 /\ failures = 0
  /\ leases \in [Ids -> 1..MaxLifetime]
  /\ \E stray \in [Strays -> [shape : Shapes, expiration : -MaxLifetime..MaxLifetime, modified : {-MaxLifetime, 0}]] :
       /\ \A k \in Strays : stray[k].expiration <= stray[k].modified + MaxLifetime
       /\ objects = [k \in Keys |-> IF k \in Strays THEN stray[k] ELSE NoObject]
  /\ writer = [pc |-> "writing", todo |-> Ids, attempt |-> 1]
  /\ sweep = Idle

Tick ==
  /\ now < MaxTime /\ now' = now + 1
  /\ UNCHANGED <<kind, objects, leases, writer, sweep, failures>>

Fails == failures < MaxFailures /\ failures' = failures + 1
-----------------------------------------------------------------------------
(* add_reservations(): in order, or concurrently in LocalReservationsStorage *)

Put(i) ==
  /\ writer.pc = "writing" /\ i \in writer.todo
  /\ objects' = [objects EXCEPT ![KeyWritten(i)] = Stored(i)]
  /\ writer' = [writer EXCEPT !.todo = @ \ {i}, !.pc = IF writer.todo = {i} THEN "returned" ELSE @]
  /\ UNCHANGED <<kind, now, leases, sweep, failures>>

\* S3 and Azure: one after the other.
PutOne(i) == kind # "local" /\ writer.todo # {} /\ i = First(writer.todo) /\ Put(i)

\* Files are written by threads, and replace what was there at once.
WriteOne(i) == kind = "local" /\ Put(i)

\* Mutant: the next attempt goes on with the reservation after the rejected one.
GoOnWithTheNext(w) ==
  LET rest == w.todo \ {First(w.todo)}
  IN [w EXCEPT !.todo = rest, !.attempt = @ + 1, !.pc = IF rest = {} THEN "returned" ELSE @]

\* retry_with_new_client(): the whole batch is written again.
WriteAgain(w) == [w EXCEPT !.todo = Ids, !.attempt = @ + 1]

\* A put that is out of retries raises; the reservations before it are stored.
PutFails ==
  /\ kind # "local" /\ writer.pc = "writing" /\ Fails
  /\ writer' = [writer EXCEPT !.pc = "raised", !.todo = {}]
  /\ UNCHANGED <<kind, now, objects, leases, sweep>>

\* gather() raises the first failure; the other threads go on.
WriteFails ==
  /\ kind = "local" /\ writer.pc = "writing" /\ Fails
  /\ writer' = [writer EXCEPT !.pc = "raised"]
  /\ UNCHANGED <<kind, now, objects, leases, sweep>>

\* S3 rejects the credentials of the batch's client.
PutRejected ==
  /\ kind = "s3" /\ writer.pc = "writing" /\ writer.attempt < MaxAttempts /\ Fails
  /\ writer' = WriteAgain(writer)
  /\ UNCHANGED <<kind, now, objects, leases, sweep>>

\* The writes of a local batch that raised are not cancelled.
PutLate(i) ==
  /\ kind = "local" /\ writer.pc = "raised" /\ i \in writer.todo
  /\ objects' = [objects EXCEPT ![i] = Stored(i)]
  /\ writer' = [writer EXCEPT !.todo = @ \ {i}]
  /\ UNCHANGED <<kind, now, leases, sweep, failures>>
-----------------------------------------------------------------------------
(* get_one_reservation(): the network it returns, "none" or "raises" *)

S3Found(o) ==
  CASE o.shape = "bytes" -> "raises" [] o.shape = "reservation" -> "network" [] OTHER -> "none"

\* The reader returns the metadata where a network is expected.
AzureFound(o) == IF o.shape = "reservation" THEN "metadata" ELSE "none"

\* The only reader that looks at the expiration.
LocalFound(o) ==
  CASE o.shape = "bytes" -> "raises"
    [] o.shape = "reservation" /\ now <= o.expiration -> "network"
    [] OTHER -> "none"

Found(i) ==
  CASE kind = "s3" -> S3Found(objects[i]) [] kind = "azure" -> AzureFound(objects[i])
    [] kind = "local" -> LocalFound(objects[i])
-----------------------------------------------------------------------------
(* expire_reservations() *)

\* Mutant: what does not parse counts as expired.
DeleteMalformed(o, time) == "delete"

\* handle_malformed_object()
Malformed(o, time) == IF time - o.modified <= Grace THEN "keep" ELSE "delete"

Expired(o, time) == time > o.expiration

Due(o, time) == IF Expired(o, time) THEN "delete" ELSE "keep"

\* What a pass does about an object it could read: "keep", "delete", or
\* "raise" when an exception that nobody catches ends the pass.
S3Verdict(o, time) ==
  CASE o.shape = "reservation" -> Due(o, time)
    [] o.shape \in {"foreign", "nullmeta"} -> Malformed(o, time)
    [] o.shape = "bytes" -> "raise"
    [] OTHER -> "keep"

AzureVerdict(o, time) ==
  CASE o.shape = "reservation" -> Due(o, time) [] o.shape = "nullmeta" -> "raise" [] OTHER -> "keep"

LocalVerdict(o, time) ==
  CASE o.shape = "reservation" -> Due(o, time) [] o.shape = "bytes" -> "raise" [] OTHER -> "keep"

Verdict(o, time) ==
  CASE kind = "s3" -> S3Verdict(o, time) [] kind = "azure" -> AzureVerdict(o, time)
    [] kind = "local" -> LocalVerdict(o, time)

BeginSweep ==
  /\ sweep.pc = "idle"
  /\ sweep' = [Idle EXCEPT !.pc = "list", !.time = now]
  /\ UNCHANGED <<kind, now, objects, leases, writer, failures>>

ListPage ==
  /\ sweep.pc = "list"
  /\ LET rest == {k \in Present : k > sweep.token} IN
       sweep' = IF rest # {} THEN [sweep EXCEPT !.pc = "get", !.page = Page(rest), !.token = Last(Page(rest))]
                ELSE [sweep EXCEPT !.pc = IF sweep.doomed = {} THEN "ended" ELSE "batch"]
  /\ UNCHANGED <<kind, now, objects, leases, writer, failures>>

\* Mutant: the rest of the page is skipped.
NextPage(s) == [s EXCEPT !.page = {}, !.pc = "list"]

\* On to the next object of the page, or to the next page.
Onward(s) ==
  LET page == s.page \ {First(s.page)} IN [s EXCEPT !.page = page, !.pc = IF page = {} THEN "list" ELSE "get"]

Examine ==
  /\ sweep.pc = "get"
  /\ LET k == First(sweep.page)
         verdict == Verdict(objects[k], sweep.time)
     IN sweep' = CASE objects[k] = NoObject -> Onward(sweep)
                   [] verdict = "raise" -> [sweep EXCEPT !.pc = "ended"]
                   [] verdict = "delete" /\ kind = "azure" -> [Onward(sweep) EXCEPT !.doomed = @ \cup {k}]
                   [] verdict = "delete" /\ kind # "azure" -> [sweep EXCEPT !.pc = "delete"]
                   [] OTHER -> Onward(sweep)
  /\ UNCHANGED <<kind, now, objects, leases, writer, failures>>

\* delete_object(), os.remove(): an object that is gone already is as good.
DeleteOne ==
  /\ sweep.pc = "delete"
  /\ objects' = [objects EXCEPT ![First(sweep.page)] = NoObject]
  /\ sweep' = Onward(sweep)
  /\ UNCHANGED <<kind, now, leases, writer, failures>>

\* container.delete_blobs(), which may fail for some of the blobs.
DeleteBatch ==
  /\ sweep.pc = "batch"
  /\ \E gone \in SUBSET sweep.doomed :
       /\ IF gone = sweep.doomed THEN UNCHANGED failures ELSE Fails
       /\ objects' = [k \in Keys |-> IF k \in gone THEN NoObject ELSE objects[k]]
       /\ sweep' = [sweep EXCEPT !.pc = "ended", !.clean = @ /\ gone = sweep.doomed]
  /\ UNCHANGED <<kind, now, leases, writer>>

\* An object's call fails, and the pass goes on with the next one.
SkipObject ==
  /\ sweep.pc \in {"get", "delete"} /\ Fails
  /\ sweep' = [Onward(sweep) EXCEPT !.clean = FALSE]
  /\ UNCHANGED <<kind, now, objects, leases, writer>>

\* The listing fails, or S3 cannot be reached: the error ends the pass.
PassFails ==
  /\ sweep.pc = "list" \/ (kind = "s3" /\ sweep.pc \in {"get", "delete"})
  /\ Fails
  /\ sweep' = [sweep EXCEPT !.pc = "ended", !.clean = FALSE]
  /\ UNCHANGED <<kind, now, objects, leases, writer>>

\* S3 rejects the credentials: retry_with_new_client() begins the pass again.
PassRejected ==
  /\ kind = "s3" /\ sweep.pc \in {"list", "get", "delete"} /\ sweep.attempt < MaxAttempts /\ Fails
  /\ sweep' = [Idle EXCEPT !.pc = "list", !.time = now, !.attempt = sweep.attempt + 1]
  /\ UNCHANGED <<kind, now, objects, leases, writer>>

\* _run_loop(): whatever the pass raised, the next one comes.
NextSweep ==
  /\ sweep.pc = "ended" /\ now > sweep.time
  /\ sweep' = Idle
  /\ UNCHANGED <<kind, now, objects, leases, writer, failures>>

\* Another server process sweeps the same store.
ExpireElsewhere ==
  /\ \E k \in Present :
       /\ objects[k].shape = "reservation" /\ Expired(objects[k], now)
       /\ objects' = [objects EXCEPT ![k] = NoObject]
  /\ UNCHANGED <<kind, now, leases, writer, sweep, failures>>

SweepStep ==
  \/ BeginSweep \/ ListPage \/ Examine \/ DeleteOne \/ DeleteBatch
  \/ SkipObject \/ PassFails \/ PassRejected \/ NextSweep

Next ==
  \/ Tick \/ PutFails \/ WriteFails \/ PutRejected \/ SweepStep \/ ExpireElsewhere
  \/ \E i \in Ids : PutOne(i) \/ WriteOne(i) \/ PutLate(i)
-----------------------------------------------------------------------------
(* Properties *)

TypeOK ==
  /\ kind \in Kinds /\ now \in 0..MaxTime /\ failures \in 0..MaxFailures
  /\ \A k \in Keys : objects[k].shape \in Shapes \cup {"reservation", "none"}
  /\ writer.pc \in {"writing", "returned", "raised"} /\ writer.attempt \in 1..MaxAttempts
  /\ sweep.pc \in {"idle", "list", "get", "delete", "batch", "ended"} /\ sweep.attempt \in 1..MaxAttempts
  /\ sweep.doomed \subseteq Keys

\* No pass deletes an object under a lease, of this schema or of a newer one.
LeasedStay ==
  \A k \in Keys : objects[k] # NoObject /\ objects'[k] = NoObject => now > objects[k].expiration

\* What add_reservations() returned from is found by get_one_reservation() as
\* long as its lease lasts, with its network.  In Azure, where it is written under
\* one name and looked for under another, it is never found at all.
AddedAreFound ==
  writer.pc = "returned" =>
    \A i \in Ids : now <= leases[i] => Found(i) = IF kind = "azure" THEN "none" ELSE "network"

LeftBehind(o) == o.shape = "reservation" /\ sweep.time > o.expiration /\ o.modified < sweep.time

\* An object that ends the pass is listed before k.  Azure's blobs are deleted
\* after the last of them is listed: there k may as well be listed before it.
EndedBefore(k) ==
  \E j \in Present : Verdict(objects[j], sweep.time) = "raise" /\ (j < k \/ kind = "azure")

\* A pass without failed calls leaves nothing that expired before it began, but
\* for what comes after an object that ends the pass.
SweptClean ==
  sweep.pc = "ended" /\ sweep.clean => \A k \in Present : LeftBehind(objects[k]) => EndedBefore(k)

\* A pass without failed calls leaves nothing that expired before it began,
\* whatever else it meets.
BadOnesArePassed ==
  sweep.pc = "ended" /\ sweep.clean => \A k \in Present : ~LeftBehind(objects[k])
=============================================================================
