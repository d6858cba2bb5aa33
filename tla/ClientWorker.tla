---------------------------- MODULE ClientWorker ----------------------------
(***************************************************************************)
(* The workers that hand S3 clients to the reservation storage while the     *)
(* credentials are rotated under them: AwsSyncClientWorker, whose threads     *)
(* share one long-lived client and the session it came from, and              *)
(* AwsAsyncClientWorker, whose tasks share the session and make a client per  *)
(* call.  Credentials are numbered; the chain resolves to None (0) while     *)
(* their file is being rewritten.                                            *)
(* Making a client or a session is one step: both workers do it under a lock. *)
(***************************************************************************)
EXTENDS Integers, FiniteSets

CONSTANTS
  Workers,      \* the kinds of worker, of "sync" and "async"
  Threads,      \* the threads, or tasks, that call S3
  MaxAttempts,  \* CREDENTIAL_RETRY_MAX_ATTEMPTS
  MaxTries,     \* max_attempts of do_with_retries()
  MaxRotations  \* bound on the rotations

WorkerAssumption ==
  Workers \subseteq {"sync", "async"} /\ {MaxAttempts, MaxTries} \subseteq Nat \ {0} /\ MaxRotations \in Nat

VARIABLES
  worker,    \* the kind of worker
  chain,     \* what the credential chain resolves to: 0 is None
  accepted,  \* the credentials S3 accepts
  session,   \* the worker's session: its number and resolved credentials
  client,    \* the worker's long-lived client, if it is "sync"
  made,      \* how many sessions and clients were made
  calls      \* the call of each thread

workerVars == <<worker, chain, accepted, session, client, made, calls>>

Nothing == [id |-> 0, cred |-> 0]

Init ==
  /\ worker \in Workers
  /\ chain = 1 /\ accepted = 1
  /\ session = Nothing /\ client = Nothing /\ made = 0
  /\ calls = [t \in Threads |-> [pc |-> "get", attempt |-> 1, tries |-> 1,
                                 own |-> Nothing, cred |-> 0]]

\* The token expires or is replaced: another process rewrites its file.
Expire ==
  /\ accepted <= MaxRotations /\ accepted = chain
  /\ accepted' = accepted + 1
  /\ UNCHANGED <<worker, chain, session, client, made, calls>>

Rewrite ==
  /\ chain # accepted
  /\ chain' \in {0, accepted} \ {chain}
  /\ UNCHANGED <<worker, accepted, session, client, made, calls>>

ChainOnly == UNCHANGED <<worker, chain, accepted>>

\* What a session resolves, once: a result of None is resolved again.
Resolved(s) == IF s.cred = 0 THEN chain ELSE s.cred
-----------------------------------------------------------------------------
(* AwsSyncClientWorker.get_client() *)

\* The read without the lock.
GetCachedClient(t) ==
  /\ worker = "sync" /\ calls[t].pc = "get"
  /\ calls' = [calls EXCEPT ![t] =
       IF client # Nothing THEN [@ EXCEPT !.pc = "work", !.own = client, !.cred = client.cred]
       ELSE [@ EXCEPT !.pc = "lock"]]
  /\ ChainOnly /\ UNCHANGED <<session, client, made>>

\* Mutant: a client is made whatever the chain resolves to.
PoisonTheCache(t) ==
  /\ worker = "sync" /\ calls[t].pc = "lock" /\ client = Nothing
  /\ LET s == IF session = Nothing THEN [id |-> made + 1, cred |-> 0] ELSE session
         built == [id |-> made + 2, cred |-> Resolved(s)]
     IN /\ session' = [s EXCEPT !.cred = Resolved(s)]
        /\ client' = built /\ made' = made + 2
        /\ calls' = [calls EXCEPT ![t].pc = "work", ![t].own = built, ![t].cred = built.cred]
  /\ ChainOnly

\* Under the lock: somebody else made it, the chain is empty, or it is made now.
MakeClient(t) ==
  /\ worker = "sync" /\ calls[t].pc = "lock"
  /\ LET s == IF session = Nothing THEN [id |-> made + 1, cred |-> 0] ELSE session
         built == [id |-> made + 2, cred |-> Resolved(s)]
     IN \/ /\ client # Nothing
           /\ calls' = [calls EXCEPT ![t].pc = "work", ![t].own = client, ![t].cred = client.cred]
           /\ UNCHANGED <<session, client, made>>
        \/ /\ client = Nothing /\ Resolved(s) = 0
           /\ session' = s /\ made' = made + 2
           /\ calls' = [calls EXCEPT ![t].pc = "rejected", ![t].own = Nothing]
           /\ UNCHANGED client
        \/ /\ client = Nothing /\ Resolved(s) # 0
           /\ session' = [s EXCEPT !.cred = Resolved(s)]
           /\ client' = built /\ made' = made + 2
           /\ calls' = [calls EXCEPT ![t].pc = "work", ![t].own = built, ![t].cred = built.cred]
  /\ ChainOnly
-----------------------------------------------------------------------------
(* AwsAsyncClientWorker: get_or_create_session(), do_work_with_new_client() *)

GetSession(t) ==
  /\ worker = "async" /\ calls[t].pc = "get"
  /\ LET s == IF session = Nothing THEN [id |-> made + 1, cred |-> 0] ELSE session
     IN /\ session' = s
        /\ made' = IF session = Nothing THEN made + 1 ELSE made
        /\ calls' = [calls EXCEPT ![t].pc = "client", ![t].own = s]
  /\ ChainOnly /\ UNCHANGED client

\* The client of one call signs with what its session has resolved.
MakeOwnClient(t) ==
  /\ worker = "async" /\ calls[t].pc = "client"
  /\ LET own == IF session.id = calls[t].own.id THEN session ELSE calls[t].own
         s == [own EXCEPT !.cred = Resolved(own)]
     IN /\ session' = IF session.id = s.id THEN s ELSE session
        /\ calls' = [calls EXCEPT ![t].pc = "work", ![t].own = s, ![t].cred = s.cred]
  /\ ChainOnly /\ UNCHANGED <<client, made>>
-----------------------------------------------------------------------------
(* The work, and what becomes of it *)

\* S3 answers: done, credentials rejected, or an error of do_with_retries().
Work(t) ==
  LET c == calls[t] IN
  /\ c.pc = "work"
  /\ \/ c.cred = accepted /\ calls' = [calls EXCEPT ![t].pc = "done"]
     \/ c.cred # accepted /\ calls' = [calls EXCEPT ![t].pc = "rejected"]
     \/ c.tries < MaxTries /\ calls' = [calls EXCEPT ![t].tries = @ + 1]
     \/ c.tries = MaxTries /\ calls' = [calls EXCEPT ![t].pc = "raised"]
  /\ ChainOnly /\ UNCHANGED <<session, client, made>>

\* Mutant: every failure resets, whoever has made a new client since.
ResetAlways(own) == client' = Nothing /\ session' = Nothing

\* Mutant: the session stays, with the credentials it has resolved.
ResetOnlyTheClient(own) ==
  /\ client' = IF worker = "sync" /\ client = own THEN Nothing ELSE client
  /\ session' = IF worker = "async" /\ session.id = own.id THEN Nothing ELSE session

\* reset_client() of what the attempt failed with; nothing if none was made.
Reset(own) ==
  LET mine == IF worker = "sync" THEN client # Nothing /\ client.id = own.id
              ELSE session # Nothing /\ session.id = own.id
  IN IF mine THEN client' = Nothing /\ session' = Nothing ELSE UNCHANGED <<client, session>>

\* Mutant: the last rejection is neither raised nor followed by another attempt.
NeverGivesUp(c) == IF c.attempt < MaxAttempts THEN "get" ELSE "rejected"

\* After a rejection: another attempt after a pause, or the error is raised.
AfterRejection(c) == IF c.attempt < MaxAttempts THEN "get" ELSE "exhausted"

Rejected(t) ==
  /\ calls[t].pc = "rejected"
  /\ Reset(calls[t].own)
  /\ calls' = [calls EXCEPT ![t].pc = AfterRejection(calls[t]), ![t].tries = 1,
                            ![t].attempt = IF @ < MaxAttempts THEN @ + 1 ELSE @]
  /\ ChainOnly /\ UNCHANGED made

\* One thread's next step.
CallStep(t) ==
  GetCachedClient(t) \/ MakeClient(t) \/ GetSession(t) \/ MakeOwnClient(t) \/ Work(t) \/ Rejected(t)

Next == Expire \/ Rewrite \/ \E t \in Threads : CallStep(t)
-----------------------------------------------------------------------------
(* Properties *)

TypeOK ==
  /\ worker \in Workers /\ chain \in 0..MaxRotations + 1 /\ accepted \in 1..MaxRotations + 1
  /\ \A t \in Threads :
       /\ calls[t].pc \in {"get", "lock", "client", "work", "rejected", "done", "raised", "exhausted"}
       /\ calls[t].attempt \in 1..MaxAttempts /\ calls[t].tries \in 1..MaxTries

\* The shared client can sign, and with what its session has resolved.
ClientIsUsable == client # Nothing => client.cred # 0 /\ client.cred = session.cred

\* A new shared client carries what the chain resolves to at that moment, never
\* what was resolved before a rejection.
NewClientsAreFresh ==
  client' # client /\ client' # Nothing => client'.cred = chain

\* Threads that failed on an old client do not discard the new one.
OnlyFailedOnesAreDiscarded ==
  \A r \in {"client", "session"} :
       LET old == IF r = "client" THEN client ELSE session
           new == IF r = "client" THEN client' ELSE session'
       IN old # Nothing /\ new = Nothing /\ (r = "client") = (worker = "sync") =>
            \E t \in Threads : calls[t].pc = "rejected" /\ calls[t].own.id = old.id

\* Every call ends, whatever becomes of the credentials.
Ended == \A t \in Threads : calls[t].pc \in {"done", "raised", "exhausted"}
=============================================================================
