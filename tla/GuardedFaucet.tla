--------------------------- MODULE GuardedFaucet ---------------------------
(***************************************************************************)
(* The faucet: request handlers put mint instructions into a bounded       *)
(* queue, and one thread takes them in batches, lets each account mint     *)
(* from each faucet once in a while, and submits one transaction per       *)
(* faucet.  The handlers run on other threads; what the faucet thread does *)
(* for one faucet touches only its own state and is one step.              *)
(***************************************************************************)
EXTENDS Integers, Sequences, SequencesExt

CONSTANTS
  Users,      \* accounts that ask for tokens
  Pools,      \* the faucets of the configured liquidity pools, in order
  Unknown,    \* a faucet that no pool has
  QueueSize,  \* capacity of the instruction channel
  Limit,      \* instructions taken at once
  Guard,      \* time between two mints for one account and faucet
  Word,       \* the number of values of a u64
  Faults,     \* what may go wrong outside: subset of {"note", "tx", "sync"}
  MaxRequests, MaxTime   \* bounds

Faucets == Range(Pools)

ASSUME FaucetAssumption ==
  /\ QueueSize \in Nat \ {0} /\ Limit \in Nat \ {0}
  /\ Guard \in Nat /\ MaxRequests \in Nat /\ MaxTime \in Nat
  /\ Word \in Nat /\ Word > Guard + MaxTime + 1
  /\ Pools \in Seq(Faucets) /\ Unknown \notin Faucets
  /\ Faults \subseteq {"note", "tx", "sync"}

VARIABLES
  now,         \* seconds of the clock
  requests,    \* the instructions of the requests that passed the handler's checks
  senders,     \* handlers that wait for room in the queue, by request, in order
  queue,       \* the channel
  batch,       \* instructions: what recv_many returned
  pool,        \* the pool the thread is at, 0 while it waits for instructions
  recipients,  \* GuardedFaucet::recipients
  outcome,     \* observer: what became of each request
  minted,      \* observer: the mints that were submitted, with the guard's time stamp
  down         \* the process has exited

vars == <<now, requests, senders, queue, batch, pool, recipients, outcome, minted, down>>

Request  == [user : Users, faucet : Faucets]
Ids      == DOMAIN requests
Outcomes == {"asked", "cancelled", "queued", "guarded", "unmade", "lost", "minted"}

TypeOK ==
  /\ now \in Nat /\ down \in BOOLEAN
  /\ requests \in Seq(Request) /\ Len(requests) <= MaxRequests
  /\ Range(senders) \cup Range(queue) \cup Range(batch) \subseteq Ids
  /\ Len(queue) <= QueueSize /\ Len(batch) <= Limit
  /\ pool \in 0..Len(Pools)
  /\ recipients \in [Users \X Faucets -> 0..now]
  /\ outcome \in [Ids -> Outcomes]
  /\ \A m \in minted : m.id \in Ids /\ m.at \in 0..now

\* The clock shows more than the guard's time from the start.
Init ==
  /\ now = Guard + 1
  /\ requests = <<>> /\ senders = <<>> /\ queue = <<>> /\ batch = <<>>
  /\ pool = 0 /\ down = FALSE
  /\ recipients = [k \in Users \X Faucets |-> 0]
  /\ outcome = <<>> /\ minted = {}

Tick ==
  /\ ~down /\ now <= Guard + MaxTime
  /\ now' = now + 1
  /\ UNCHANGED <<requests, senders, queue, batch, pool, recipients, outcome, minted, down>>

-----------------------------------------------------------------------------
(* POST faucets/mint *)

\* A faucet without a pool is refused at once.
mint_faucet(user, faucet) ==
  /\ ~down /\ Len(requests) < MaxRequests
  /\ faucet \in Faucets
  /\ requests' = Append(requests, [user |-> user, faucet |-> faucet])
  /\ outcome' = Append(outcome, "asked")
  /\ senders' = Append(senders, Len(requests'))
  /\ UNCHANGED <<now, queue, batch, pool, recipients, minted, down>>

\* Fault: a queue without bound.
Enqueue_unbounded ==
  /\ ~down /\ senders # <<>>
  /\ queue' = Append(queue, Head(senders))
  /\ senders' = Tail(senders)
  /\ outcome' = [outcome EXCEPT ![Head(senders)] = "queued"]
  /\ UNCHANGED <<now, requests, batch, pool, recipients, minted, down>>

\* Sender::send has got a place: the client is answered success.
Enqueue ==
  /\ ~down /\ senders # <<>> /\ Len(queue) < QueueSize
  /\ queue' = Append(queue, Head(senders))
  /\ senders' = Tail(senders)
  /\ outcome' = [outcome EXCEPT ![Head(senders)] = "queued"]
  /\ UNCHANGED <<now, requests, batch, pool, recipients, minted, down>>

\* A client that hangs up takes its waiting handler with it.
HangUp(i) ==
  /\ ~down /\ i \in DOMAIN senders
  /\ senders' = RemoveAt(senders, i)
  /\ outcome' = [outcome EXCEPT ![senders[i]] = "cancelled"]
  /\ UNCHANGED <<now, requests, queue, batch, pool, recipients, minted, down>>

-----------------------------------------------------------------------------
(* The faucet thread: one iteration of GuardedFaucet::start *)

\* Fault: everything is taken from the queue, and only the limit is kept.
recv_many_drains ==
  /\ ~down /\ pool = 0 /\ queue # <<>>
  /\ batch' = SubSeq(queue, 1, IF Len(queue) < Limit THEN Len(queue) ELSE Limit)
  /\ queue' = <<>>
  /\ pool' = 1
  /\ UNCHANGED <<now, requests, senders, recipients, outcome, minted, down>>

\* Fault: the thread waits for a full batch.
recv_many_full ==
  /\ ~down /\ pool = 0 /\ Len(queue) >= Limit
  /\ batch' = SubSeq(queue, 1, Limit)
  /\ queue' = SubSeq(queue, Limit + 1, Len(queue))
  /\ pool' = 1
  /\ UNCHANGED <<now, requests, senders, recipients, outcome, minted, down>>

recv_many ==
  /\ ~down /\ pool = 0 /\ queue # <<>>
  /\ LET n == IF Len(queue) < Limit THEN Len(queue) ELSE Limit
     IN  /\ batch' = SubSeq(queue, 1, n)
         /\ queue' = SubSeq(queue, n + 1, Len(queue))
  /\ pool' = 1
  /\ UNCHANGED <<now, requests, senders, recipients, outcome, minted, down>>

NextPool ==
  IF pool = Len(Pools) THEN pool' = 0 /\ batch' = <<>> ELSE pool' = pool + 1 /\ UNCHANGED batch

\* One failed sync ends the loop, and with it the process.
SyncFails ==
  /\ ~down /\ pool # 0
  /\ "sync" \in Faults
  /\ down' = TRUE
  /\ UNCHANGED <<now, requests, senders, queue, batch, pool, recipients, outcome, minted>>

Key(id) == <<requests[id].user, requests[id].faucet>>

\* The subtraction of u64 wraps.
can_mint(last_mint) == (now - last_mint) % Word > Guard

\* The instructions of the batch for this pool's faucet, by their places, and
\* those whose recipient was free to mint when the pool's turn came.
Mine == {i \in DOMAIN batch : requests[batch[i]].faucet = Pools[pool]}
Free == {i \in Mine : can_mint(recipients[Key(batch[i])])}

SameKey(i, j) == Key(batch[i]) = Key(batch[j])

\* Fault: the recipient is marked before its note is made.
Noted_eager(unmade) == {i \in Free : \A j \in Free : j < i => ~SameKey(i, j)}

\* The loop makes a note for the first free instruction of a recipient it can
\* make one for, and marks the recipient then.
Noted(unmade) ==
  {i \in Free : /\ batch[i] \notin unmade
                /\ \A j \in Free : j < i /\ SameKey(i, j) => batch[j] \in unmade}

\* Fault: every instruction is compared with the recipients as they were when
\* the batch began.
Guarded_stale(unmade) == Mine \ Free

\* It refuses a recipient marked long ago, or marked earlier in the batch.
Guarded(unmade) ==
  {i \in Mine : i \notin Free \/ \E j \in Noted(unmade) : j < i /\ SameKey(i, j)}

\* The instructions of one pool's faucet after a sync, and its transaction.
\* unmade: the instructions no note can be made for; ok: the transaction goes
\* through.
MintForPool(unmade, ok) ==
  /\ ~down /\ pool # 0
  /\ unmade \subseteq {batch[i] : i \in Mine}
  /\ unmade # {} => "note" \in Faults
  /\ ~ok => "tx" \in Faults
  /\ LET asked   == {batch[i] : i \in Mine}
         guarded == {batch[i] : i \in Guarded(unmade)}
         notes   == asked \ (guarded \cup unmade)
     IN  /\ recipients' = [k \in Users \X Faucets |->
              IF \E i \in Noted(unmade) : Key(batch[i]) = k THEN now ELSE recipients[k]]
         /\ outcome' = [id \in Ids |->
              IF id \in notes THEN IF ok THEN "minted" ELSE "lost"
              ELSE IF id \in guarded THEN "guarded"
              ELSE IF id \in unmade THEN "unmade"
              ELSE outcome[id]]
         /\ minted' = IF ok THEN minted \cup {[id |-> id, at |-> now] : id \in notes} ELSE minted
  /\ NextPool
  /\ UNCHANGED <<now, requests, senders, queue, down>>

-----------------------------------------------------------------------------
FaucetThread ==
  \/ recv_many \/ SyncFails
  \/ \E unmade \in SUBSET Range(batch), ok \in BOOLEAN : MintForPool(unmade, ok)

Next ==
  \/ Tick \/ Enqueue \/ FaucetThread
  \/ \E user \in Users, faucet \in Faucets \cup {Unknown} : mint_faucet(user, faucet)
  \/ \E i \in DOMAIN senders : HangUp(i)

Spec == Init /\ [][Next]_vars

\* The faucet's thread runs as long as the process does, and the channel gives
\* a place that is free to the handler that waits for it.
FairSpec == Spec /\ WF_vars(FaucetThread) /\ WF_vars(Enqueue)

-----------------------------------------------------------------------------
(* Properties *)

\* An account does not get tokens of one faucet twice within the guard's time,
\* also not with several requests in one batch or over several batches.  The
\* times are those the guard compares; the transaction is submitted some awaits
\* later, so two submissions may be somewhat closer.
MintsSpaced ==
  \A m, n \in minted :
    m # n /\ Key(m.id) = Key(n.id) => m.at > n.at + Guard \/ n.at > m.at + Guard

\* A request is refused by the guard only if a note was made for the same
\* account and faucet at most the guard's time ago, which may have been lost
\* with a failed transaction.
RefusalsJustified ==
  [][\A id \in Ids :
       outcome'[id] = "guarded" /\ outcome[id] # "guarded" =>
         \E other \in Ids : /\ Key(other) = Key(id)
                            /\ outcome'[other] \in {"minted", "lost"}
                            /\ now <= recipients'[Key(id)] + Guard]_vars

\* A request that was answered success is in the queue or the batch until its
\* fate is decided, and in one place only: none is dropped, none is served twice.
AcceptedOnce ==
  LET held == batch \o queue
  IN  /\ \A id \in Ids : outcome[id] = "queued" => id \in Range(held)
      /\ \A i, j \in DOMAIN held : held[i] = held[j] => i = j
      /\ \A i \in DOMAIN queue : outcome[queue[i]] = "queued"

\* Every accepted request is decided in the end, unless the process exits.
AcceptedIsDecided ==
  LET accepted(id) == id \in Ids /\ outcome[id] = "queued"
  IN  \A id \in 1..MaxRequests : accepted(id) ~> (down \/ ~accepted(id))
=============================================================================
