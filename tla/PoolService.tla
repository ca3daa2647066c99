----------------------------- MODULE PoolService -----------------------------
(***************************************************************************)
(* The pools of synthetic-service: a list in memory, filled by the admin's *)
(* requests and by hydratePoolsFromChain, which reads the contract's pools *)
(* one after the other, every value with an awaited read of its own, and   *)
(* starts again every 15 seconds whether or not the last reading is over.  *)
(* Composed with the contract, whose callers go on meanwhile.  Statistics  *)
(* (value locked, volume, APR) are left out.                               *)
(***************************************************************************)
EXTENDS SyntheticAMM, SequencesExt

CONSTANTS Creators,      \* requests to create a pool at a time
          Readers,       \* hydrations under way at a time
          Backend,       \* the account of DCC_SEED
          DefaultFee,    \* the fee rate readPool assumes
          NaN,           \* what a division by zero makes of a number
          Budgets        \* bounds, one of which a behaviour keeps to: [calls |-> transactions of others,
                         \* requests |-> admin requests, faults |-> faults, ready |-> whether the node may
                         \* be reached at a start]

ASSUME PoolServiceAssumption ==
  Backend \in Users /\ DefaultFee \in Nat /\ NaN \notin Int /\ Budgets \subseteq [calls : Nat, requests : Nat, faults : Nat, ready : SUBSET BOOLEAN]

VARIABLES chainReady,    \* the node was reached when the process started
          listening,     \* the first hydration is over: requests come in, and the timer is set
          entries,       \* POOLS
          creating,      \* POST /admin/pools waiting for its transaction
          reader,        \* hydratePoolsFromChain between two awaits
          calls, requests, faults

memVars  == <<chainReady, listening, entries, creating, reader>>
leftVars == <<calls, requests, faults>>
mirrorVars == <<ammVars, memVars, leftVars>>

Resting  == [pool |-> "none", a |-> 0, b |-> 0, conf |-> NoConf, step |-> "resting"]
Sleeping == [todo |-> <<>>, at |-> "asleep", status |-> ABSENT, a |-> 0]

PoolInit(budgets) ==
  /\ AmmInit
  /\ listening = FALSE
  /\ entries = <<>>
  /\ creating = [r \in Creators |-> Resting]
  /\ reader = [h \in Readers |-> Sleeping]
  /\ \E b \in budgets : calls = b.calls /\ requests = b.requests /\ faults = b.faults /\ chainReady \in b.ready

Fault == faults > 0 /\ faults' = faults - 1

\* POOLS.find
Known(p) == \E i \in DOMAIN entries : entries[i].pool = p
First(p) == CHOOSE i \in DOMAIN entries : entries[i].pool = p /\ \A j \in 1 .. i - 1 : entries[j].pool # p

Entry(p, a, b, n, c, s, by) == [pool |-> p, a |-> a, b |-> b, lp |-> n, conf |-> c, status |-> s, by |-> by]

-----------------------------------------------------------------------------
Requested ==
  /\ listening /\ requests > 0 /\ requests' = requests - 1
  /\ UNCHANGED <<ammVars, chainReady, listening, reader, calls, faults>>

\* POST /admin/pools until it awaits the transaction; without a chain it ends at once.
RequestPool(r, p, a, b, c) ==
  /\ Requested
  /\ c.fee \in 1 .. Bps /\ c.share \in 0 .. Bps
  /\ creating[r].step = "resting"
  /\ \/ /\ chainReady
        /\ creating' = [creating EXCEPT ![r] = [pool |-> p, a |-> a, b |-> b, conf |-> c, step |-> "sent"]]
        /\ UNCHANGED entries
     \/ /\ ~chainReady
        /\ entries' = Append(entries, Entry(p, a, b, Isqrt(a * b), c, "ACTIVE", "request"))
        /\ UNCHANGED creating

\* The transaction lands; the handler learns of it only later.
PoolLands(r) ==
  /\ creating[r].step = "sent"
  /\ CreatePool(Backend, creating[r].pool, creating[r].a, creating[r].b, creating[r].conf)
  /\ creating' = [creating EXCEPT ![r].step = "landed"]
  /\ UNCHANGED <<chainReady, listening, entries, reader, leftVars>>

Answered(r) == creating' = [creating EXCEPT ![r] = Resting]

\* The entry is pushed without a look at the list, where a hydration may have put the pool.
PoolConfirmed(r) ==
  LET q == creating[r] IN
  /\ q.step = "landed"
  /\ entries' = Append(entries, Entry(q.pool, q.a, q.b, Isqrt(q.a * q.b), q.conf, "ACTIVE", "request"))
  /\ Answered(r)
  /\ UNCHANGED <<ammVars, chainReady, listening, reader, leftVars>>

\* 500: the transaction was refused, or it landed and the wait for it timed out.
PoolRefused(r) ==
  /\ \/ creating[r].step = "sent" /\ UNCHANGED faults
     \/ creating[r].step = "landed" /\ Fault
  /\ Answered(r)
  /\ UNCHANGED <<ammVars, chainReady, listening, entries, reader, calls, requests>>

Amend(p, e) == entries' = [entries EXCEPT ![First(p)] = e] /\ UNCHANGED creating

\* POST /admin/pools/:id/liquidity: the share is taken from the first reserve alone, which may be nothing.
SyncLiquidity(p, a, b) ==
  /\ Requested /\ Known(p)
  /\ LET e == entries[First(p)] IN
       Amend(p, [e EXCEPT !.a = @ + a, !.b = @ + b,
                          !.lp = IF e.a = 0 \/ e.lp = NaN THEN NaN ELSE e.lp + Fraction(e.lp, a, e.a)])

\* PUT /admin/pools/:id and /status: nothing is sent to the contract.
AmendConf(p, c)   == Requested /\ Known(p) /\ Amend(p, [entries[First(p)] EXCEPT !.conf = c])
AmendStatus(p, s) == Requested /\ Known(p) /\ Amend(p, [entries[First(p)] EXCEPT !.status = s])

-----------------------------------------------------------------------------
\* hydratePoolsFromChain.
OnlyReader(h) ==
  /\ listening' = (listening \/ reader'[h].at = "asleep")
  /\ UNCHANGED <<ammVars, chainReady, creating, calls, requests>>

\* Every pool once, in the order in which they come first.
WithoutRepeats(s) ==
  LET firsts == {i \in DOMAIN s : \A j \in 1 .. i - 1 : s[j] # s[i]}
  IN  [k \in 1 .. Cardinality(firsts) |-> s[CHOOSE i \in firsts : Cardinality({j \in firsts : j < i}) = k - 1]]

\* main awaits the first reading before it listens and sets the timer.  One answer of the node
\* holds the whole list.
Wake(h) ==
  /\ chainReady /\ reader[h].at = "asleep"
  /\ listening \/ \A g \in Readers : reader[g].at = "asleep"
  /\ listed # <<>>
  /\ reader' = [reader EXCEPT ![h] = [Sleeping EXCEPT !.todo = WithoutRepeats(listed), !.at = "status"]]
  /\ OnlyReader(h) /\ UNCHANGED entries

\* The node was not reached at the start, its list is empty, or is not answered.
Listen ==
  /\ ~listening /\ \A h \in Readers : reader[h].at = "asleep"
  /\ \/ (~chainReady \/ listed = <<>>) /\ UNCHANGED faults
     \/ Fault
  /\ listening' = TRUE
  /\ UNCHANGED <<ammVars, chainReady, entries, creating, reader, calls, requests>>

NextPool(h) ==
  IF Len(reader[h].todo) = 1 THEN Sleeping ELSE [Sleeping EXCEPT !.todo = Tail(reader[h].todo), !.at = "status"]

\* A pool without a status is skipped; its entry, if any, stays as it is.
ReadStatus(h) ==
  LET p == Head(reader[h].todo) IN
  /\ reader[h].at = "status"
  /\ reader' = [reader EXCEPT ![h] =
       IF PoolExists(p) THEN [@ EXCEPT !.at = "reserve", !.status = status[p]] ELSE NextPool(h)]
  /\ OnlyReader(h) /\ UNCHANGED entries

ReadReserve(h) ==
  /\ reader[h].at = "reserve"
  /\ reader' = [reader EXCEPT ![h] = [@ EXCEPT !.at = "rest", !.a = resA[Head(reader[h].todo)]]]
  /\ OnlyReader(h) /\ UNCHANGED entries

\* Values that are missing by now get their defaults.
ConfRead(p) == IF PoolExists(p) THEN conf[p] ELSE [NoConf EXCEPT !.fee = DefaultFee]

\* What readPool returns when its last value arrives.
EntryRead(h) ==
  LET p == Head(reader[h].todo)
  IN  Entry(p, reader[h].a, resB[p], totalLp[p], ConfRead(p), IF reader[h].status = POOL_ACTIVE THEN "ACTIVE" ELSE "PAUSED", "hydration")

\* The same, with one value whose read failed and which got its default, or with all of them.
Defaulted(e) ==
  {[e EXCEPT !.b = 0], [e EXCEPT !.lp = 0], [e EXCEPT !.conf.fee = DefaultFee],
   [e EXCEPT !.conf.share = 0], [e EXCEPT !.conf.A = 0], [e EXCEPT !.conf.B = 0],
   [e EXCEPT !.b = 0, !.lp = 0, !.conf = [NoConf EXCEPT !.fee = DefaultFee]]}

\* Mutated form: the list is not searched for the pool.
StoresAlways(e) == entries' = Append(entries, e)

\* Mutated form: a known pool is left alone.
StoresOnlyNew(e) == entries' = IF Known(e.pool) THEN entries ELSE Append(entries, e)

\* The first entry of the pool is overwritten, or a new one pushed.
Stores(e) ==
  entries' = IF Known(e.pool) THEN [entries EXCEPT ![First(e.pool)] = [e EXCEPT !.by = entries[First(e.pool)].by]]
             ELSE Append(entries, e)

ReadRest(h) ==
  /\ reader[h].at = "rest"
  /\ Stores(EntryRead(h))
  /\ reader' = [reader EXCEPT ![h] = NextPool(h)]
  /\ OnlyReader(h)

\* readData answers null when a read fails, as for an entry that is not there, and the reading goes on.
ReadFails(h) ==
  /\ Fault
  /\ \/ /\ reader[h].at = "status"
        /\ reader' = [reader EXCEPT ![h] = NextPool(h)] /\ UNCHANGED entries
     \/ /\ reader[h].at = "reserve"
        /\ reader' = [reader EXCEPT ![h] = [@ EXCEPT !.at = "rest", !.a = 0]] /\ UNCHANGED entries
     \/ /\ reader[h].at = "rest"
        /\ \E e \in Defaulted(EntryRead(h)) : Stores(e)
        /\ reader' = [reader EXCEPT ![h] = NextPool(h)]
  /\ OnlyReader(h)

Hydrate(h) == (Wake(h) \/ ReadStatus(h) \/ ReadReserve(h) \/ ReadRest(h)) /\ UNCHANGED faults

-----------------------------------------------------------------------------
Restart ==
  /\ Fault
  /\ chainReady' \in BOOLEAN /\ listening' = FALSE
  /\ entries' = <<>>
  /\ creating' = [r \in Creators |-> Resting]
  /\ reader' = [h \in Readers |-> Sleeping]
  /\ UNCHANGED <<ammVars, calls, requests>>

CallAmm ==
  /\ calls > 0 /\ calls' = calls - 1
  /\ \E u \in Users : TraderNext(u) \/ AmmAdminNext(u)
  /\ UNCHANGED <<memVars, requests, faults>>

RequestNext ==
  \E p \in Pools :
    \/ \E a, b \in Amounts : SyncLiquidity(p, a, b) \/ \E r \in Creators, c \in Confs : RequestPool(r, p, a, b, c)
    \/ \E c \in Confs : AmendConf(p, c)
    \/ \E s \in {"ACTIVE", "PAUSED", "DISABLED"} : AmendStatus(p, s)

PoolNext ==
  \/ Listen \/ RequestNext \/ CallAmm \/ Restart
  \/ \E r \in Creators : PoolLands(r) \/ PoolConfirmed(r) \/ PoolRefused(r)
  \/ \E h \in Readers : Hydrate(h) \/ ReadFails(h)

-----------------------------------------------------------------------------
PoolTypeOK ==
  /\ AmmTypeOK
  /\ chainReady \in BOOLEAN /\ listening \in BOOLEAN
  /\ \A i \in DOMAIN entries : entries[i].pool \in Pools /\ entries[i].a \in Int /\ entries[i].b \in Int /\ entries[i].lp \in Int \cup {NaN}
  /\ \A r \in Creators : creating[r].step \in {"resting", "sent", "landed"}
  /\ \A h \in Readers : reader[h].at \in {"asleep", "status", "reserve", "rest"} /\ (reader[h].at = "asleep") = (reader[h].todo = <<>>)

\* However many hydrations overlap, they put a pool into the list at most once; only a request
\* that was waiting for its transaction adds a second entry (hydratePoolsFromChain).
HydratedOnce ==
  \A i, j \in DOMAIN entries :
    entries[i].pool = entries[j].pool /\ entries[i].by = "hydration" /\ entries[j].by = "hydration" => i = j

Shown(p) ==
  /\ Known(p)
  /\ LET e == entries[First(p)] IN
       /\ e.a = resA[p] /\ e.b = resB[p] /\ e.lp = totalLp[p] /\ e.conf = conf[p]
       /\ e.status = IF status[p] = POOL_ACTIVE THEN "ACTIVE" ELSE "PAUSED"

\* Torn reads, overlapping hydrations, failed reads, amendments by the admin and restarts are all
\* made good: once the chain is at rest and the node was reached at the start, every pool of the
\* contract is shown as it is there (hydratePoolsFromChain, setInterval).
Converges == <>[]chainReady => <>[](\A p \in Pools : PoolExists(p) => Shown(p))
=============================================================================
