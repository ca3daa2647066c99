------------------------------ MODULE SwapPanel ------------------------------
(***************************************************************************)
(* The swap panel of the web front end with the wallet, the signer and the *)
(* on-chain AMM.  Every event handler runs to its end, is followed by a    *)
(* rendering and by the effects whose dependencies have changed, and is    *)
(* one step; the answers to what it has asked come in steps of their own.  *)
(* Amounts are the raw integers the panel passes on.                       *)
(***************************************************************************)
EXTENDS RideInt, Sequences, FiniteSets

CONSTANTS SwapPools,         \* active pools, in the order of the list: records [id, A, B, fee, share, vA, vB, named]
                             \* where "named" tells that the chain has the tokens under their symbols
          Tokens,            \* TOKENS of the front end
          FirstPair,         \* the tokens selected before any pool is known
          Addresses,
          PanelAmounts,
          FirstReserves,     \* [pool -> [A |-> reserve, B |-> reserve]]
          WalletBalance,
          Slippages,
          TradesOfOthers,    \* bounds
          PanelActions

FeeScale == 10000

\* The fee is at most a tenth of the input; its share for the protocol and the virtual liquidity may be any number.
SwapPool == [id : STRING, A : STRING, B : STRING, fee : 0 .. FeeScale \div 10, share : Int, vA : Int, vB : Int, named : BOOLEAN]

PoolIds == {SwapPools[i].id : i \in DOMAIN SwapPools}

ASSUME PanelAssumption ==
  /\ PanelAmounts \subseteq Nat /\ Slippages \subseteq 0 .. FeeScale /\ WalletBalance \in Nat
  /\ SwapPools \in Seq(SwapPool) /\ FirstPair \in Tokens \X Tokens
  /\ FirstReserves \in [PoolIds -> [A : Nat, B : Nat]]

VARIABLES reserves,          \* of the AMM, on chain
          pools,             \* the data of usePools: <<>> until it has loaded, then the reserves it has brought
          address,           \* useWallet
          tokenIn, tokenOut, amountIn, slippageBps, choosing,
          balanceOf,         \* dccBalance: whose balance is displayed
          fetches,           \* balances being fetched, each with its cancelled flag
          swapping,          \* the swap being signed and broadcast
          swapResult,        \* swapResult and swapError
          swapped,           \* the last swap the chain has executed
          trades, actions    \* counts, for the bounds

selection == <<tokenIn, tokenOut, amountIn, slippageBps, choosing>>
walletVars == <<address, balanceOf, fetches>>
swapVars == <<swapping, swapResult, swapped>>
panelVars == <<reserves, pools, selection, walletVars, swapVars, trades, actions>>

Absent == "none"
NoSwap   == [pool |-> 0, isAtoB |-> FALSE, in |-> 0, shown |-> 0, min |-> 0, polled |-> [A |-> 0, B |-> 0]]
Executed == [shown : Int, paid : Int, min : Int, asPolled : BOOLEAN]

PanelInit ==
  /\ reserves = FirstReserves
  /\ pools = <<>>
  /\ address = Absent /\ balanceOf = Absent /\ fetches = {}
  /\ tokenIn = FirstPair[1] /\ tokenOut = FirstPair[2] /\ amountIn = 0 /\ slippageBps = 50 /\ choosing = Absent
  /\ swapping = NoSwap /\ swapResult = Absent /\ swapped = [shown |-> 0, paid |-> 0, min |-> 0, asPolled |-> TRUE]
  /\ trades = 0 /\ actions = 0

Acts == actions < PanelActions /\ actions' = actions + 1

---------------------------------------------------------------------------
\* The first pool of the list with both tokens, and the direction; 0 for none.
FindPool(in, out) ==
  LET found == {i \in DOMAIN SwapPools : {SwapPools[i].A, SwapPools[i].B} = {in, out}}
  IN  IF pools = <<>> \/ found = {} THEN 0 ELSE CHOOSE i \in found : \A j \in found : i <= j

\* Mutated form: the fee is rounded up.
CalcFeeUp(amount, fee) == (amount * fee + FeeScale - 1) \div FeeScale

CalcFee(amount, fee) == (amount * fee) \div FeeScale

\* The side paid in and the side paid out, with the virtual liquidity, which may leave either below zero.
EffectiveIn(pool, r, isAtoB)  == IF isAtoB THEN r.A + pool.vA ELSE r.B + pool.vB
EffectiveOut(pool, r, isAtoB) == EffectiveIn(pool, r, ~isAtoB)

\* The quotient rounded down, whatever the sign of d # 0.
Floor(n, d) == IF d > 0 THEN n \div d ELSE (-n) \div (-d)

Divisor(pool, r, isAtoB, amount) == EffectiveIn(pool, r, isAtoB) + (amount - CalcFee(amount, pool.fee))

\* What the panel displays, from the reserves it has.
CalcSwapOutput(pool, r, isAtoB, amount) ==
  Floor(EffectiveOut(pool, r, isAtoB) * (amount - CalcFee(amount, pool.fee)), Divisor(pool, r, isAtoB, amount))

SwapFeeOf(pool, amount) == Fraction(amount, pool.fee, FeeScale)

\* What the contract pays, from the reserves it has; it throws where the divisor is zero.
OnChainDivisor(pool, r, isAtoB, amount) == EffectiveIn(pool, r, isAtoB) + (amount - SwapFeeOf(pool, amount))

OnChainOutput(pool, r, isAtoB, amount) ==
  Fraction(EffectiveOut(pool, r, isAtoB), amount - SwapFeeOf(pool, amount), OnChainDivisor(pool, r, isAtoB, amount))

\* The pool keeps what is paid in but the protocol's share of the fee, and gives the output.
AfterSwap(pool, r, isAtoB, in, out) ==
  LET kept == in - Fraction(SwapFeeOf(pool, in), pool.share, FeeScale)
  IN  IF isAtoB THEN [A |-> r.A + kept, B |-> r.B - out] ELSE [A |-> r.A - out, B |-> r.B + kept]

---------------------------------------------------------------------------
\* usePools brings data that differ from the last: the effect selects the tokens of the first pool, those
\* that the front end knows, whatever was selected.
PoolsLoad ==
  /\ pools # <<reserves>>
  /\ pools' = <<reserves>>
  /\ tokenIn' = IF SwapPools[1].A \in Tokens THEN SwapPools[1].A ELSE tokenIn
  /\ tokenOut' = IF SwapPools[1].B \in Tokens THEN SwapPools[1].B ELSE tokenOut
  /\ UNCHANGED <<reserves, amountIn, slippageBps, choosing, walletVars, swapVars, trades, actions>>

\* Mutated form: the clean-up of the effect does not cancel the fetch.
KeepFetches == fetches

CancelFetches == {[f EXCEPT !.cancelled = TRUE] : f \in fetches}

\* The address changes: the effect of before is cleaned up, and the new one fetches the balance.
Login(a) ==
  /\ Acts /\ address = Absent
  /\ address' = a
  /\ fetches' = CancelFetches \cup {[of |-> a, cancelled |-> FALSE]}
  /\ UNCHANGED <<reserves, pools, selection, balanceOf, swapVars, trades>>

Logout ==
  /\ Acts /\ address # Absent
  /\ address' = Absent /\ balanceOf' = Absent
  /\ fetches' = CancelFetches
  /\ UNCHANGED <<reserves, pools, selection, swapVars, trades>>

BalanceArrives(f) ==
  /\ fetches' = fetches \ {f}
  /\ \E shown \in {f.of, Absent} : balanceOf' = IF f.cancelled THEN balanceOf ELSE shown
  /\ UNCHANGED <<reserves, pools, selection, address, swapVars, trades, actions>>

Clear == swapResult' = Absent

HandleSwitch ==
  /\ tokenIn' = tokenOut /\ tokenOut' = tokenIn /\ amountIn' = 0 /\ Clear

Switch ==
  /\ Acts /\ HandleSwitch
  /\ UNCHANGED <<reserves, pools, slippageBps, choosing, walletVars, swapping, swapped, trades>>

OpenTokenSelect ==
  /\ Acts /\ choosing = Absent /\ choosing' \in {"in", "out"}
  /\ UNCHANGED <<reserves, pools, tokenIn, tokenOut, amountIn, slippageBps, walletVars, swapVars, trades>>

\* Only tokens of active pools are offered; choosing the other side's token switches the two.
HandleTokenSelect(t) ==
  /\ Acts /\ choosing # Absent /\ pools # <<>>
  /\ \E i \in DOMAIN SwapPools : t \in {SwapPools[i].A, SwapPools[i].B}
  /\ \/ t = (IF choosing = "in" THEN tokenOut ELSE tokenIn) /\ HandleSwitch
     \/ choosing = "in" /\ t # tokenOut /\ tokenIn' = t /\ Clear /\ UNCHANGED <<tokenOut, amountIn>>
     \/ choosing = "out" /\ t # tokenIn /\ tokenOut' = t /\ Clear /\ UNCHANGED <<tokenIn, amountIn>>
  /\ choosing' = Absent
  /\ UNCHANGED <<reserves, pools, slippageBps, walletVars, swapping, swapped, trades>>

TypeAmount(n) ==
  /\ Acts /\ amountIn' = n /\ Clear
  /\ UNCHANGED <<reserves, pools, tokenIn, tokenOut, slippageBps, choosing, walletVars, swapping, swapped, trades>>

\* MAX puts in the balance of DCC, whatever the token; the result of before stays.
UseMax ==
  /\ Acts /\ address # Absent /\ balanceOf # Absent
  /\ amountIn' = WalletBalance
  /\ UNCHANGED <<reserves, pools, tokenIn, tokenOut, slippageBps, choosing, walletVars, swapVars, trades>>

SetSlippage(bps) ==
  /\ Acts /\ slippageBps' = bps
  /\ UNCHANGED <<reserves, pools, tokenIn, tokenOut, amountIn, choosing, walletVars, swapVars, trades>>

\* In floating point, which may give one unit less when the quotient is whole.
MinOut(out, bps) == (out * (FeeScale - bps)) \div FeeScale

\* The button is enabled for an amount, a pool that has the output, and no swap under way.  The tokens, the
\* amount and the least output are those of the rendering in which it is clicked.  What a divisor of zero gives
\* is no number: it is more than the reserve, or cannot be sent.
HandleSwap ==
  /\ Acts /\ address # Absent /\ swapping = NoSwap /\ amountIn > 0
  /\ LET i == FindPool(tokenIn, tokenOut)
     IN  /\ i # 0
         /\ LET pool   == SwapPools[i]
                isAtoB == pool.A = tokenIn
                polled == pools[1][pool.id]
                out    == CalcSwapOutput(pool, polled, isAtoB, amountIn)
            IN  IF Divisor(pool, polled, isAtoB, amountIn) = 0
                THEN /\ EffectiveOut(pool, polled, isAtoB) <= 0
                     /\ swapResult' = "error" /\ UNCHANGED swapping
                ELSE /\ out <= (IF isAtoB THEN polled.B ELSE polled.A)
                     /\ swapping' = [pool |-> i, isAtoB |-> isAtoB, in |-> amountIn, shown |-> out,
                                     min |-> MinOut(out, slippageBps), polled |-> polled]
                     /\ Clear
  /\ UNCHANGED <<reserves, pools, selection, walletVars, swapped, trades>>

\* The invocation is executed, or refused; the answer may be lost on its way back.  The amount is cleared,
\* also one typed meanwhile, when the transaction's id has come.
Executes ==
  LET s    == swapping
      pool == SwapPools[s.pool]
      r    == reserves[pool.id]
      out  == OnChainOutput(pool, r, s.isAtoB, s.in)
  IN  /\ pool.named /\ OnChainDivisor(pool, r, s.isAtoB, s.in) # 0
      /\ out >= s.min /\ out <= (IF s.isAtoB THEN r.B ELSE r.A)
      /\ reserves' = [reserves EXCEPT ![pool.id] = AfterSwap(pool, @, s.isAtoB, s.in, out)]
      /\ swapped' = [shown |-> s.shown, paid |-> out, min |-> s.min, asPolled |-> s.polled = r]

SwapEnds(result) == swapping' = NoSwap /\ swapResult' = result

SwapConfirmed ==
  /\ swapping # NoSwap
  /\ Executes /\ SwapEnds("confirmed") /\ amountIn' = 0
  /\ UNCHANGED <<pools, tokenIn, tokenOut, slippageBps, choosing, walletVars, trades, actions>>

SwapAnswerLost ==
  /\ swapping # NoSwap
  /\ Executes /\ SwapEnds("error")
  /\ UNCHANGED <<pools, selection, walletVars, trades, actions>>

SwapRefused ==
  /\ swapping # NoSwap
  /\ SwapEnds("error")
  /\ UNCHANGED <<reserves, pools, selection, walletVars, swapped, trades, actions>>

\* Someone else swaps.
TradeOfOthers ==
  /\ trades < TradesOfOthers /\ trades' = trades + 1
  /\ \E i \in DOMAIN SwapPools, isAtoB \in BOOLEAN, n \in PanelAmounts :
       LET pool == SwapPools[i]
           r    == reserves[pool.id]
           out  == OnChainOutput(pool, r, isAtoB, n)
       IN  /\ n > 0 /\ OnChainDivisor(pool, r, isAtoB, n) # 0 /\ out <= (IF isAtoB THEN r.B ELSE r.A)
           /\ reserves' = [reserves EXCEPT ![pool.id] = AfterSwap(pool, @, isAtoB, n, out)]
  /\ UNCHANGED <<pools, selection, walletVars, swapVars, actions>>

PanelNext ==
  \/ PoolsLoad \/ Logout \/ (\E a \in Addresses : Login(a)) \/ (\E f \in fetches : BalanceArrives(f))
  \/ Switch \/ OpenTokenSelect \/ (\E t \in Tokens : HandleTokenSelect(t))
  \/ (\E n \in PanelAmounts : TypeAmount(n)) \/ UseMax \/ (\E bps \in Slippages : SetSlippage(bps))
  \/ HandleSwap \/ SwapConfirmed \/ SwapAnswerLost \/ SwapRefused \/ TradeOfOthers

PanelTypeOK ==
  /\ \A p \in PoolIds : reserves[p].A \in Int /\ reserves[p].B \in Int
  /\ {tokenIn, tokenOut} \subseteq Tokens /\ amountIn \in PanelAmounts \cup {0, WalletBalance}
  /\ address \in Addresses \cup {Absent} /\ choosing \in {"in", "out", Absent}
  /\ swapped \in Executed

\* The balance displayed is that of the wallet connected, however late a balance arrives that was asked for
\* another address.
BalanceIsOfWallet == balanceOf \in {address, Absent}

\* What the panel says of a swap is what the chain does: an output that was displayed, executed on the reserves
\* the panel had, is paid to the last unit; on other reserves no less than the slippage allows of it is paid.  An
\* output that is not positive is displayed as none; the two then round to different sides.
SwapsAsShown ==
  /\ swapped.asPolled /\ swapped.shown > 0 => swapped.paid = swapped.shown
  /\ swapped.paid >= swapped.min
===============================================================================
