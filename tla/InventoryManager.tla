--------------------------- MODULE InventoryManager ---------------------------
(***************************************************************************)
(* inventory-manager: the requests on one position (asset and chain) of    *)
(* the protocol's inventory.  Each awaits three statements, one after the  *)
(* other, and none of them asks what has changed since the first.          *)
(***************************************************************************)
EXTENDS Integers, Sums

CONSTANTS Reservations,
          Desks,             \* requests under way at a time
          Wanted,            \* amounts asked for: the text of a request, any number
          FirstStock,
          StockFaults        \* a bound on failed statements

ASSUME InventoryAssumption ==
  /\ IsFiniteSet(Reservations) /\ Wanted \subseteq Int /\ FirstStock \in Nat /\ StockFaults \in Nat

VARIABLES booked,            \* inventory_reservations: status and amount
          stock,             \* relayer_inventory: amount, reserved_amount and available_amount
          desk,              \* a request between two awaits
          clashed,           \* two requests had one reservation in hand, or checked the stock at once
          negative,          \* an amount below zero was let past the check
          lost               \* statements that failed

inventoryVars == <<booked, stock, desk, clashed, negative, lost>>

Free   == [status |-> "none", amount |-> 0]
AtRest == [at |-> "rest", of |-> "none", amount |-> 0]

\* The columns have no check; only the amount is never written below zero.
StockRows == [amount : Nat, reserved : Int, available : Int]

InventoryInit(first) ==
  /\ booked = [r \in Reservations |-> Free]
  /\ stock = [amount |-> first, reserved |-> 0, available |-> first]
  /\ desk = [d \in Desks |-> AtRest]
  /\ clashed = FALSE
  /\ negative = FALSE
  /\ lost = 0

AtLeastZero(x) == IF x < 0 THEN 0 ELSE x

DeskGoes(d, at) == desk' = [desk EXCEPT ![d].at = at]
DeskEnds(d)     == desk' = [desk EXCEPT ![d] = AtRest]

\* A failed statement ends the request where it stands.
StatementFails(d) ==
  /\ desk[d].at # "rest" /\ lost < StockFaults
  /\ DeskEnds(d)
  /\ lost' = lost + 1
  /\ UNCHANGED <<booked, stock, clashed, negative>>

Reserving == {"create", "deduct"}

\* POST /inventory/reserve: the available amount is read and compared; 409 changes nothing.  A text that is
\* no number passes the comparison and is refused by the statement that stores it.
CheckStock(d) ==
  /\ desk[d] = AtRest
  /\ \E r \in Reservations, n \in Wanted :
       /\ booked[r] = Free /\ \A e \in Desks : desk[e].of # r
       /\ stock.available >= n
       /\ desk' = [desk EXCEPT ![d] = [at |-> "create", of |-> r, amount |-> n]]
       /\ negative' = (negative \/ n < 0)
  /\ clashed' = (clashed \/ \E e \in Desks : desk[e].at \in Reserving)
  /\ UNCHANGED <<booked, stock, lost>>

CreateReservation(d) ==
  /\ desk[d].at = "create"
  /\ booked' = [booked EXCEPT ![desk[d].of] = [status |-> "active", amount |-> desk[d].amount]]
  /\ DeskGoes(d, "deduct")
  /\ UNCHANGED <<stock, clashed, negative, lost>>

Deduct(d) ==
  /\ desk[d].at = "deduct"
  /\ stock' = [stock EXCEPT !.reserved = @ + desk[d].amount, !.available = AtLeastZero(@ - desk[d].amount)]
  /\ DeskEnds(d)
  /\ UNCHANGED <<booked, clashed, negative, lost>>

\* POST /inventory/release and /inventory/consume: the reservation is read; unless it is active the
\* request ends.  Its caller knows its id once the reservation is made, or reads it from the list.
FindReservation(d) ==
  /\ desk[d] = AtRest
  /\ \E r \in Reservations, at \in {"release", "consume"} :
       /\ booked[r].status = "active"
       /\ desk' = [desk EXCEPT ![d] = [at |-> at, of |-> r, amount |-> booked[r].amount]]
       /\ clashed' = (clashed \/ \E e \in Desks : desk[e].of = r)
  /\ UNCHANGED <<booked, stock, negative, lost>>

\* release and consume ask for an active row; that they found none is not looked at.
Mark(d) ==
  /\ desk[d].at \in {"release", "consume"}
  /\ LET r == desk[d].of
     IN  booked' = [booked EXCEPT ![r].status =
           IF @ # "active" THEN @ ELSE IF desk[d].at = "release" THEN "released" ELSE "consumed"]
  /\ DeskGoes(d, IF desk[d].at = "release" THEN "return" ELSE "spend")
  /\ UNCHANGED <<stock, clashed, negative, lost>>

Return(d) ==
  /\ desk[d].at = "return"
  /\ stock' = [stock EXCEPT !.reserved = AtLeastZero(@ - desk[d].amount), !.available = @ + desk[d].amount]
  /\ DeskEnds(d)
  /\ UNCHANGED <<booked, clashed, negative, lost>>

\* Mutated form: more may be spent than there is.
SpendBelowZero(d) ==
  /\ desk[d].at = "spend"
  /\ stock' = [stock EXCEPT !.amount = @ - desk[d].amount, !.reserved = AtLeastZero(@ - desk[d].amount)]
  /\ DeskEnds(d)
  /\ UNCHANGED <<booked, clashed, negative, lost>>

\* Mutated form: what is spent stays reserved.
SpendKeepsReserved(d) ==
  /\ desk[d].at = "spend"
  /\ stock' = [stock EXCEPT !.amount = AtLeastZero(@ - desk[d].amount)]
  /\ DeskEnds(d)
  /\ UNCHANGED <<booked, clashed, negative, lost>>

Spend(d) ==
  /\ desk[d].at = "spend"
  /\ stock' = [stock EXCEPT !.amount = AtLeastZero(@ - desk[d].amount), !.reserved = AtLeastZero(@ - desk[d].amount)]
  /\ DeskEnds(d)
  /\ UNCHANGED <<booked, clashed, negative, lost>>

\* The cleanup interval: stale reservations are marked and nothing is given back.
Expire ==
  /\ \E stale \in SUBSET {r \in Reservations : booked[r].status = "active"} \ {{}} :
       booked' = [r \in Reservations |-> IF r \in stale THEN [booked[r] EXCEPT !.status = "expired"] ELSE booked[r]]
  /\ UNCHANGED <<stock, desk, clashed, negative, lost>>

InventoryNext ==
  \/ \E d \in Desks : \/ CheckStock(d) \/ CreateReservation(d) \/ Deduct(d)
                      \/ FindReservation(d) \/ Mark(d) \/ Return(d) \/ Spend(d) \/ StatementFails(d)
  \/ Expire

InventoryTypeOK ==
  /\ booked \in [Reservations -> [status : {"none", "active", "released", "consumed", "expired"}, amount : Wanted \cup {0}]]
  /\ stock \in StockRows
  /\ \A d \in Desks : desk[d].of \in Reservations \cup {"none"} /\ desk[d].amount \in Wanted \cup {0}
  /\ clashed \in BOOLEAN /\ negative \in BOOLEAN /\ lost \in 0 .. StockFaults

Booked(ends) == Total([r \in Reservations |-> IF booked[r].status \in ends THEN booked[r].amount ELSE 0])

\* Unless an amount below zero was asked for, which the request does not refuse: what is available and what
\* is reserved never add up to less than what is there, whichever requests overlap, fail between two
\* statements, or find that a reservation has ended meanwhile; and between requests the position balances,
\* and what is reserved covers the active reservations and nothing but them and those that have expired.
\* Besides such an amount only two requests for one reservation, two checks of the stock at once, or a failure
\* between two statements break the books.
BooksBalance ==
  ~negative =>
    /\ stock.available + stock.reserved >= stock.amount
    /\ (~clashed /\ lost = 0 /\ \A d \in Desks : desk[d] = AtRest) =>
         /\ stock.available + stock.reserved = stock.amount
         /\ Booked({"active"}) <= stock.reserved /\ stock.reserved <= Booked({"active", "expired"})
===============================================================================
