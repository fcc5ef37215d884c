----------------------------- MODULE PageProofs -----------------------------
(***************************************************************************)
(* Proofs about the page: what it shows (Browser), what its shortcuts and  *)
(* the traders order (Sizing), whom the ranking shows (Leaderboard), and   *)
(* how old a live price can be (PriceFeed).  Users, tokens, markets,       *)
(* amounts, times and the numbers of clicks, failures and changes are      *)
(* arbitrary.                                                              *)
(***************************************************************************)
EXTENDS Browser, Sizing, Leaderboard, PriceFeed, SequenceTheorems, FiniteSetTheorems, TLAPS

-----------------------------------------------------------------------------
(* Sizing: cutting and rounding *)

LEMMA Product == ASSUME NEW x \in Nat, NEW y \in Nat PROVE x * y \in Nat
  OBVIOUS

\* A positive factor can be cancelled.
LEMMA Cancels ==
    ASSUME NEW p \in Nat \ {0}, NEW x \in Nat, NEW y \in Nat
    PROVE  (p * x <= p * y => x <= y) /\ (p * x < p * y => x < y)
<1>1. ASSUME y + 1 <= x PROVE p * y + p <= p * x
  <2>1. PICK z \in Nat : x = y + 1 + z
    BY <1>1
  <2>2. p * x = p * y + p + p * z /\ p * z \in Nat /\ p * y \in Nat
    BY <2>1
  <2>. QED  BY <2>2
<1>2. ASSUME x >= y PROVE p * x >= p * y
  <2>1. PICK z \in Nat : x = y + z
    BY <1>2
  <2>2. p * x = p * y + p * z /\ p * z \in Nat /\ p * y \in Nat
    BY <2>1
  <2>. QED  BY <2>2
<1>3. p * x \in Nat /\ p * y \in Nat
  BY Product
<1>. QED  BY <1>1, <1>2, <1>3

LEMMA Quotient ==
    ASSUME NEW n \in Nat, NEW d \in Nat \ {0}
    PROVE  n \div d \in Nat /\ d * (n \div d) <= n /\ n < d * (n \div d) + d
  OBVIOUS

\* A quotient that is cut to whole lots is too small by less than a lot.
LEMMA CutBounds ==
    ASSUME NEW amount \in Nat, NEW parts \in Nat \ {0}, NEW unit \in Nat \ {0}
    PROVE  LET c == CutToLot(amount, parts, unit) IN
           /\ c \in Nat
           /\ parts * (c * unit) <= amount * (100 * Scale)
           /\ amount * (100 * Scale) < parts * ((c + Lot) * unit)
<1>. DEFINE n == amount * 100 * Scale
            d == parts * unit * Lot
            k == n \div d
<1>1. Scale \in Nat \ {0} /\ Lot \in Nat \ {0}
  BY ScaleAssumption
<1>2. n \in Nat /\ n = amount * (100 * Scale)
  BY <1>1
<1>3. d \in Nat \ {0}
  <2>1. parts * unit \in Nat \ {0}
    OBVIOUS
  <2>. QED  BY <1>1, <2>1
<1>4. k \in Nat /\ d * k <= n /\ n < d * k + d
  BY <1>2, <1>3, Quotient
<1>5. CutToLot(amount, parts, unit) = Lot * k
  BY DEF CutToLot
<1>. HIDE DEF k
<1>6. parts * ((Lot * k) * unit) = d * k /\ parts * ((Lot * k + Lot) * unit) = d * k + d
  BY <1>1, <1>4
<1>7. Lot * k \in Nat
  BY <1>1, <1>4
<1>. HIDE DEF n, d
<1>. QED  BY <1>2, <1>4, <1>5, <1>6, <1>7

\* The part of a balance that is divided pays for the lots, and the whole
\* balance would not pay for one lot more.
LEMMA CutPays ==
    ASSUME NEW funds \in Nat, NEW parts \in Nat \ {0}, NEW share \in 0 .. parts,
           NEW unit \in Nat \ {0}
    PROVE  LET c == CutToLot(funds * share, parts, unit) IN
           /\ c \in Nat
           /\ c * unit <= funds * 100 * Scale
           /\ share = parts => funds * 100 * Scale < (c + Lot) * unit
<1>. DEFINE c == CutToLot(funds * share, parts, unit)
            whole == funds * 100 * Scale
<1>1. Scale \in Nat \ {0} /\ Lot \in Nat \ {0} /\ funds * share \in Nat
  BY ScaleAssumption, Product
<1>2. /\ c \in Nat
      /\ parts * (c * unit) <= (funds * share) * (100 * Scale)
      /\ (funds * share) * (100 * Scale) < parts * ((c + Lot) * unit)
  BY <1>1, CutBounds
<1>. HIDE DEF c
<1>3. whole \in Nat /\ c * unit \in Nat /\ (c + Lot) * unit \in Nat
  BY <1>1, <1>2
<1>4. (funds * share) * (100 * Scale) = share * whole
  BY <1>1
<1>. HIDE DEF whole
<1>5. share * whole <= parts * whole
  <2>1. PICK z \in Nat : parts = share + z
    OBVIOUS
  <2>2. parts * whole = share * whole + z * whole /\ z * whole \in Nat /\ share * whole \in Nat
    BY <2>1, <1>3
  <2>. QED  BY <2>2
<1>6. /\ parts * (c * unit) \in Nat /\ share * whole \in Nat /\ parts * whole \in Nat
      /\ parts * ((c + Lot) * unit) \in Nat
  BY <1>3
<1>7. parts * (c * unit) <= parts * whole
  BY <1>2, <1>4, <1>5, <1>6
<1>8. share = parts => parts * whole < parts * ((c + Lot) * unit)
  BY <1>2, <1>4
<1>9. c * unit <= whole /\ (share = parts => whole < (c + Lot) * unit)
  BY <1>3, <1>7, <1>8, Cancels
<1>. QED  BY <1>2, <1>9 DEF c, whole

\* The rounding of balance_amount does not cross a whole number of units.
LEMMA RoundKeepsOrder ==
    ASSUME NEW n \in Nat, NEW d \in Nat \ {0}, NEW a \in Nat
    PROVE  /\ RoundHalfAway(n, d) \in Nat
           /\ n <= a * d => RoundHalfAway(n, d) <= a
           /\ a * d <= n => RoundHalfAway(n, d) >= a
<1>. DEFINE r == RoundHalfAway(n, d)
            m == 2 * n + d
            e == 2 * d
<1>1. m \in Nat /\ e \in Nat \ {0}
  OBVIOUS
<1>2. r \in Nat /\ e * r <= m /\ m < e * r + e
  BY <1>1, Quotient DEF RoundHalfAway
<1>. HIDE DEF r
<1>3. a * d \in Nat /\ d * r \in Nat /\ d * a = a * d /\ e * r = 2 * (d * r) /\ d * (a + 1) = a * d + d
      /\ d * (r + 1) = d * r + d
  BY <1>2
<1>4. ASSUME n <= a * d PROVE r <= a
  <2>1. d * r < d * (a + 1)
    BY <1>2, <1>3, <1>4
  <2>. QED  BY <2>1, <1>2, Cancels
<1>5. ASSUME a * d <= n PROVE r >= a
  <2>1. d * a < d * (r + 1)
    BY <1>2, <1>3, <1>5
  <2>. QED  BY <2>1, <1>2, Cancels
<1>. QED  BY <1>2, <1>4, <1>5 DEF r

-----------------------------------------------------------------------------
(* Sizing: what an order costs *)

Sides == {"buy", "sell"}
Kinds == {"limit", "market"}

LEMMA UnitCostIsNat ==
    ASSUME NEW side \in Sides, NEW kind \in Kinds, NEW limit \in Nat, NEW ref \in Nat
    PROVE  UnitCost(side, kind, limit, ref) \in Nat
  BY ScaleAssumption DEF UnitCost

\* place_order reserves what the unit cost says, at the same reference price.
LEMMA ReserveIsCost ==
    ASSUME NEW o, o.side \in Sides, o.kind \in Kinds, o.limit \in Nat,
           NEW q \in Nat, NEW balance \in Nat, NEW ref \in Nat
    PROVE  LET cost  == q * UnitCost(o.side, o.kind, o.limit, ref)
               funds == balance * 100 * Scale
           IN  /\ Reserve(o, q, ref) \in Nat
               /\ cost <= funds => Reserve(o, q, ref) <= balance
               /\ funds <= cost => Reserve(o, q, ref) >= balance
<1>. DEFINE cost == q * UnitCost(o.side, o.kind, o.limit, ref)
            funds == balance * 100 * Scale
<1>1. Scale \in Nat \ {0}
  BY ScaleAssumption
<1>2. CASE o.side = "sell"
  <2>1. cost = (100 * Scale) * q /\ funds = (100 * Scale) * balance
    BY <1>1, <1>2 DEF UnitCost
  <2>2. 100 * Scale \in Nat \ {0}
    BY <1>1
  <2>3. Reserve(o, q, ref) = q
    BY <1>2 DEF Reserve
  <2>. QED  BY <2>1, <2>2, <2>3, Cancels, <1>1
<1>3. CASE o.side # "sell" /\ o.kind = "limit"
  <2>1. q * o.limit \in Nat /\ balance * Scale \in Nat
    BY <1>1, Product
  <2>2. cost = 100 * (q * o.limit) /\ funds = 100 * (balance * Scale)
    BY <1>1, <1>3 DEF UnitCost
  <2>3. Reserve(o, q, ref) = RoundHalfAway(q * o.limit, Scale)
    BY <1>3 DEF Reserve, BalanceAmount
  <2>. HIDE DEF cost, funds
  <2>4. /\ cost <= funds => q * o.limit <= balance * Scale
        /\ funds <= cost => balance * Scale <= q * o.limit
    BY <2>1, <2>2
  <2>. QED  BY <1>1, <2>1, <2>3, <2>4, RoundKeepsOrder DEF cost, funds
<1>4. CASE o.side # "sell" /\ o.kind # "limit"
  <2>. DEFINE n == q * ref * 105
              d == 100 * Scale
  <2>1. n \in Nat /\ d \in Nat \ {0} /\ balance \in Nat
    BY <1>1, Product
  <2>2. cost = n /\ funds = balance * d
    BY <1>1, <1>4 DEF UnitCost
  <2>3. Reserve(o, q, ref) = RoundHalfAway(n, d)
    BY <1>4 DEF Reserve, MarketBuyReserve
  <2>. HIDE DEF n, d
  <2>4. /\ RoundHalfAway(n, d) \in Nat
        /\ n <= balance * d => RoundHalfAway(n, d) <= balance
        /\ balance * d <= n => RoundHalfAway(n, d) >= balance
    BY ONLY <2>1, RoundKeepsOrder
  <2>. HIDE DEF cost, funds
  <2>5. /\ Reserve(o, q, ref) \in Nat
        /\ cost <= funds => Reserve(o, q, ref) <= balance
        /\ funds <= cost => Reserve(o, q, ref) >= balance
    BY ONLY <2>2, <2>3, <2>4
  <2>. QED  BY <2>5 DEF cost, funds
<1>. QED  BY <1>2, <1>3, <1>4

\* Unless it buys at market it costs the same at any reference price.
LEMMA CostsNoMore ==
    ASSUME NEW side, NEW kind, NEW limit \in Nat, NEW ref \in Nat, NEW old \in Nat, NEW q \in Nat,
           \/ side = "sell" \/ kind = "limit" \/ ref <= old
    PROVE  q * UnitCost(side, kind, limit, ref) <= q * UnitCost(side, kind, limit, old)
<1>1. Scale \in Nat
  BY ScaleAssumption
<1>2. CASE side = "sell" \/ kind = "limit"
  <2>1. UnitCost(side, kind, limit, ref) = UnitCost(side, kind, limit, old)
    BY <1>2 DEF UnitCost
  <2>2. UnitCost(side, kind, limit, old) \in Nat
    BY <1>1, <1>2 DEF UnitCost
  <2>. QED  BY <2>1, <2>2, Product
<1>3. CASE side # "sell" /\ kind # "limit"
  <2>1. PICK z \in Nat : old = ref + z
    BY <1>3
  <2>2. q * (105 * old) = q * (105 * ref) + q * (105 * z)
    BY <2>1
  <2>3. q * (105 * ref) \in Nat /\ q * (105 * z) \in Nat
    BY <2>1, Product
  <2>. QED  BY <1>3, <2>2, <2>3 DEF UnitCost
<1>. QED  BY <1>2, <1>3

-----------------------------------------------------------------------------
(* Sizing: the invariant *)

LEMMA SizingStarts == ASSUME SizingInit PROVE SizingInv
<1>1. Balances \subseteq Nat /\ References \subseteq Nat
  BY SizingAssumption
<1>2. available \in Nat /\ reference \in Nat /\ order = NoOrder /\ read \in [available : Nat, reference : Nat]
  BY <1>1 DEF SizingInit
<1>3. SizingTypeOK
  BY <1>2 DEF SizingTypeOK
<1>. QED  BY <1>2, <1>3 DEF SizingInv

\* An order that is cut from a part of the balance is affordable.
LEMMA SizedKeeps ==
    ASSUME SizingInv, NEW side \in Sides, NEW kind \in Kinds, NEW limit \in Nat,
           NEW parts \in Nat \ {0}, NEW share \in 0 .. parts, NEW part \in Nat,
           part = 10000 => share = parts,
           NEW q \in Nat, NEW unit, unit = UnitCost(side, kind, limit, read.reference), unit # 0,
           \/ q = CutToLot(read.available * share, parts, unit)
           \/ q <= CutToLot(read.available * share, parts, unit) /\ q = MaxQuantity,
           Sized(side, kind, limit, q, part)
    PROVE  SizingInv'
<1>. DEFINE c == CutToLot(read.available * share, parts, unit)
            funds == read.available * 100 * Scale
<1>1. read.available \in Nat /\ read.reference \in Nat /\ Scale \in Nat \ {0} /\ Lot \in Nat \ {0}
  BY ScaleAssumption DEF SizingInv, SizingTypeOK
<1>2. unit \in Nat \ {0}
  BY <1>1, UnitCostIsNat
<1>3. c \in Nat /\ c * unit <= funds /\ (share = parts => funds < (c + Lot) * unit)
  <2>1. parts \in Nat \ {0} /\ share \in 0 .. parts
    OBVIOUS
  <2>. QED  BY ONLY <1>1, <1>2, <2>1, CutPays
<1>. HIDE DEF c
<1>4. q <= c /\ (q = c \/ q = MaxQuantity)
  BY <1>3 DEF c
<1>5. q * unit <= c * unit
  <2>1. PICK z \in Nat : c = q + z
    BY <1>3, <1>4
  <2>2. q \in Nat
    OBVIOUS
  <2>3. q * unit \in Nat /\ z * unit \in Nat
    BY ONLY <1>2, <2>1, <2>2, Product
  <2>4. c * unit = q * unit + z * unit
    BY ONLY <1>2, <2>1, <2>2
  <2>. QED  BY ONLY <2>3, <2>4
<1>6. q * unit \in Nat /\ c * unit \in Nat /\ funds \in Nat
  BY <1>1, <1>2, <1>3
<1>7. q * unit <= funds
  BY <1>3, <1>5, <1>6
<1>8. /\ order' = [side |-> side, kind |-> kind, limit |-> limit, quantity |-> q,
                   part |-> part]
      /\ available' = available /\ reference' = reference /\ read' = read
  BY DEF Sized
<1>9. SizingTypeOK'
  BY <1>1, <1>8 DEF SizingInv, SizingTypeOK, Sides, Kinds
<1>10. part # 10000 \/ (q + Lot) * unit > funds \/ q = MaxQuantity
  <2>1. CASE part # 10000 \/ q = MaxQuantity
    BY <2>1
  <2>2. CASE part = 10000 /\ q = c
    <3>1. funds < (c + Lot) * unit
      BY <1>3, <2>2
    <3>2. (c + Lot) * unit \in Nat
      BY <1>1, <1>2, <1>3
    <3>. QED  BY <1>6, <2>2, <3>1, <3>2
  <2>. QED  BY <1>4, <2>1, <2>2
<1>11. Affordable'
  <2>1. UnitCost(order'.side, order'.kind, order'.limit, read'.reference) = unit
    BY <1>8
  <2>. HIDE DEF funds
  <2>. QED  BY <1>7, <1>8, <1>10, <2>1 DEF Affordable, funds
<1>. QED  BY <1>9, <1>11 DEF SizingInv

LEMMA ShortcutKeeps ==
    ASSUME SizingInv, NEW side \in Sides, NEW kind \in Kinds, NEW limit \in Limits,
           NEW percent \in Percents, Shortcut(side, kind, limit, percent)
    PROVE  SizingInv'
<1>. DEFINE unit == UnitCost(side, kind, limit, read.reference)
            q == Quantity(percent, unit)
            c == CutToLot(read.available * percent, 100, unit)
<1>1. read.available \in Nat /\ read.reference \in Nat /\ limit \in Nat /\ MaxQuantity \in Nat
      /\ percent \in 0 .. 100 /\ 100 \in Nat \ {0}
  <2>1. percent \in Nat /\ percent <= 100 /\ limit \in Nat /\ MaxQuantity \in Nat
    BY SizingAssumption
  <2>. QED  BY <2>1 DEF SizingInv, SizingTypeOK
<1>2. Sized(side, kind, limit, q, percent * 100) /\ q > 0
  BY DEF Shortcut, Sized
<1>3. unit # 0
  BY <1>2 DEF Quantity
<1>4. unit \in Nat \ {0}
  BY <1>1, <1>3, UnitCostIsNat
<1>. HIDE DEF unit
<1>5. c \in Nat
  BY ONLY <1>1, <1>4, CutPays
<1>6. q = c \/ (q <= c /\ q = MaxQuantity)
  <2>1. q = IF c <= MaxQuantity THEN c ELSE MaxQuantity
    BY <1>1, <1>3, <1>5 DEF Quantity, Lesser
  <2>. HIDE DEF q, c
  <2>. QED  BY <1>1, <1>5, <2>1
<1>. HIDE DEF c
<1>7. q \in Nat
  BY <1>1, <1>5, <1>6
<1>8. percent * 100 \in Nat /\ (percent * 100 = 10000 => percent = 100) /\ 100 \in Nat \ {0}
  BY <1>1
<1>. HIDE DEF q
<1>9. unit = UnitCost(side, kind, limit, read.reference)
  BY DEF unit
<1>10. \/ q = CutToLot(read.available * percent, 100, unit)
       \/ q <= CutToLot(read.available * percent, 100, unit) /\ q = MaxQuantity
  BY <1>6 DEF c
<1>. DEFINE parts == 100
            part == percent * 100
<1>11. parts \in Nat \ {0} /\ percent \in 0 .. parts /\ part \in Nat /\ (part = 10000 => percent = parts)
  BY <1>1, <1>8
<1>12. /\ q = CutToLot(read.available * percent, parts, unit)
          \/ (q <= CutToLot(read.available * percent, parts, unit) /\ q = MaxQuantity)
       /\ Sized(side, kind, limit, q, part)
  BY <1>2, <1>10
<1>. HIDE DEF parts, part
<1>13. limit \in Nat
  BY <1>1
<1>. QED  BY <1>3, <1>7, <1>9, <1>11, <1>12, <1>13, SizedKeeps

LEMMA TraderLimitIsNat ==
    ASSUME NEW spread \in Spreads, read.reference \in Nat
    PROVE  TraderLimit(spread) \in Nat
<1>. DEFINE n == read.reference * spread
            d == 10000 * Cent
<1>1. Cent \in Nat \ {0} /\ spread \in Nat
  BY ScaleAssumption, SizingAssumption
<1>2. n \in Nat /\ d \in Nat \ {0}
  BY <1>1
<1>. HIDE DEF n, d
<1>3. n \div d \in Nat
  BY <1>2, Quotient
<1>4. RoundHalfEven(n, d) \in Nat
  BY <1>3 DEF RoundHalfEven
<1>. QED  BY <1>1, <1>4, Product DEF TraderLimit, n, d

LEMMA CutIsNat ==
    ASSUME NEW funds \in Nat, NEW parts \in Nat \ {0}, NEW share \in 0 .. parts,
           NEW unit \in Nat \ {0}
    PROVE  CutToLot(funds * share, parts, unit) \in Nat
<1>. DEFINE c == CutToLot(funds * share, parts, unit)
<1>1. c \in Nat /\ c * unit <= funds * 100 * Scale
  BY CutPays
<1>. QED  BY <1>1

LEMMA TraderOrdersKeeps ==
    ASSUME SizingInv, NEW side \in Sides, NEW kind \in Kinds, NEW spread \in Spreads,
           NEW fraction \in Fractions, TraderOrders(side, kind, spread, fraction)
    PROVE  SizingInv'
<1>. DEFINE limit == TraderLimit(spread)
            unit == UnitCost(side, kind, limit, read.reference)
            q == TraderQuantity(fraction, unit)
<1>1. read.available \in Nat /\ read.reference \in Nat /\ fraction \in 0 .. 10000
  <2>1. fraction \in Nat /\ fraction <= 10000
    BY SizingAssumption
  <2>. QED  BY <2>1 DEF SizingInv, SizingTypeOK
<1>2. limit \in Nat
  BY <1>1, TraderLimitIsNat
<1>. HIDE DEF limit
<1>3. Sized(side, kind, limit, q, fraction) /\ unit > 0
  BY DEF TraderOrders, limit
<1>4. unit \in Nat \ {0}
  BY <1>1, <1>2, <1>3, UnitCostIsNat
<1>. DEFINE parts == 10000
            c == CutToLot(read.available * fraction, parts, unit)
<1>5. q = c
  BY DEF TraderQuantity
<1>6. parts \in Nat \ {0} /\ fraction \in 0 .. parts /\ (fraction = 10000 => fraction = parts)
  BY <1>1
<1>. HIDE DEF unit, parts
<1>7. c \in Nat
  <2>1. read.available \in Nat
    BY <1>1
  <2>2. parts \in Nat \ {0} /\ fraction \in 0 .. parts
    BY <1>6
  <2>3. CutToLot(read.available * fraction, parts, unit) \in Nat
    BY ONLY <1>4, <2>1, <2>2, CutIsNat
  <2>. QED  BY <2>3
<1>. HIDE DEF q, c
<1>8. q \in Nat /\ fraction \in Nat /\ unit # 0
  BY <1>1, <1>4, <1>5, <1>7
<1>9. unit = UnitCost(side, kind, limit, read.reference)
  BY DEF unit
<1>10. q = CutToLot(read.available * fraction, parts, unit)
  BY <1>5 DEF c
<1>. QED  BY <1>2, <1>3, <1>6, <1>8, <1>9, <1>10, SizedKeeps

LEMMA PlaceKeeps == ASSUME SizingInv, Place PROVE SizingInv'
<1>1. CASE order = NoOrder
  BY <1>1 DEF Place
<1>2. CASE order # NoOrder
  <2>1. /\ order.side \in Sides /\ order.kind \in Kinds /\ order.limit \in Nat
        /\ order.quantity \in Nat /\ available \in Nat /\ reference \in Nat
    BY <1>2 DEF SizingInv, SizingTypeOK, Sides, Kinds
  <2>2. Reserve(order, order.quantity, reference) \in Nat
    BY <2>1, ReserveIsCost
  <2>3. available' \in Nat /\ reference' \in Nat /\ read' = read /\ order' = NoOrder
    BY <2>1, <2>2 DEF Place, Fits
  <2>. QED  BY <2>3 DEF SizingInv, SizingTypeOK
<1>. QED  BY <1>1, <1>2

LEMMA ReadsKeep == ASSUME SizingInv, ReadBalance \/ ReadReference PROVE SizingInv'
<1>1. /\ order = NoOrder /\ order' = order /\ available' = available /\ reference' = reference
      /\ \/ read' = [read EXCEPT !.available = available]
         \/ read' = [read EXCEPT !.reference = reference]
  BY DEF ReadBalance, ReadReference
<1>2. read' \in [available : Nat, reference : Nat]
  BY <1>1 DEF SizingInv, SizingTypeOK
<1>. QED  BY <1>1, <1>2 DEF SizingInv, SizingTypeOK

\* What moves meanwhile is not what the order was sized with.
LEMMA MovesKeep == ASSUME SizingInv, BalanceMoves \/ PriceMoves PROVE SizingInv'
<1>1. reference' \in Nat /\ available' \in Nat /\ read' = read /\ order' = order
  <2>1. available \in Nat /\ reference \in Nat /\ Balances \subseteq Nat /\ References \subseteq Nat
    BY SizingAssumption DEF SizingInv, SizingTypeOK
  <2>2. CASE BalanceMoves
    BY <2>1, <2>2 DEF BalanceMoves
  <2>3. CASE PriceMoves
    BY <2>1, <2>3 DEF PriceMoves
  <2>. QED  BY <2>2, <2>3
<1>2. SizingTypeOK'
  BY <1>1 DEF SizingInv, SizingTypeOK
<1>3. Affordable' <=> Affordable
  BY <1>1 DEF Affordable, UnitCost
<1>. QED  BY <1>1, <1>2, <1>3 DEF SizingInv

LEMMA SizingInductive == ASSUME SizingInv, [SizingNext]_sizingVars PROVE SizingInv'
<1>1. ASSUME NEW side \in Sides, NEW kind \in Kinds, NEW limit \in Limits, NEW percent \in Percents,
             Shortcut(side, kind, limit, percent)
      PROVE  SizingInv'
  BY <1>1, ShortcutKeeps
<1>2. ASSUME NEW side \in Sides, NEW kind \in Kinds, NEW spread \in Spreads, NEW fraction \in Fractions,
             TraderOrders(side, kind, spread, fraction)
      PROVE  SizingInv'
  BY <1>2, TraderOrdersKeeps
<1>3. CASE ReadBalance \/ ReadReference
  BY <1>3, ReadsKeep
<1>6. CASE BalanceMoves \/ PriceMoves
  BY <1>6, MovesKeep
<1>4. CASE Place
  BY <1>4, PlaceKeeps
<1>5. CASE UNCHANGED sizingVars
  BY <1>5 DEF sizingVars, SizingInv, SizingTypeOK, Affordable
<1>. QED  BY <1>1, <1>2, <1>3, <1>4, <1>5, <1>6 DEF SizingNext, Sides, Kinds

\* An order that is waiting to be placed can be paid from the balance that was
\* read, at the price that was read, and one lot more could not, wherever balance
\* and price have moved meanwhile.
THEOREM SizingInvariance == SizingSpec => []SizingInv
  BY SizingStarts, SizingInductive, PTL DEF SizingSpec

LEMMA BalancesAscend ==
    ASSUME NEW less \in Nat, NEW more \in Nat, less <= more
    PROVE  less * 100 * Scale <= more * 100 * Scale
<1>1. Scale \in Nat
  BY ScaleAssumption
<1>2. PICK z \in Nat : more = less + z
  OBVIOUS
<1>3. /\ more * 100 * Scale = less * 100 * Scale + z * 100 * Scale
      /\ less * 100 * Scale \in Nat /\ z * 100 * Scale \in Nat
  BY <1>1, <1>2, Product
<1>. QED  BY <1>3

LEMMA SizedWell == SizingInv => SizedExactly
<1>. SUFFICES ASSUME SizingInv, order # NoOrder PROVE IsAccepted /\ LeavesNothing
  BY DEF SizedExactly
<1>. DEFINE unit == UnitCost(order.side, order.kind, order.limit, read.reference)
            cost == order.quantity * UnitCost(order.side, order.kind, order.limit, reference)
            funds == read.available * 100 * Scale
            balance == available * 100 * Scale
<1>1. /\ order.side \in Sides /\ order.kind \in Kinds /\ order.limit \in Nat
      /\ order.quantity \in Nat /\ available \in Nat /\ reference \in Nat
      /\ read.available \in Nat /\ read.reference \in Nat
  BY DEF SizingInv, SizingTypeOK, Sides, Kinds
<1>2. Lot \in Nat \ {0} /\ Scale \in Nat \ {0}
  BY ScaleAssumption
<1>3. /\ order.quantity * unit <= funds
      /\ order.part # 10000 \/ (order.quantity + Lot) * unit > funds \/ order.quantity = MaxQuantity
  BY DEF SizingInv, Affordable
<1>4. unit \in Nat /\ UnitCost(order.side, order.kind, order.limit, reference) \in Nat
  BY <1>1, UnitCostIsNat
<1>5. cost \in Nat /\ order.quantity * unit \in Nat /\ funds \in Nat /\ balance \in Nat
  BY <1>1, <1>2, <1>4
<1>6. IsAccepted
  <2>1. CASE available < read.available
    BY <2>1 DEF IsAccepted
  <2>2. CASE order.side = "buy" /\ order.kind = "market" /\ reference > read.reference
    BY <2>2 DEF IsAccepted
  <2>3. CASE /\ ~ (available < read.available)
             /\ ~ (order.side = "buy" /\ order.kind = "market" /\ reference > read.reference)
    <3>1. order.side = "sell" \/ order.kind = "limit" \/ reference <= read.reference
      BY <1>1, <2>3 DEF Sides, Kinds
    <3>2. cost <= order.quantity * unit
      BY <1>1, <3>1, CostsNoMore
    <3>3. funds <= balance
      BY <1>1, <1>2, <2>3, BalancesAscend
    <3>4. cost <= balance
      <4>. HIDE DEF cost, funds, balance, unit
      <4>. QED  BY <1>3, <1>5, <3>2, <3>3
    <3>5. Reserve(order, order.quantity, reference) <= available
      BY <1>1, <3>4, ReserveIsCost
    <3>. QED  BY <3>5 DEF IsAccepted, Fits
  <2>. QED  BY <2>1, <2>2, <2>3
<1>7. LeavesNothing
  <2>. SUFFICES ASSUME order.part = 10000, order.quantity # MaxQuantity
                PROVE  Reserve(order, order.quantity + Lot, read.reference) >= read.available
    BY DEF LeavesNothing
  <2>. DEFINE q == order.quantity + Lot
  <2>1. q \in Nat
    BY <1>1, <1>2
  <2>2. funds < q * unit
    BY <1>3
  <2>3. q * unit \in Nat
    BY <1>4, <2>1
  <2>4. funds <= q * unit
    BY <1>5, <2>2, <2>3
  <2>. DEFINE balance2 == read.available
              ref == read.reference
  <2>5. balance2 \in Nat /\ ref \in Nat
    BY <1>1
  <2>6. balance2 * 100 * Scale <= q * UnitCost(order.side, order.kind, order.limit, ref)
    BY <2>4
  <2>. HIDE DEF q, balance2, ref
  <2>7. Reserve(order, q, ref) >= balance2
    BY <1>1, <2>1, <2>5, <2>6, ReserveIsCost
  <2>. QED  BY <2>7 DEF q, balance2, ref
<1>. QED  BY <1>6, <1>7

\* The two ends of an order's arithmetic agree: what the page or a trader cuts to
\* lots is accepted by place_order from a balance that has not fallen and at a
\* price that has not risen since, and "All" leaves less than a lot.
THEOREM SizesAreExact == SizingSpec => []SizedExactly
  BY SizingInvariance, SizedWell, PTL

-----------------------------------------------------------------------------
(* Browser: what answers are about *)

LEMMA FieldsFacts ==
    /\ Private \subseteq Fields /\ "balances" \in Private /\ "orders" \in Private
    /\ \A f \in Private : f # "feed" /\ f # "book" /\ f # "leaderboard"
    /\ "feed" \in Fields /\ "book" \in Fields /\ "leaderboard" \in Fields
  BY DEF Fields, Private

\* What an answer is about depends on one part of the selection.
LEMMA AboutFacts ==
    ASSUME NEW s, NEW t
    PROVE  /\ \A f \in Fields \ {"book"} : s.offset = t.offset /\ s.token = t.token => About(f, s) = About(f, t)
           /\ \A f \in Fields \ {"leaderboard"} : s.market = t.market /\ s.token = t.token => About(f, s) = About(f, t)
           /\ \A f \in Fields \ Private : s.market = t.market /\ s.offset = t.offset => About(f, s) = About(f, t)
  BY FieldsFacts DEF About, Fields

LEMMA WithoutFacts ==
    ASSUME NEW S \in SUBSET Fields, NEW snapshot
    PROVE  /\ IsSnapshot(Without(S, snapshot))
           /\ \A f \in Fields : Without(S, snapshot)[f] = IF f \in S THEN None ELSE snapshot[f]
  BY DEF Without, IsSnapshot

\* Data are cleared with the part of the selection that they are about.
LEMMA ClearingKeeps ==
    ASSUME NEW S \in SUBSET Fields, NEW snapshot, NEW s, NEW t, IsAbout(snapshot, s),
           \A f \in Fields \ S : About(f, s) = About(f, t),
           t.token = s.token \/ Private \subseteq S
    PROVE  IsAbout(Without(S, snapshot), t)
  BY WithoutFacts, FieldsFacts DEF IsAbout

LEMMA SelectionFacts ==
    ASSUME NEW s \in Selections
    PROVE  /\ s = [market |-> s.market, offset |-> s.offset, token |-> s.token]
           /\ s.market \in Markets /\ s.offset \in 0 .. MaxOffset /\ s.token \in Tokens \union {SignedOut}
  BY DEF Selections

\* The poll notes its selection once and only asks about that.
PollOK == poll # None => PollInv

LEMMA PollStays == ASSUME PollOK, UNCHANGED poll PROVE PollOK'
  BY DEF PollOK, PollInv, IsSnapshot, IsAbout

TasksOK ==
    /\ tasks # {} => busy /\ \A s, t \in tasks : s = t
    /\ \A task \in tasks : TaskInv(task)

LEMMA PageParts ==
    /\ PageInv <=> /\ chosen \in Selections /\ IsSnapshot(shown) /\ IsAbout(shown, chosen)
                   /\ PollOK /\ TasksOK
    /\ PageInv' <=> /\ (chosen \in Selections)' /\ IsSnapshot(shown)' /\ IsAbout(shown, chosen)'
                    /\ PollOK' /\ TasksOK'
  BY DEF PageInv, PollOK, TasksOK, ShownIsChosen

LEMMA PageStarts == ASSUME Init PROVE PageInv
<1>1. chosen \in Selections /\ shown = [f \in Fields |-> None] /\ poll = None /\ tasks = {}
  BY DEF Init
<1>2. IsSnapshot(shown) /\ IsAbout(shown, chosen)
  BY <1>1, FieldsFacts DEF IsSnapshot, IsAbout
<1>. QED  BY <1>1, <1>2, PageParts DEF PollOK, TasksOK

-----------------------------------------------------------------------------
(* Browser: the polling loop *)

LEMMA BeginPollKeeps == ASSUME PageInv, BeginPoll PROVE PageInv'
<1>. USE PageParts
<1>1. /\ chosen' = chosen /\ shown' = shown /\ busy' = busy /\ tasks' = tasks /\ poll' = Asks(chosen)
  BY DEF BeginPoll, page
<1>2. TasksOK'
  BY <1>1 DEF TasksOK, TaskInv
<1>3. Requests(chosen) \in Seq(Fields)
      /\ (chosen.token = SignedOut => Requests(chosen) \in Seq(Fields \ Private))
  <2>. DEFINE public == <<"feed", "book", "leaderboard">>
              private == IF chosen.token = SignedOut THEN <<>> ELSE <<"balances", "orders", "fills">>
  <2>1. public \in Seq(Fields) /\ public \in Seq(Fields \ Private) /\ <<>> \in Seq(Fields \ Private)
    BY DEF Fields, Private
  <2>2. private \in Seq(Fields) /\ (chosen.token = SignedOut => private \in Seq(Fields \ Private))
    <3>1. <<>> \in Seq(Fields) /\ <<"balances", "orders", "fills">> \in Seq(Fields)
      BY DEF Fields, Private
    <3>. QED  BY <2>1, <3>1
  <2>3. Requests(chosen) = public \o private
    BY DEF Requests
  <2>. HIDE DEF public, private
  <2>. QED  BY <2>1, <2>2, <2>3
<1>. DEFINE next == IF chosen.token = SignedOut THEN Without(Private, shown) ELSE shown
<1>4. IsSnapshot(next)
  BY WithoutFacts, FieldsFacts
<1>5. IsAbout(next, chosen)
  <2>1. IsAbout(Without(Private, shown), chosen)
    BY FieldsFacts, ClearingKeeps
  <2>. QED  BY <2>1
<1>6. poll' = [of |-> chosen, todo |-> Requests(chosen), failed |-> FALSE, next |-> next]
  BY <1>1 DEF Asks
<1>. HIDE DEF next
<1>7. PollInv'
  BY <1>3, <1>4, <1>5, <1>6 DEF PollInv, IsSnapshot, IsAbout
<1>. QED  BY <1>1, <1>2, <1>7 DEF PollOK, IsSnapshot, IsAbout

LEMMA FetchKeeps == ASSUME PageInv, Fetch PROVE PageInv'
<1>. USE PageParts
<1>. DEFINE f == Head(poll.todo)
            s == poll.of
            next == [poll.next EXCEPT ![f] = Answer(f, s)]
<1>1. /\ chosen' = chosen /\ shown' = shown /\ busy' = busy /\ tasks' = tasks
      /\ poll # None /\ poll.todo # <<>> /\ PollInv
      /\ poll' = [poll EXCEPT !.todo = Tail(@), !.next[f] = Answer(f, poll.of)]
  BY DEF Fetch, Asking, page, PollOK
<1>2. TasksOK'
  BY <1>1 DEF TasksOK, TaskInv
<1>3. /\ poll = [of |-> s, todo |-> poll.todo, failed |-> poll.failed, next |-> poll.next]
      /\ s \in Selections /\ poll.todo \in Seq(Fields) /\ IsSnapshot(poll.next) /\ IsAbout(poll.next, s)
      /\ (s.token = SignedOut => poll.todo \in Seq(Fields \ Private))
  BY <1>1 DEF PollInv
<1>4. f \in Fields /\ Tail(poll.todo) \in Seq(Fields)
      /\ (s.token = SignedOut => f \notin Private /\ Tail(poll.todo) \in Seq(Fields \ Private))
  BY <1>1, <1>3
<1>5. poll' = [of |-> s, todo |-> Tail(poll.todo), failed |-> poll.failed, next |-> next]
  BY <1>1, <1>3
<1>6. IsSnapshot(next) /\ \A g \in Fields : next[g] = IF g = f THEN Answer(f, s) ELSE poll.next[g]
  <2>. HIDE DEF f, s
  <2>. QED  BY <1>3, <1>4 DEF IsSnapshot
<1>7. Answer(f, s).of = About(f, s)
  BY DEF Answer
<1>. HIDE DEF f, s, next
<1>8. IsAbout(next, s)
  BY <1>3, <1>4, <1>6, <1>7, FieldsFacts DEF IsAbout
<1>9. PollInv'
  BY <1>3, <1>4, <1>5, <1>6, <1>8 DEF PollInv, IsSnapshot, IsAbout
<1>. QED  BY <1>1, <1>2, <1>9 DEF PollOK, IsSnapshot, IsAbout

LEMMA PollFailsKeeps == ASSUME PageInv, PollFails PROVE PageInv'
<1>. USE PageParts
<1>1. /\ chosen' = chosen /\ shown' = shown /\ busy' = busy /\ tasks' = tasks
      /\ PollInv /\ poll' = [poll EXCEPT !.failed = TRUE]
  BY DEF PollFails, Asking, page, PollOK
<1>2. TasksOK'
  BY <1>1 DEF TasksOK, TaskInv
<1>3. poll' = [of |-> poll.of, todo |-> poll.todo, failed |-> TRUE, next |-> poll.next]
  BY <1>1 DEF PollInv
<1>4. PollInv'
  BY <1>1, <1>3 DEF PollInv, IsSnapshot, IsAbout
<1>. QED  BY <1>1, <1>2, <1>4 DEF PollOK, IsSnapshot, IsAbout

LEMMA EndPollKeeps == ASSUME PageInv, EndPoll PROVE PageInv'
<1>. USE PageParts
<1>1. /\ chosen' = chosen /\ busy' = busy /\ tasks' = tasks /\ poll' = None /\ PollInv
      /\ shown' = IF poll.of = chosen /\ ~ poll.failed THEN poll.next ELSE shown
  BY DEF EndPoll, StillWanted, PollOK
<1>2. TasksOK'
  BY <1>1 DEF TasksOK, TaskInv
<1>3. IsSnapshot(shown') /\ IsAbout(shown', chosen)
  BY <1>1 DEF PollInv
<1>. QED  BY <1>1, <1>2, <1>3 DEF PollOK, IsSnapshot, IsAbout

-----------------------------------------------------------------------------
(* Browser: the user and the answers *)

LEMMA TasksStay ==
    ASSUME TasksOK, busy' = busy, tasks' = tasks,
           chosen'.token = chosen.token \/ chosen'.token = SignedOut
    PROVE  TasksOK'
  BY DEF TasksOK, TaskInv

LEMMA ChooseMarketKeeps == ASSUME PageInv, NEW m \in Markets, ChooseMarket(m) PROVE PageInv'
<1>. USE PageParts
<1>1. /\ chosen' = [chosen EXCEPT !.market = m] /\ shown' = Without({"book"}, shown)
      /\ busy' = busy /\ tasks' = tasks /\ poll' = poll
  BY DEF ChooseMarket
<1>2. chosen' \in Selections /\ chosen'.offset = chosen.offset /\ chosen'.token = chosen.token
  BY <1>1 DEF Selections
<1>3. IsSnapshot(shown') /\ IsAbout(shown', chosen')
  <2>. DEFINE S == {"book"}
  <2>1. S \in SUBSET Fields
    BY FieldsFacts
  <2>2. \A f \in Fields \ S : About(f, chosen) = About(f, chosen')
    BY <1>2, AboutFacts
  <2>3. chosen'.token = chosen.token \/ Private \subseteq S
    BY <1>2
  <2>4. shown' = Without(S, shown)
    BY <1>1
  <2>. HIDE DEF S
  <2>. QED  BY <2>1, <2>2, <2>3, <2>4, WithoutFacts, ClearingKeeps
<1>. QED  BY <1>1, <1>2, <1>3, PollStays, TasksStay DEF IsSnapshot, IsAbout

LEMMA TurnPageKeeps == ASSUME PageInv, NEW to \in 0 .. MaxOffset, TurnPage(to) PROVE PageInv'
<1>. USE PageParts
<1>1. /\ chosen' = [chosen EXCEPT !.offset = to] /\ shown' = Without({"leaderboard"}, shown)
      /\ busy' = busy /\ tasks' = tasks /\ poll' = poll
  BY DEF TurnPage
<1>2. chosen' \in Selections /\ chosen'.market = chosen.market /\ chosen'.token = chosen.token
  BY <1>1 DEF Selections
<1>3. IsSnapshot(shown') /\ IsAbout(shown', chosen')
  <2>. DEFINE S == {"leaderboard"}
  <2>1. S \in SUBSET Fields
    BY FieldsFacts
  <2>2. \A f \in Fields \ S : About(f, chosen) = About(f, chosen')
    BY <1>2, AboutFacts
  <2>3. chosen'.token = chosen.token \/ Private \subseteq S
    BY <1>2
  <2>4. shown' = Without(S, shown)
    BY <1>1
  <2>. HIDE DEF S
  <2>. QED  BY <2>1, <2>2, <2>3, <2>4, WithoutFacts, ClearingKeeps
<1>. QED  BY <1>1, <1>2, <1>3, PollStays, TasksStay DEF IsSnapshot, IsAbout

LEMMA SignOutKeeps == ASSUME PageInv, SignOut PROVE PageInv'
<1>. USE PageParts
<1>1. /\ chosen' = [chosen EXCEPT !.token = SignedOut] /\ shown' = Without(Private, shown)
      /\ busy' = busy /\ tasks' = tasks /\ poll' = poll
  BY DEF SignOut
<1>2. /\ chosen' \in Selections /\ chosen'.market = chosen.market /\ chosen'.offset = chosen.offset
      /\ chosen'.token = SignedOut
  BY <1>1 DEF Selections
<1>3. IsSnapshot(shown') /\ IsAbout(shown', chosen')
  <2>. DEFINE S == Private
  <2>1. S \in SUBSET Fields
    BY FieldsFacts
  <2>2. \A f \in Fields \ S : About(f, chosen) = About(f, chosen')
    BY <1>2, AboutFacts
  <2>3. chosen'.token = chosen.token \/ Private \subseteq S
    BY <1>2
  <2>4. shown' = Without(S, shown)
    BY <1>1
  <2>. HIDE DEF S
  <2>. QED  BY <2>1, <2>2, <2>3, <2>4, WithoutFacts, ClearingKeeps
<1>. QED  BY <1>1, <1>2, <1>3, PollStays, TasksStay DEF IsSnapshot, IsAbout

\* `busy` lets only one future run.
LEMMA SpawnKeeps == ASSUME PageInv, NEW task, TaskInv(task), Spawn(task) PROVE PageInv'
<1>. USE PageParts
<1>1. /\ chosen' = chosen /\ shown' = shown /\ poll' = poll /\ busy' = TRUE /\ tasks = {}
      /\ tasks' = {task}
  BY DEF Spawn, TasksOK
<1>2. TasksOK'
  BY <1>1 DEF TasksOK, TaskInv
<1>. QED  BY <1>1, <1>2, PollStays DEF IsSnapshot, IsAbout

LEMMA ActsKeep == ASSUME PageInv, Acts PROVE PageInv'
<1>1. CASE \E m \in Markets : ChooseMarket(m)
  BY <1>1, ChooseMarketKeeps
<1>2. CASE \E to \in 0 .. MaxOffset : TurnPage(to)
  BY <1>2, TurnPageKeeps
<1>3. CASE SignOut
  BY <1>3, SignOutKeeps
<1>4. CASE \E t \in Tokens : Authenticate(OwnerOf[t])
  <2>1. PICK t \in Tokens : Authenticate(OwnerOf[t])
    BY <1>4
  <2>2. TaskInv([kind |-> "authenticate", user |-> OwnerOf[t]])
    BY <2>1 DEF Authenticate, TaskInv
  <2>. QED  BY <2>1, <2>2, SpawnKeeps DEF Authenticate
<1>5. chosen.token # SignedOut => chosen.token \in Tokens
  BY SelectionFacts, PageParts
<1>6. CASE CancelAll
  <2>1. TaskInv([kind |-> "cancel", auth |-> chosen.token])
    BY <1>5, <1>6 DEF CancelAll, TaskInv
  <2>. QED  BY <1>6, <2>1, SpawnKeeps DEF CancelAll
<1>7. CASE Submit
  <2>1. TaskInv([kind |-> "submit", auth |-> chosen.token])
    BY <1>5, <1>7 DEF Submit, TaskInv
  <2>. QED  BY <1>7, <2>1, SpawnKeeps DEF Submit
<1>. QED  BY <1>1, <1>2, <1>3, <1>4, <1>6, <1>7 DEF Acts

\* The future that ends was the only one.
LEMMA EndsLeavesNone ==
    ASSUME TasksOK, NEW task \in tasks, Ends(task)
    PROVE  tasks' = {} /\ TasksOK'
  BY DEF Ends, TasksOK

LEMMA TaskFailsKeeps == ASSUME PageInv, NEW task \in tasks, TaskFails(task) PROVE PageInv'
<1>. USE PageParts
<1>1. chosen' = chosen /\ shown' = shown /\ poll' = poll /\ TasksOK'
  BY EndsLeavesNone DEF TaskFails
<1>. QED  BY <1>1, PollStays DEF IsSnapshot, IsAbout

LEMMA SignedInKeeps == ASSUME PageInv, NEW task \in tasks, SignedIn(task) PROVE PageInv'
<1>. USE PageParts
<1>1. shown' = shown /\ poll' = poll /\ TasksOK'
  BY EndsLeavesNone DEF SignedIn
<1>2. chosen.token = SignedOut
  BY DEF SignedIn, TasksOK, TaskInv
<1>3. PICK t \in Tokens : chosen' = [chosen EXCEPT !.token = t]
  BY DEF SignedIn
<1>4. /\ chosen' \in Selections /\ chosen'.market = chosen.market /\ chosen'.offset = chosen.offset
      /\ chosen'.token = t
  BY <1>3 DEF Selections
<1>5. IsAbout(shown, chosen')
  BY <1>2, <1>4, FieldsFacts, AboutFacts, BrowserAssumption DEF IsAbout
<1>. QED  BY <1>1, <1>4, <1>5, PollStays DEF IsSnapshot, IsAbout

LEMMA SubmittedKeeps == ASSUME PageInv, NEW task \in tasks, Submitted(task) PROVE PageInv'
<1>. USE PageParts
<1>1. chosen' = chosen /\ shown' = shown /\ poll' = poll /\ TasksOK'
  BY EndsLeavesNone DEF Submitted
<1>. QED  BY <1>1, PollStays DEF IsSnapshot, IsAbout

\* A cancel-all goes on to ask for the balances.
LEMMA GoesOn ==
    ASSUME PageInv, NEW task \in tasks, NEW next, TaskInv(next),
           tasks' = (tasks \ {task}) \union {next}, UNCHANGED <<page, poll>>
    PROVE  PageInv'
<1>. USE PageParts
<1>1. chosen' = chosen /\ shown' = shown /\ poll' = poll /\ busy' = busy /\ busy /\ tasks' = {next}
  BY DEF page, TasksOK
<1>2. TasksOK'
  BY <1>1 DEF TasksOK, TaskInv
<1>. QED  BY <1>1, <1>2, PollStays DEF IsSnapshot, IsAbout

LEMMA CancelledKeeps == ASSUME PageInv, NEW task \in tasks, Cancelled(task) PROVE PageInv'
<1>1. task.auth \in Tokens
  BY PageParts DEF Cancelled, TasksOK, TaskInv
<1>2. TaskInv([kind |-> "refresh", auth |-> task.auth])
  BY <1>1 DEF TaskInv
<1>. QED  BY <1>2, GoesOn DEF Cancelled

LEMMA RefreshedKeeps == ASSUME PageInv, NEW task \in tasks, Refreshed(task) PROVE PageInv'
<1>. DEFINE s == [chosen EXCEPT !.token = task.auth]
            value == Answer("balances", s)
<1>1. task.auth \in Tokens /\ chosen \in Selections
  BY PageParts DEF Refreshed, TasksOK, TaskInv
<1>2. s.token = task.auth
  BY <1>1 DEF Selections
<1>3. value.of = OwnerOf[task.auth]
  BY <1>1, <1>2, BrowserAssumption, FieldsFacts DEF Answer, About
<1>4. TaskInv([kind |-> "arrived", auth |-> task.auth, value |-> value])
  BY <1>1, <1>3 DEF TaskInv
<1>. QED  BY <1>4, GoesOn DEF Refreshed

LEMMA ShowsKeeps == ASSUME PageInv, NEW task \in tasks, Shows(task) PROVE PageInv'
<1>. USE PageParts
<1>. DEFINE cleared == Without({"orders"}, shown)
            new == [cleared EXCEPT !["balances"] = task.value]
<1>1. /\ chosen' = chosen /\ poll' = poll /\ TasksOK'
      /\ shown' = IF chosen.token # task.auth THEN shown ELSE new
  BY EndsLeavesNone DEF Shows
<1>2. task.auth \in Tokens /\ task.value.of = OwnerOf[task.auth]
  BY DEF Shows, TasksOK, TaskInv
<1>3. IsSnapshot(cleared) /\ IsAbout(cleared, chosen)
  BY FieldsFacts, WithoutFacts, ClearingKeeps
<1>. HIDE DEF cleared
<1>4. IsSnapshot(new) /\ \A f \in Fields : new[f] = IF f = "balances" THEN task.value ELSE cleared[f]
  BY <1>3, FieldsFacts DEF IsSnapshot
<1>5. ASSUME chosen.token = task.auth PROVE IsAbout(new, chosen)
  <2>1. chosen.token # SignedOut
    BY <1>2, <1>5, BrowserAssumption
  <2>2. About("balances", chosen) = task.value.of
    BY <1>2, <1>5, <2>1, FieldsFacts DEF About
  <2>. HIDE DEF new
  <2>. QED  BY <1>3, <1>4, <2>1, <2>2 DEF IsAbout
<1>. HIDE DEF new
<1>6. IsSnapshot(shown') /\ IsAbout(shown', chosen)
  BY <1>1, <1>4, <1>5
<1>. QED  BY <1>1, <1>6, PollStays DEF IsSnapshot, IsAbout

LEMMA PageInductive == ASSUME PageInv, [Next]_vars PROVE PageInv'
<1>1. CASE Polls
  BY <1>1, BeginPollKeeps, FetchKeeps, PollFailsKeeps, EndPollKeeps DEF Polls
<1>2. CASE Acts
  BY <1>2, ActsKeep
<1>3. ASSUME NEW task \in tasks, Answered(task) PROVE PageInv'
  BY <1>3, SignedInKeeps, SubmittedKeeps, CancelledKeeps, RefreshedKeeps, ShowsKeeps, TaskFailsKeeps
     DEF Answered
<1>4. ASSUME UNCHANGED <<page, poll, tasks>> PROVE PageInv'
  <2>1. chosen' = chosen /\ shown' = shown /\ busy' = busy /\ poll' = poll /\ tasks' = tasks
    BY <1>4 DEF page
  <2>. QED  BY <2>1, PageParts, PollStays, TasksStay DEF IsSnapshot, IsAbout
<1>5. CASE Happens \/ (\E t \in Tokens : Expires(t)) \/ UNCHANGED vars
  BY <1>4, <1>5 DEF Happens, Expires, vars
<1>. QED  BY <1>1, <1>2, <1>3, <1>5 DEF Next

\* What the page, the poll under way and the futures under way hold is about
\* the selections they were asked for.
THEOREM PageInvariance == Spec => []PageInv
  BY PageStarts, PageInductive, PTL DEF Spec

\* The page never shows another market's book, another page of the leaderboard
\* or another user's account, in whatever order clicks and answers come.
THEOREM ShowsTheChosen == Spec => []ShownIsChosen
<1>1. PageInv => ShownIsChosen
  BY DEF PageInv
<1>. QED  BY <1>1, PageInvariance, PTL

-----------------------------------------------------------------------------
(* PriceFeed: times *)

N == Len(Products)

LEMMA FeedConstants ==
    /\ N \in Nat \ {0} /\ DOMAIN Products = 1 .. N /\ Products \in Seq(Names)
    /\ Ages \subseteq Int /\ Second \in Nat \ {0}
    /\ MaxAge \in Nat /\ MaxAhead \in Nat /\ FreshFor \in Nat
    /\ RequestTime \in Nat /\ PoolTime \in Nat /\ WorkTime \in Nat
    /\ Period \in Nat /\ Horizon \in Nat
<1>1. Products \in Seq(Names) /\ Products # <<>>
  BY FeedAssumption
<1>2. N \in Nat \ {0} /\ DOMAIN Products = 1 .. N
  BY <1>1 DEF N
<1>. QED  BY <1>1, <1>2, FeedAssumption

\* The time of k requests.
Times(k) == k * RequestTime

LEMMA TimesFacts ==
    ASSUME NEW k \in Int
    PROVE  /\ Times(k) \in Int /\ Times(0) = 0
           /\ Times(k + 1) = Times(k) + RequestTime /\ Times(k - 1) = Times(k) - RequestTime
           /\ k >= 0 => Times(k) >= 0
           /\ \A j \in Int : j <= k => Times(j) <= Times(k)
<1>1. RequestTime \in Nat
  BY FeedConstants
<1>2. Times(k) \in Int /\ Times(0) = 0 /\ (k >= 0 => Times(k) >= 0)
  BY <1>1, Product DEF Times
<1>3. Times(k + 1) = Times(k) + RequestTime /\ Times(k - 1) = Times(k) - RequestTime
  BY <1>1 DEF Times
<1>4. ASSUME NEW j \in Int, j <= k PROVE Times(j) <= Times(k)
  <2>1. PICK z \in Nat : k = j + z
    BY <1>4
  <2>2. Times(k) = Times(j) + z * RequestTime
    BY <1>1, <2>1 DEF Times
  <2>3. z * RequestTime \in Nat /\ Times(j) \in Int
    BY <1>1, <2>1, Product DEF Times
  <2>. QED  BY <1>2, <2>2, <2>3
<1>. QED  BY <1>2, <1>3, <1>4

LEMMA OldestAgeIsInt == OldestAge \in Int
<1>1. MaxAge + 1 \in Nat /\ Second \in Nat
  BY FeedConstants
<1>2. (MaxAge + 1) * Second \in Nat
  BY <1>1, Product
<1>. QED  BY <1>2 DEF OldestAge

\* Cutting to whole seconds lets a trade pass that is less than a second older.
LEMMA WholeSecondsPass ==
    ASSUME NEW time \in Int, WholeSeconds(time) \in -MaxAhead .. MaxAge
    PROVE  time <= OldestAge /\ OldestAge \in Nat
<1>1. Second \in Nat \ {0} /\ MaxAge \in Nat /\ MaxAhead \in Nat
  BY FeedConstants
<1>2. (MaxAge + 1) * Second = MaxAge * Second + Second /\ MaxAge * Second \in Nat
  BY <1>1, Product
<1>3. OldestAge \in Nat
  BY <1>1, <1>2 DEF OldestAge
<1>4. CASE time >= 0
  <2>. DEFINE s == time \div Second
              r == time % Second
  <2>1. time \in Nat /\ s \in Nat /\ r \in 0 .. Second - 1 /\ time = Second * s + r
    BY <1>1, <1>4, Quotient
  <2>. HIDE DEF s, r
  <2>2. s <= MaxAge
    BY <1>1, <1>4, <2>1 DEF WholeSeconds, s
  <2>3. PICK z \in Nat : MaxAge = s + z
    BY <1>1, <2>1, <2>2
  <2>4. MaxAge * Second = Second * s + z * Second /\ z * Second \in Nat /\ Second * s \in Nat
    BY <1>1, <2>1, <2>3, Product
  <2>. QED  BY <1>1, <1>2, <1>3, <2>1, <2>4 DEF OldestAge
<1>5. CASE ~ (time >= 0)
  BY <1>3, <1>5
<1>. QED  BY <1>4, <1>5, <1>3

\* What the trades in s may be at the time t, k of the markets being asked for.
TradesOK(t, k, s, waits) ==
    \A i \in 1 .. Len(s) : t - s[i] <= OldestAge + Times(k - i) + waits

\* The parts of the invariant in terms of N and Times.
LEMMA FeedParts ==
    /\ Round = Period + Times(N) + 3 * PoolTime + 3 * WorkTime
    /\ OldestTrade = OldestAge + Times(N - 1) + PoolTime
    /\ AcceptedInv <=>
         /\ pc \in {"sleeps", "lists"} => asked = 0 /\ accepted = <<>>
         /\ pc = "asks" => asked > 0 /\ Len(accepted) = asked - 1 /\ TradesOK(due, asked, accepted, 0)
         /\ pc \in {"begins", "writes"} => asked = N /\ Len(accepted) = asked
         /\ pc = "begins" => TradesOK(due, asked, accepted, PoolTime)
         /\ pc = "writes" => TradesOK(stamp, asked, accepted, PoolTime)
    /\ pc = "sleeps" => NextStamp = due + Times(N) + 3 * PoolTime + 2 * WorkTime
    /\ pc = "lists" => NextStamp = due + Times(N) + 2 * PoolTime + WorkTime
    /\ pc = "asks" => NextStamp = due + Times(N - asked) + 2 * PoolTime + WorkTime
    /\ pc = "begins" => NextStamp = due + PoolTime + WorkTime
    /\ pc = "writes" => NextStamp = due + PoolTime
    /\ pc = "failed" => NextStamp = due
    /\ pc = "withdraws" => NextStamp = stamp
  BY DEF Round, OldestTrade, AcceptedInv, NotOlder, NextStamp, TradesOK, Times, N

LEMMA FeedPartsNext ==
    /\ AcceptedInv' <=>
         /\ pc' \in {"sleeps", "lists"} => asked' = 0 /\ accepted' = <<>>
         /\ pc' = "asks" => asked' > 0 /\ Len(accepted') = asked' - 1 /\ TradesOK(due', asked', accepted', 0)
         /\ pc' \in {"begins", "writes"} => asked' = N /\ Len(accepted') = asked'
         /\ pc' = "begins" => TradesOK(due', asked', accepted', PoolTime)
         /\ pc' = "writes" => TradesOK(stamp', asked', accepted', PoolTime)
    /\ pc' = "sleeps" => NextStamp' = due' + Times(N) + 3 * PoolTime + 2 * WorkTime
    /\ pc' = "lists" => NextStamp' = due' + Times(N) + 2 * PoolTime + WorkTime
    /\ pc' = "asks" => NextStamp' = due' + Times(N - asked') + 2 * PoolTime + WorkTime
    /\ pc' = "begins" => NextStamp' = due' + PoolTime + WorkTime
    /\ pc' = "writes" => NextStamp' = due' + PoolTime
    /\ pc' = "failed" => NextStamp' = due'
    /\ pc' = "withdraws" => NextStamp' = stamp'
  BY DEF AcceptedInv, NotOlder, NextStamp, TradesOK, Times, N, OldestAge

PCs == {"sleeps", "lists", "asks", "begins", "writes", "failed", "withdraws"}

LEMMA FeedTypes ==
    ASSUME FeedTypeOK
    PROVE  /\ now \in Nat /\ due \in Nat /\ stamp \in Nat /\ missed \in Nat
           /\ asked \in 0 .. N /\ NextStamp \in Int
           /\ \A m \in Names : price[m].trade \in Int /\ price[m].updated \in Int
           /\ accepted \in Seq(Int) /\ \A i \in 1 .. Len(accepted) : accepted[i] \in Int
           /\ pc \in PCs /\ quoted \subseteq Names
<1>1. /\ now \in Nat /\ due \in Nat /\ stamp \in Nat /\ missed \in Nat
      /\ asked \in 0 .. N /\ accepted \in Seq(Int) /\ pc \in PCs /\ quoted \subseteq Names
      /\ price \in [Names -> [trade : Int, updated : Int]]
  BY DEF FeedTypeOK, N, PCs
<1>2. Times(N) \in Int /\ Times(N - asked) \in Int
  BY <1>1, FeedConstants, TimesFacts
<1>3. NextStamp \in Int
  <2>1. PoolTime \in Nat /\ WorkTime \in Nat
    BY FeedConstants
  <2>2. \/ NextStamp = due + Times(N) + 3 * PoolTime + 2 * WorkTime
        \/ NextStamp = due + Times(N) + 2 * PoolTime + WorkTime
        \/ NextStamp = due + Times(N - asked) + 2 * PoolTime + WorkTime
        \/ NextStamp = due + PoolTime + WorkTime
        \/ NextStamp = due + PoolTime
        \/ NextStamp = due \/ NextStamp = stamp
    BY <1>1, FeedParts DEF PCs
  <2>. QED  BY ONLY <1>1, <1>2, <2>1, <2>2
<1>4. \A m \in Names : price[m].trade \in Int /\ price[m].updated \in Int
  BY <1>1
<1>. QED  BY <1>1, <1>3, <1>4

\* The loop is not late for its next withdrawal.
LEMMA StampIsDue == ASSUME FeedTypeOK, pc # "withdraws" PROVE due <= NextStamp
<1>1. /\ due \in Nat /\ PoolTime \in Nat /\ WorkTime \in Nat
      /\ asked \in 0 .. N /\ N \in Nat
  BY FeedTypes, FeedConstants
<1>2. N - asked \in Int /\ N - asked >= 0 /\ N \in Int /\ N >= 0
  BY <1>1
<1>3. Times(N) \in Int /\ Times(N) >= 0 /\ Times(N - asked) \in Int /\ Times(N - asked) >= 0
  BY <1>2, TimesFacts
<1>4. \/ NextStamp = due + Times(N) + 3 * PoolTime + 2 * WorkTime
      \/ NextStamp = due + Times(N) + 2 * PoolTime + WorkTime
      \/ NextStamp = due + Times(N - asked) + 2 * PoolTime + WorkTime
      \/ NextStamp = due + PoolTime + WorkTime
      \/ NextStamp = due + PoolTime
      \/ NextStamp = due
  BY FeedTypes, FeedParts DEF PCs
<1>. QED  BY ONLY <1>1, <1>3, <1>4

LEMMA RoundFacts == /\ Round \in Nat /\ Round' = Round
                    /\ OldestTrade' = OldestTrade /\ Launched' = Launched
<1>1. Period \in Nat /\ PoolTime \in Nat /\ WorkTime \in Nat /\ N \in Int /\ N >= 0
  BY FeedConstants
<1>2. Times(N) \in Int /\ Times(N) >= 0
  BY <1>1, TimesFacts
<1>3. Round = Period + Times(N) + 3 * PoolTime + 3 * WorkTime
  BY FeedParts
<1>. QED  BY <1>1, <1>2, <1>3 DEF Round, OldestTrade, OldestAge, Launched

\* How long a quote may stay after its price with k withdrawals missed.
Allowed(k) == FreshFor + (k + 1) * Round

LEMMA AllowedFacts ==
    ASSUME NEW k \in Nat
    PROVE  /\ Allowed(k) \in Nat /\ Allowed(k + 1) = Allowed(k) + Round
           /\ Allowed(0) = FreshFor + Round
<1>1. Round \in Nat /\ FreshFor \in Nat
  BY RoundFacts, FeedConstants
<1>2. (k + 1) * Round \in Nat /\ (k + 1 + 1) * Round = (k + 1) * Round + Round
  BY <1>1, Product
<1>. QED  BY <1>1, <1>2 DEF Allowed

LEMMA VisitParts ==
    /\ VisitInv <=> \A m \in quoted : NextStamp - price[m].updated <= Allowed(missed)
    /\ VisitInv' <=> \A m \in quoted' : NextStamp' - price'[m].updated <= Allowed(missed')
  BY RoundFacts DEF VisitInv, Allowed

LEMMA FeedStarts == ASSUME FeedInit PROVE FeedInv
<1>1. /\ now = 0 /\ due = 0 /\ stamp = 0 /\ missed = 0 /\ pc = "sleeps" /\ asked = 0
      /\ answer = <<>> /\ accepted = <<>>
      /\ quoted = {} /\ price = [m \in Names |-> [trade |-> 0, updated |-> Launched]]
  BY DEF FeedInit
<1>2. Launched \in Int /\ Launched <= 0
  BY FeedConstants DEF Launched
<1>3. \A m \in Names : price[m].updated = Launched
  BY <1>1
<1>4. FeedTypeOK
  <2>1. price \in [Names -> [trade : Int, updated : Int]]
    BY <1>1, <1>2
  <2>. QED  BY <1>1, <2>1, FeedConstants DEF FeedTypeOK, N
<1>5. PriceInv
  BY <1>1, <1>2, <1>3 DEF PriceInv
<1>. QED  BY <1>1, <1>4, <1>5, FeedParts DEF FeedInv, VisitInv, StampInv

-----------------------------------------------------------------------------
(* PriceFeed: the steps *)

\* What a step that leaves the rows of the markets alone has to keep.
LEMMA RowsStay ==
    ASSUME FeedInv, UNCHANGED <<price, quoted, missed>>, now <= now', NextStamp' <= NextStamp,
           now' \in Nat, NextStamp' \in Int
    PROVE  PriceInv' /\ VisitInv'
<1>1. /\ now \in Nat /\ NextStamp \in Int /\ missed \in Nat /\ quoted \subseteq Names
      /\ \A m \in Names : price[m].trade \in Int /\ price[m].updated \in Int
  BY FeedTypes DEF FeedInv
<1>2. PriceInv'
  <2>1. ASSUME NEW m \in Names
        PROVE  /\ price'[m].updated <= now'
               /\ \/ price'[m].updated = Launched
                  \/ price'[m].updated - price'[m].trade <= OldestTrade
    <3>1. price[m].updated <= now
      BY DEF FeedInv, PriceInv
    <3>2. price[m].updated = Launched \/ price[m].updated - price[m].trade <= OldestTrade
      BY DEF FeedInv, PriceInv
    <3>. QED  BY <1>1, <3>1, <3>2
  <2>. QED  BY <2>1, RoundFacts DEF PriceInv
<1>3. VisitInv'
  <2>1. ASSUME NEW m \in quoted PROVE NextStamp' - price[m].updated <= Allowed(missed)
    <3>1. NextStamp - price[m].updated <= Allowed(missed)
      BY VisitParts DEF FeedInv
    <3>2. Allowed(missed) \in Nat
      BY <1>1, AllowedFacts
    <3>. QED  BY <1>1, <3>1, <3>2
  <2>. QED  BY <2>1, VisitParts
<1>. QED  BY <1>2, <1>3

LEMMA PassesKeeps == ASSUME FeedInv, Passes PROVE FeedInv'
<1>1. /\ now' = now + 1 /\ now < due /\ price' = price /\ quoted' = quoted /\ pc' = pc /\ due' = due
      /\ stamp' = stamp /\ asked' = asked /\ answer' = answer /\ accepted' = accepted /\ missed' = missed
  BY DEF Passes, generator
<1>2. FeedTypeOK /\ now \in Nat /\ due \in Nat /\ stamp \in Nat /\ NextStamp \in Int
  BY FeedTypes DEF FeedInv
<1>3. FeedTypeOK' /\ now' <= due'
  BY <1>1, <1>2 DEF FeedTypeOK
<1>4. AcceptedInv' /\ NextStamp' = NextStamp
  BY <1>1 DEF FeedInv, AcceptedInv, NotOlder, NextStamp, OldestAge
<1>5. StampInv'
  BY <1>1, <1>2 DEF FeedInv, StampInv
<1>6. PriceInv' /\ VisitInv'
  BY <1>1, <1>2, <1>4, RowsStay
<1>. QED  BY <1>3, <1>4, <1>5, <1>6 DEF FeedInv

LEMMA ProvidesKeeps == ASSUME FeedInv, Provides PROVE FeedInv'
<1>1. /\ now' = now /\ price' = price /\ quoted' = quoted /\ pc' = pc /\ due' = due
      /\ stamp' = stamp /\ asked' = asked /\ accepted' = accepted /\ missed' = missed
  BY DEF Provides
<1>2. FeedTypeOK /\ now \in Nat /\ NextStamp \in Int
  BY FeedTypes DEF FeedInv
<1>3. answer' \in Seq(Int) /\ Len(answer') <= 1
  <2>1. PICK age \in Ages : answer' = <<now - age>>
    BY DEF Provides
  <2>2. now - age \in Int
    BY <1>2, FeedConstants
  <2>. QED  BY <2>1, <2>2
<1>4. FeedTypeOK' /\ now' <= due'
  BY <1>1, <1>2, <1>3 DEF FeedTypeOK, FeedInv
<1>5. AcceptedInv' /\ NextStamp' = NextStamp /\ StampInv'
  BY <1>1 DEF FeedInv, AcceptedInv, NotOlder, NextStamp, StampInv, OldestAge
<1>6. PriceInv' /\ VisitInv'
  BY <1>1, <1>2, <1>5, RowsStay
<1>. QED  BY <1>4, <1>5, <1>6 DEF FeedInv

LEMMA WakeKeeps == ASSUME FeedInv, Wake PROVE FeedInv'
<1>1. /\ pc = "sleeps" /\ now = due /\ now' = now /\ price' = price /\ quoted' = quoted
      /\ stamp' = stamp /\ asked' = asked /\ answer' = answer /\ accepted' = accepted /\ missed' = missed
      /\ pc' = "lists" /\ due' = now + (PoolTime + WorkTime)
  BY DEF Wake, Goes
<1>2. FeedTypeOK /\ now \in Nat /\ due \in Nat /\ NextStamp \in Int
  BY FeedTypes DEF FeedInv
<1>3. PoolTime \in Nat /\ WorkTime \in Nat /\ Times(N) \in Int
  BY FeedConstants, TimesFacts
<1>4. due' \in Nat /\ now' <= due'
  BY <1>1, <1>2, <1>3
<1>5. FeedTypeOK'
  BY <1>1, <1>2, <1>4 DEF FeedTypeOK
<1>6. AcceptedInv' /\ StampInv'
  BY <1>1, FeedParts, FeedPartsNext DEF FeedInv, StampInv
<1>7. NextStamp' = NextStamp
  <2>1. /\ NextStamp = due + Times(N) + 3 * PoolTime + 2 * WorkTime
        /\ NextStamp' = due' + Times(N) + 2 * PoolTime + WorkTime
    BY <1>1, FeedParts, FeedPartsNext
  <2>. QED  BY <1>1, <1>2, <1>3, <2>1
<1>8. PriceInv' /\ VisitInv'
  BY <1>1, <1>2, <1>7, RowsStay
<1>. QED  BY <1>4, <1>5, <1>6, <1>8 DEF FeedInv

LEMMA ListKeeps == ASSUME FeedInv, List PROVE FeedInv'
<1>1. /\ pc = "lists" /\ now' = now /\ price' = price /\ quoted' = quoted
      /\ stamp' = stamp /\ asked' = 1 /\ answer' = answer /\ accepted' = accepted /\ missed' = missed
      /\ pc' = "asks" /\ due' = now + RequestTime
  BY DEF List, Goes
<1>2. FeedTypeOK /\ now \in Nat /\ due \in Nat /\ NextStamp \in Int /\ now <= due
  BY FeedTypes DEF FeedInv
<1>3. /\ PoolTime \in Nat /\ WorkTime \in Nat /\ RequestTime \in Nat /\ N \in Nat \ {0}
      /\ Times(N) \in Int /\ Times(N - 1) = Times(N) - RequestTime
  BY FeedConstants, TimesFacts
<1>4. due' \in Nat /\ now' <= due' /\ asked' \in 0 .. N
  BY <1>1, <1>2, <1>3
<1>5. FeedTypeOK'
  BY <1>1, <1>2, <1>4 DEF FeedTypeOK, N
<1>6. AcceptedInv' /\ StampInv'
  <2>1. accepted = <<>>
    BY <1>1, FeedParts DEF FeedInv
  <2>2. Len(accepted') = 0 /\ TradesOK(due', asked', accepted', 0)
    BY <1>1, <2>1 DEF TradesOK
  <2>. QED  BY <1>1, <2>2, FeedPartsNext DEF StampInv
<1>7. NextStamp' <= NextStamp /\ NextStamp' \in Int
  <2>1. /\ NextStamp = due + Times(N) + 2 * PoolTime + WorkTime
        /\ NextStamp' = due' + Times(N - 1) + 2 * PoolTime + WorkTime
    BY <1>1, FeedParts, FeedPartsNext
  <2>. QED  BY <1>1, <1>2, <1>3, <2>1
<1>8. PriceInv' /\ VisitInv'
  BY <1>1, <1>2, <1>7, RowsStay
<1>. QED  BY <1>4, <1>5, <1>6, <1>8 DEF FeedInv

\* At most one answer is under way: what is there is one trade.
LEMMA OneTrade ==
    ASSUME NEW trades \in Seq(Int), Len(trades) <= 1, trades # <<>>
    PROVE  Len(trades) = 1 /\ trades[1] \in Int
<1>1. Len(trades) \in Nat \ {0}
  BY EmptySeq
<1>2. Len(trades) = 1
  <2>. DEFINE n == Len(trades)
  <2>1. n \in Nat \ {0} /\ n <= 1
    BY <1>1
  <2>. HIDE DEF n
  <2>2. n = 1
    BY ONLY <2>1
  <2>. QED  BY <2>2 DEF n
<1>3. 1 \in 1 .. Len(trades)
  BY <1>2
<1>4. trades[1] \in Int
  BY <1>3, ElementOfSeq, Zenon
<1>. QED  BY <1>2, <1>4

\* The trade of an answer comes last.
LEMMA OneTradeMore ==
    ASSUME NEW some \in Seq(Int), NEW more \in Seq(Int), Len(more) = 1
    PROVE  /\ some \o more \in Seq(Int) /\ Len(some \o more) = Len(some) + 1
           /\ \A i \in 1 .. Len(some) + 1 :
                 (some \o more)[i] = IF i = Len(some) + 1 THEN more[1] ELSE some[i]
<1>1. Len(some) \in Nat
  BY LenProperties
<1>2. \A i \in 1 .. Len(some) + 1 :
        (some \o more)[i] = IF i <= Len(some) THEN some[i] ELSE more[i - Len(some)]
  <2>1. Len(some) + Len(more) = Len(some) + 1
    BY <1>1
  <2>2. \A i \in 1 .. Len(some) + Len(more) :
          (some \o more)[i] = IF i <= Len(some) THEN some[i] ELSE more[i - Len(some)]
    BY ConcatProperties, Zenon
  <2>. QED  BY ONLY <2>1, <2>2
<1>3. some \o more \in Seq(Int)
  BY ConcatProperties, Zenon
<1>4. Len(some \o more) = Len(some) + 1
  <2>1. Len(some \o more) = Len(some) + Len(more)
    BY ConcatProperties, Zenon
  <2>. QED  BY ONLY <2>1, Len(more) = 1
<1>5. ASSUME NEW i \in 1 .. Len(some) + 1
      PROVE  (some \o more)[i] = IF i = Len(some) + 1 THEN more[1] ELSE some[i]
  <2>1. CASE i = Len(some) + 1
    <3>1. i - Len(some) = 1 /\ ~ (i <= Len(some))
      BY <1>1, <2>1
    <3>. QED  BY ONLY <1>2, <2>1, <3>1
  <2>2. CASE i # Len(some) + 1
    <3>1. i <= Len(some)
      BY <1>1, <2>2
    <3>. QED  BY ONLY <1>2, <2>2, <3>1
  <2>. QED  BY <2>1, <2>2
<1>. QED  BY <1>3, <1>4, <1>5

LEMMA AcceptKeeps == ASSUME FeedInv, Accept PROVE FeedInv'
<1>1. /\ pc = "asks" /\ answer # <<>> /\ Acceptable(answer[1])
      /\ now' = now /\ price' = price /\ quoted' = quoted /\ stamp' = stamp /\ missed' = missed
      /\ accepted' = accepted \o answer /\ answer' = <<>>
  BY DEF Accept, Proceed
<1>2. /\ FeedTypeOK /\ now \in Nat /\ due \in Nat /\ asked \in 0 .. N /\ NextStamp \in Int /\ now <= due
      /\ accepted \in Seq(Int) /\ \A i \in 1 .. Len(accepted) : accepted[i] \in Int
  BY FeedTypes DEF FeedInv
<1>3. /\ N \in Nat \ {0} /\ RequestTime \in Nat /\ PoolTime \in Nat /\ WorkTime \in Nat
  BY FeedConstants
<1>4. /\ asked > 0 /\ Len(accepted) = asked - 1 /\ TradesOK(due, asked, accepted, 0)
      /\ NextStamp = due + Times(N - asked) + 2 * PoolTime + WorkTime
  BY <1>1, FeedParts DEF FeedInv
<1>5. \/ asked < N /\ asked' = asked + 1 /\ pc' = "asks" /\ due' = now + RequestTime
      \/ asked = N /\ asked' = asked /\ pc' = "begins" /\ due' = now + PoolTime
  BY DEF Accept, Proceed, Goes, N
<1>6. answer \in Seq(Int) /\ Len(answer) = 1 /\ answer[1] \in Int
  <2>1. answer \in Seq(Int) /\ Len(answer) <= 1 /\ answer # <<>>
    BY <1>1, <1>2 DEF FeedTypeOK
  <2>. QED  BY <2>1, OneTrade
<1>7. /\ accepted' \in Seq(Int) /\ Len(accepted') = asked
      /\ \A i \in 1 .. asked : accepted'[i] = IF i = asked THEN answer[1] ELSE accepted[i]
  <2>1. accepted' = accepted \o answer /\ accepted \in Seq(Int) /\ answer \in Seq(Int)
    BY <1>1, <1>2, <1>6
  <2>2. Len(accepted) + 1 = asked /\ Len(answer) = 1
    BY <1>2, <1>4, <1>6
  <2>. QED  BY <2>1, <2>2, OneTradeMore
<1>8. due' \in Nat /\ now' <= due' /\ asked' \in 0 .. N /\ asked' > 0
  BY <1>1, <1>2, <1>3, <1>4, <1>5
<1>9. FeedTypeOK'
  <2>1. answer' \in Seq(Int) /\ Len(answer') <= 1
    BY <1>1
  <2>. QED  BY <1>1, <1>2, <1>5, <1>7, <1>8, <2>1 DEF FeedTypeOK, N
\* Now the trades are as old as the requests since the first of them took.
<1>10. OldestAge \in Nat /\ now - answer[1] <= OldestAge
  <2>1. now - answer[1] \in Int
    BY <1>2, <1>6
  <2>. QED  BY <1>1, <2>1, WholeSecondsPass DEF Acceptable
<1>11. ASSUME NEW i \in 1 .. asked
       PROVE  accepted'[i] \in Int /\ now - accepted'[i] <= OldestAge + Times(asked - i)
  <2>1. asked - i \in Int /\ Times(asked - i) \in Int /\ Times(0) = 0
    BY <1>2, TimesFacts
  <2>2. CASE i = asked
    <3>1. accepted'[i] = answer[1] /\ asked - i = 0
      BY <1>2, <1>7, <2>2
    <3>. QED  BY <1>6, <1>10, <2>1, <3>1
  <2>3. CASE i # asked
    <3>1. i \in 1 .. Len(accepted) /\ accepted'[i] = accepted[i]
      BY <1>2, <1>4, <1>7, <2>3
    <3>2. due - accepted[i] <= OldestAge + Times(asked - i) + 0 /\ accepted[i] \in Int
      BY <1>2, <1>4, <3>1 DEF TradesOK
    <3>. QED  BY <1>2, <1>10, <2>1, <3>1, <3>2
  <2>. QED  BY <2>2, <2>3
<1>12. AcceptedInv'
  <2>1. CASE pc' = "asks"
    <3>1. asked' = asked + 1 /\ due' = now + RequestTime
      BY <1>5, <2>1
    <3>2. ASSUME NEW i \in 1 .. Len(accepted')
          PROVE  due' - accepted'[i] <= OldestAge + Times(asked' - i) + 0
      <4>1. i \in 1 .. asked
        BY <1>7
      <4>2. asked - i \in Int /\ asked' - i = (asked - i) + 1
        BY <1>2, <3>1, <4>1
      <4>3. Times(asked - i) \in Int /\ Times(asked' - i) = Times(asked - i) + RequestTime
        BY <4>2, TimesFacts
      <4>. QED  BY <1>2, <1>3, <1>10, <1>11, <3>1, <4>1, <4>3
    <3>3. TradesOK(due', asked', accepted', 0)
      BY <3>2 DEF TradesOK
    <3>4. Len(accepted') = asked' - 1
      BY <1>2, <1>7, <3>1
    <3>. QED  BY <1>8, <2>1, <3>3, <3>4, FeedPartsNext
  <2>2. CASE pc' = "begins"
    <3>1. asked' = asked /\ asked = N /\ due' = now + PoolTime
      BY <1>5, <2>2
    <3>2. ASSUME NEW i \in 1 .. Len(accepted')
          PROVE  due' - accepted'[i] <= OldestAge + Times(asked' - i) + PoolTime
      <4>1. i \in 1 .. asked
        BY <1>7
      <4>2. asked - i \in Int /\ Times(asked - i) \in Int
        BY <1>2, <4>1, TimesFacts
      <4>. QED  BY <1>2, <1>3, <1>10, <1>11, <3>1, <4>1, <4>2
    <3>3. TradesOK(due', asked', accepted', PoolTime)
      BY <3>2 DEF TradesOK
    <3>. QED  BY <1>7, <2>2, <3>1, <3>3, FeedPartsNext
  <2>. QED  BY <1>5, <2>1, <2>2
<1>13. StampInv'
  BY <1>5 DEF StampInv
<1>14. NextStamp' <= NextStamp /\ NextStamp' \in Int
  <2>1. Times(N - asked) \in Int /\ Times(N - asked) >= 0
    <3>1. N - asked \in Int /\ N - asked >= 0
      BY <1>2, <1>3
    <3>. QED  BY <3>1, TimesFacts
  <2>2. CASE pc' = "asks"
    <3>1. N - asked \in Int /\ N - asked' = (N - asked) - 1 /\ due' = now + RequestTime
      BY <1>2, <1>3, <1>5, <2>2
    <3>2. Times(N - asked') = Times(N - asked) - RequestTime
      BY <3>1, TimesFacts
    <3>3. NextStamp' = due' + Times(N - asked') + 2 * PoolTime + WorkTime
      BY <2>2, FeedPartsNext
    <3>4. NextStamp' = due' + (Times(N - asked) - RequestTime) + 2 * PoolTime + WorkTime
      BY <3>2, <3>3
    <3>5. /\ now \in Nat /\ due \in Nat /\ now <= due /\ due' = now + RequestTime
          /\ RequestTime \in Nat /\ PoolTime \in Nat /\ WorkTime \in Nat
          /\ NextStamp = due + Times(N - asked) + 2 * PoolTime + WorkTime
      BY <1>2, <1>3, <1>4, <3>1
    <3>. QED  BY ONLY <2>1, <3>4, <3>5
  <2>3. CASE pc' = "begins"
    <3>1. due' = now + PoolTime
      BY <1>5, <2>3
    <3>2. NextStamp' = due' + PoolTime + WorkTime
      BY <2>3, FeedPartsNext
    <3>. QED  BY <1>2, <1>3, <1>4, <2>1, <3>1, <3>2
  <2>. QED  BY <1>5, <2>2, <2>3
<1>15. PriceInv' /\ VisitInv'
  BY <1>1, <1>2, <1>14, RowsStay
<1>. QED  BY <1>8, <1>9, <1>12, <1>13, <1>15 DEF FeedInv

LEMMA BeginKeeps == ASSUME FeedInv, Begin PROVE FeedInv'
<1>1. /\ pc = "begins" /\ now' = now /\ price' = price /\ quoted' = quoted
      /\ stamp' = now /\ asked' = asked /\ answer' = answer /\ accepted' = accepted /\ missed' = missed
      /\ pc' = "writes" /\ due' = now + WorkTime
  BY DEF Begin, Goes
<1>2. /\ FeedTypeOK /\ now \in Nat /\ due \in Nat /\ NextStamp \in Int /\ now <= due
      /\ asked \in 0 .. N /\ \A i \in 1 .. Len(accepted) : accepted[i] \in Int
  BY FeedTypes DEF FeedInv
<1>3. PoolTime \in Nat /\ WorkTime \in Nat /\ N \in Nat
  BY FeedConstants
<1>4. due' \in Nat /\ now' <= due'
  BY <1>1, <1>2, <1>3
<1>5. FeedTypeOK'
  BY <1>1, <1>2, <1>4 DEF FeedTypeOK
<1>6. AcceptedInv'
  <2>1. asked = N /\ Len(accepted) = asked /\ TradesOK(due, asked, accepted, PoolTime)
    BY <1>1, FeedParts DEF FeedInv
  <2>2. ASSUME NEW i \in 1 .. Len(accepted)
        PROVE  now - accepted[i] <= OldestAge + Times(asked - i) + PoolTime
    <3>1. due - accepted[i] <= OldestAge + Times(asked - i) + PoolTime /\ accepted[i] \in Int
      BY <1>2, <2>1 DEF TradesOK
    <3>2. asked - i \in Int /\ Times(asked - i) \in Int
      BY <1>2, <2>1, TimesFacts
    <3>3. OldestAge \in Int
      BY FeedConstants, OldestAgeIsInt
    <3>. QED  BY <1>2, <1>3, <3>1, <3>2, <3>3
  <2>3. TradesOK(stamp', asked', accepted', PoolTime)
    BY <1>1, <2>2 DEF TradesOK
  <2>. QED  BY <1>1, <2>1, <2>3, FeedPartsNext
<1>7. StampInv'
  BY <1>1, <1>2 DEF StampInv
<1>8. NextStamp' <= NextStamp /\ NextStamp' \in Int
  <2>1. NextStamp = due + PoolTime + WorkTime /\ NextStamp' = due' + PoolTime
    BY <1>1, FeedParts, FeedPartsNext
  <2>. QED  BY <1>1, <1>2, <1>3, <2>1
<1>9. PriceInv' /\ VisitInv'
  BY <1>1, <1>2, <1>8, RowsStay
<1>. QED  BY <1>4, <1>5, <1>6, <1>7, <1>9 DEF FeedInv

LEMMA FailKeeps == ASSUME FeedInv, Fail PROVE FeedInv'
<1>1. /\ pc \in {"lists", "asks", "begins", "writes"}
      /\ now' = now /\ price' = price /\ quoted' = quoted /\ stamp' = stamp /\ asked' = asked
      /\ accepted' = accepted /\ missed' = missed
      /\ answer' = <<>> /\ pc' = "failed" /\ due' = now + PoolTime
  BY DEF Fail, Goes
<1>2. FeedTypeOK /\ now \in Nat /\ due \in Nat /\ NextStamp \in Int /\ now <= due /\ asked \in 0 .. N
  BY FeedTypes DEF FeedInv
<1>3. PoolTime \in Nat /\ WorkTime \in Nat /\ N \in Nat
  BY FeedConstants
<1>4. due' \in Nat /\ now' <= due'
  BY <1>1, <1>2, <1>3
<1>5. FeedTypeOK'
  BY <1>1, <1>2, <1>4 DEF FeedTypeOK
<1>6. AcceptedInv' /\ NextStamp' = now + PoolTime /\ StampInv'
  BY <1>1, FeedPartsNext DEF StampInv
<1>7. NextStamp' <= NextStamp /\ NextStamp' \in Int
  <2>1. N \in Int /\ N >= 0 /\ N - asked \in Int /\ N - asked >= 0
    BY <1>2, <1>3
  <2>2. Times(N) \in Int /\ Times(N) >= 0 /\ Times(N - asked) \in Int /\ Times(N - asked) >= 0
    BY <2>1, TimesFacts
  <2>3. \/ NextStamp = due + Times(N) + 2 * PoolTime + WorkTime
        \/ NextStamp = due + Times(N - asked) + 2 * PoolTime + WorkTime
        \/ NextStamp = due + PoolTime + WorkTime
        \/ NextStamp = due + PoolTime
    BY <1>1, FeedParts
  <2>. QED  BY ONLY <1>2, <1>3, <1>6, <2>2, <2>3
<1>8. PriceInv' /\ VisitInv'
  BY <1>1, <1>2, <1>7, RowsStay
<1>. QED  BY <1>4, <1>5, <1>6, <1>8 DEF FeedInv

LEMMA BeginWithdrawalKeeps == ASSUME FeedInv, BeginWithdrawal PROVE FeedInv'
<1>1. /\ pc = "failed" /\ now' = now /\ price' = price /\ quoted' = quoted
      /\ stamp' = now /\ asked' = asked /\ answer' = answer /\ accepted' = accepted /\ missed' = missed
      /\ pc' = "withdraws" /\ due' = now + WorkTime
  BY DEF BeginWithdrawal, Goes
<1>2. FeedTypeOK /\ now \in Nat /\ due \in Nat /\ NextStamp \in Int /\ now <= due
  BY FeedTypes DEF FeedInv
<1>3. WorkTime \in Nat
  BY FeedConstants
<1>4. due' \in Nat /\ now' <= due'
  BY <1>1, <1>2, <1>3
<1>5. FeedTypeOK'
  BY <1>1, <1>2, <1>4 DEF FeedTypeOK
<1>6. AcceptedInv' /\ StampInv'
  BY <1>1, <1>2, FeedPartsNext DEF StampInv
<1>7. NextStamp' <= NextStamp /\ NextStamp' \in Int
  BY <1>1, <1>2, FeedParts, FeedPartsNext
<1>8. PriceInv' /\ VisitInv'
  BY <1>1, <1>2, <1>7, RowsStay
<1>. QED  BY <1>4, <1>5, <1>6, <1>8 DEF FeedInv

\* The loop begins to sleep, whatever rows it has just visited: the next
\* withdrawal is due a round after a stamp that is no older than WorkTime.
LEMMA SleepKeeps ==
    ASSUME FeedTypeOK, Sleep, now' = now
    PROVE  /\ due' \in Nat /\ now' <= due' /\ AcceptedInv' /\ StampInv'
           /\ NextStamp' = now - WorkTime + Round
           /\ pc' = "sleeps" /\ asked' = 0 /\ accepted' = <<>>
<1>1. /\ now \in Nat /\ Period \in Nat /\ PoolTime \in Nat /\ WorkTime \in Nat
      /\ N \in Int /\ Times(N) \in Int
  BY FeedTypes, FeedConstants, TimesFacts
<1>2. pc' = "sleeps" /\ due' = now + Period /\ asked' = 0 /\ accepted' = <<>>
  BY DEF Sleep, Goes
<1>3. /\ NextStamp' = due' + Times(N) + 3 * PoolTime + 2 * WorkTime
      /\ Round = Period + Times(N) + 3 * PoolTime + 3 * WorkTime
  BY <1>2, FeedParts, FeedPartsNext
<1>4. AcceptedInv' /\ StampInv'
  BY <1>2, FeedPartsNext DEF StampInv
<1>. QED  BY <1>1, <1>2, <1>3, <1>4

LEMMA WriteKeeps == ASSUME FeedInv, Write PROVE FeedInv'
<1>. DEFINE place(m) == CHOOSE i \in DOMAIN Products : Products[i] = m
<1>1. /\ pc = "writes" /\ Sleep /\ now' = now /\ stamp' = stamp /\ answer' = answer
      /\ quoted' = Names /\ missed' = 0
      /\ price' = [m \in Names |-> [trade |-> accepted[place(m)], updated |-> stamp]]
  BY DEF Write
<1>2. /\ FeedTypeOK /\ now \in Nat /\ due \in Nat /\ stamp \in Nat /\ now <= due
      /\ accepted \in Seq(Int) /\ \A i \in 1 .. Len(accepted) : accepted[i] \in Int
  BY FeedTypes DEF FeedInv
<1>3. /\ N \in Nat \ {0} /\ DOMAIN Products = 1 .. N /\ PoolTime \in Nat /\ WorkTime \in Nat
      /\ FreshFor \in Nat
  BY FeedConstants
<1>4. /\ Len(accepted) = N /\ TradesOK(stamp, N, accepted, PoolTime)
      /\ stamp <= now /\ due = stamp + WorkTime
  BY <1>1, FeedParts DEF FeedInv, StampInv
<1>5. \A m \in Names : place(m) \in 1 .. N
  BY <1>3 DEF Names
<1>. HIDE DEF place
<1>6. ASSUME NEW m \in Names
      PROVE  accepted[place(m)] \in Int /\ stamp - accepted[place(m)] <= OldestTrade
  <2>. DEFINE i == place(m)
  <2>1. i \in 1 .. N
    BY <1>5
  <2>. HIDE DEF i
  <2>2. accepted[i] \in Int /\ stamp - accepted[i] <= OldestAge + Times(N - i) + PoolTime
    BY <1>2, <1>4, <2>1 DEF TradesOK
  <2>3. N - i \in Int /\ N - 1 \in Int /\ N - i <= N - 1
    BY <1>3, <2>1
  <2>4. Times(N - i) \in Int /\ Times(N - 1) \in Int /\ Times(N - i) <= Times(N - 1)
    BY <2>3, TimesFacts
  <2>5. OldestTrade = OldestAge + Times(N - 1) + PoolTime /\ OldestAge \in Int
    BY FeedParts, OldestAgeIsInt
  <2>6. stamp - accepted[i] <= OldestTrade
    BY <1>2, <1>3, <2>2, <2>4, <2>5
  <2>. QED  BY <2>2, <2>6 DEF i
<1>7. /\ due' \in Nat /\ now' <= due' /\ AcceptedInv' /\ StampInv' /\ NextStamp' = now - WorkTime + Round
      /\ pc' = "sleeps" /\ asked' = 0 /\ accepted' = <<>>
  BY <1>1, <1>2, SleepKeeps
<1>8. \A m \in Names : price'[m].updated = stamp /\ price'[m].trade = accepted[place(m)]
  BY <1>1
<1>9. FeedTypeOK'
  <2>1. price' \in [Names -> [trade : Int, updated : Int]]
    BY <1>1, <1>2, <1>6
  <2>2. answer' \in Seq(Int) /\ Len(answer') <= 1
    BY <1>1, <1>2 DEF FeedTypeOK
  <2>. QED  BY <1>1, <1>2, <1>3, <1>7, <2>1, <2>2 DEF FeedTypeOK, N
<1>10. PriceInv'
  BY <1>1, <1>2, <1>4, <1>6, <1>8, RoundFacts DEF PriceInv
<1>11. VisitInv'
  <2>1. NextStamp' - stamp <= FreshFor + Round
    BY <1>2, <1>3, <1>4, <1>7, RoundFacts
  <2>2. Allowed(missed') = FreshFor + Round
    BY <1>1, AllowedFacts
  <2>. QED  BY <1>1, <1>8, <2>1, <2>2, VisitParts
<1>. QED  BY <1>7, <1>9, <1>10, <1>11 DEF FeedInv

LEMMA WithdrawKeeps == ASSUME FeedInv, Withdraw PROVE FeedInv'
<1>1. /\ pc = "withdraws" /\ Sleep /\ now' = now /\ answer' = answer /\ price' = price /\ stamp' = stamp
      /\ missed' = 0 /\ quoted' = {m \in quoted : price[m].updated >= stamp - FreshFor}
  BY DEF Withdraw
<1>2. /\ FeedTypeOK /\ now \in Nat /\ due \in Nat /\ stamp \in Nat /\ now <= due
      /\ quoted \subseteq Names /\ FreshFor \in Nat /\ WorkTime \in Nat
      /\ \A m \in Names : price[m].trade \in Int /\ price[m].updated \in Int
  BY FeedTypes, FeedConstants DEF FeedInv
<1>3. /\ due' \in Nat /\ now' <= due' /\ AcceptedInv' /\ StampInv' /\ NextStamp' = now - WorkTime + Round
      /\ pc' = "sleeps" /\ asked' = 0 /\ accepted' = <<>>
  BY <1>1, <1>2, SleepKeeps
<1>4. FeedTypeOK'
  <2>1. answer' \in Seq(Int) /\ Len(answer') <= 1
    BY <1>1, <1>2 DEF FeedTypeOK
  <2>2. quoted' \subseteq Names /\ 0 \in 0 .. Len(Products) /\ <<>> \in Seq(Int)
    BY <1>1, <1>2, FeedConstants DEF N
  <2>. QED  BY <1>1, <1>2, <1>3, <2>1, <2>2 DEF FeedTypeOK
<1>5. PriceInv'
  BY <1>1, RoundFacts DEF FeedInv, PriceInv
<1>6. VisitInv'
  <2>1. stamp <= now /\ due = stamp + WorkTime
    BY <1>1 DEF FeedInv, StampInv
  <2>2. Allowed(missed') = FreshFor + Round
    BY <1>1, AllowedFacts
  <2>3. ASSUME NEW m \in quoted' PROVE NextStamp' - price'[m].updated <= FreshFor + Round
    <3>1. price[m].updated >= stamp - FreshFor /\ price[m].updated \in Int
      BY <1>1, <1>2
    <3>. QED  BY <1>1, <1>2, <1>3, <2>1, <3>1, RoundFacts
  <2>. QED  BY <2>2, <2>3, VisitParts
<1>. QED  BY <1>3, <1>4, <1>5, <1>6 DEF FeedInv

LEMMA MissWithdrawalKeeps == ASSUME FeedInv, MissWithdrawal PROVE FeedInv'
<1>1. /\ pc \in {"failed", "withdraws"} /\ Sleep /\ now' = now /\ answer' = answer /\ price' = price
      /\ stamp' = stamp /\ quoted' = quoted /\ missed' = missed + 1
  BY DEF MissWithdrawal
<1>2. /\ FeedTypeOK /\ now \in Nat /\ due \in Nat /\ stamp \in Nat /\ missed \in Nat /\ now <= due
      /\ quoted \subseteq Names /\ WorkTime \in Nat /\ NextStamp \in Int
      /\ \A m \in Names : price[m].trade \in Int /\ price[m].updated \in Int
  BY FeedTypes, FeedConstants DEF FeedInv
<1>3. /\ due' \in Nat /\ now' <= due' /\ AcceptedInv' /\ StampInv' /\ NextStamp' = now - WorkTime + Round
      /\ pc' = "sleeps" /\ asked' = 0 /\ accepted' = <<>>
  BY <1>1, <1>2, SleepKeeps
<1>4. FeedTypeOK'
  <2>1. answer' \in Seq(Int) /\ Len(answer') <= 1
    BY <1>1, <1>2 DEF FeedTypeOK
  <2>2. 0 \in 0 .. Len(Products) /\ <<>> \in Seq(Int) /\ missed' \in Nat
    BY <1>1, <1>2, FeedConstants DEF N
  <2>. QED  BY <1>1, <1>2, <1>3, <2>1, <2>2 DEF FeedTypeOK
<1>5. PriceInv'
  BY <1>1, RoundFacts DEF FeedInv, PriceInv
<1>6. now - WorkTime <= NextStamp
  <2>1. CASE pc = "failed"
    BY <1>2, <2>1, FeedParts
  <2>2. CASE pc = "withdraws"
    <3>1. due = stamp + WorkTime /\ NextStamp = stamp
      BY <2>2, FeedParts DEF FeedInv, StampInv
    <3>. QED  BY <1>2, <3>1
  <2>. QED  BY <1>1, <2>1, <2>2
<1>7. VisitInv'
  <2>1. Allowed(missed) \in Nat /\ Allowed(missed') = Allowed(missed) + Round
    BY <1>1, <1>2, AllowedFacts
  <2>2. ASSUME NEW m \in quoted PROVE NextStamp' - price[m].updated <= Allowed(missed')
    <3>1. NextStamp - price[m].updated <= Allowed(missed) /\ price[m].updated \in Int
      BY <1>2, VisitParts DEF FeedInv
    <3>. QED  BY <1>2, <1>3, <1>6, <2>1, <3>1, RoundFacts
  <2>. QED  BY <1>1, <2>2, VisitParts
<1>. QED  BY <1>3, <1>4, <1>5, <1>7 DEF FeedInv

LEMMA FeedInductive == ASSUME FeedInv, [FeedNext]_feedVars PROVE FeedInv'
<1>1. CASE UNCHANGED feedVars
  BY <1>1 DEF feedVars, generator, FeedInv, FeedTypeOK, AcceptedInv, NotOlder, StampInv, PriceInv,
              VisitInv, NextStamp, Round, OldestTrade, OldestAge, Launched
<1>. QED  BY <1>1, PassesKeeps, WakeKeeps, ListKeeps, ProvidesKeeps, AcceptKeeps, BeginKeeps, WriteKeeps,
             FailKeeps, BeginWithdrawalKeeps, WithdrawKeeps, MissWithdrawalKeeps DEF FeedNext

\* What the loop has accepted, what it has written and when it next decides about
\* the quotes are bounded at each of its steps, pool waits and failures included.
THEOREM FeedInvariance == FeedSpec => []FeedInv
  BY FeedStarts, FeedInductive, PTL DEF FeedSpec

\* The price an order's transaction begins with is from a trade no older than the
\* sum of the timeouts and the second that num_seconds() cuts off, with any number
\* of markets and any times.
THEOREM PricesAreRecent == FeedSpec => []PriceIsRecent
<1>1. ASSUME FeedInv, NEW m \in Names, Fresh(m)
      PROVE  now - price[m].trade < OldestTrade + FreshFor
  <2>1. now \in Nat /\ FreshFor \in Nat /\ price[m].trade \in Int /\ price[m].updated \in Int
    BY <1>1, FeedTypes, FeedConstants DEF FeedInv
  <2>2. price[m].updated > now - FreshFor
    BY <1>1 DEF Fresh
  <2>3. price[m].updated # Launched
    BY <2>1, <2>2, FeedConstants DEF Launched
  <2>4. price[m].updated - price[m].trade <= OldestTrade
    BY <1>1, <2>3 DEF FeedInv, PriceInv
  <2>5. OldestTrade \in Int
    <3>1. N - 1 \in Int /\ OldestAge \in Int /\ PoolTime \in Nat
      BY FeedConstants, OldestAgeIsInt
    <3>2. Times(N - 1) \in Int
      BY <3>1, TimesFacts
    <3>3. OldestTrade = OldestAge + Times(N - 1) + PoolTime
      BY FeedParts
    <3>. QED  BY ONLY <3>1, <3>2, <3>3
  <2>. QED  BY <2>1, <2>2, <2>4, <2>5
<1>2. FeedInv => PriceIsRecent
  BY <1>1 DEF PriceIsRecent, OldestTrade
<1>. QED  BY <1>2, FeedInvariance, PTL

\* No quote of the system outlives its price by more than a round of the loop and
\* one more for each withdrawal in a row that has failed.
THEOREM StaleQuotesVanish == FeedSpec => []StaleQuotesGo
<1>1. ASSUME FeedInv, NEW m \in quoted
      PROVE  now - price[m].updated <= FreshFor + (missed + 1) * Round + WorkTime
  <2>1. /\ now \in Nat /\ due \in Nat /\ stamp \in Nat /\ missed \in Nat /\ now <= due
        /\ NextStamp \in Int /\ price[m].updated \in Int /\ WorkTime \in Nat
    BY <1>1, FeedTypes, FeedConstants DEF FeedInv
  <2>2. now <= NextStamp + WorkTime
    <3>1. CASE pc = "withdraws"
      <4>1. due = stamp + WorkTime /\ NextStamp = stamp
        BY <1>1, <3>1, FeedParts DEF FeedInv, StampInv
      <4>. QED  BY <2>1, <4>1
    <3>2. CASE pc # "withdraws"
      <4>1. due <= NextStamp
        BY <1>1, <3>2, StampIsDue DEF FeedInv
      <4>. QED  BY <2>1, <4>1
    <3>. QED  BY <3>1, <3>2
  <2>3. NextStamp - price[m].updated <= Allowed(missed) /\ Allowed(missed) \in Nat
    BY <1>1, <2>1, VisitParts, AllowedFacts DEF FeedInv
  <2>4. now - price[m].updated <= Allowed(missed) + WorkTime
    BY <2>1, <2>2, <2>3
  <2>. QED  BY <2>4 DEF Allowed
<1>2. FeedInv => StaleQuotesGo
  BY <1>1 DEF StaleQuotesGo
<1>. QED  BY <1>2, FeedInvariance, PTL

-----------------------------------------------------------------------------
(* Leaderboard: the ranking, page by page *)

\* Competitors are finitely many, have numbers and profits that compare.
LEMMA BoardFacts ==
    ASSUME BoardTypeOK
    PROVE  /\ IsFiniteSet(Competitors) /\ Cardinality(Competitors) \in Nat
           /\ \A a \in Competitors :
                 a \in Nat /\ a # System /\ profit[a].percent \in Int /\ profit[a].usd \in Int
           /\ PageSize \in Nat \ {0} /\ offset \in Nat
<1>1. Competitors \subseteq Accounts /\ IsFiniteSet(Accounts)
  BY BoardAssumption DEF BoardTypeOK, Competitors
<1>2. IsFiniteSet(Competitors)
  BY <1>1, FS_Subset
<1>3. ASSUME NEW a \in Competitors
      PROVE  a \in Nat /\ a # System /\ profit[a].percent \in Int /\ profit[a].usd \in Int
  <2>1. a \in Nat /\ a \in DOMAIN profit /\ a # System
    BY <1>1, BoardAssumption DEF Competitors
  <2>2. profit[a] \in [percent : Int, usd : Int]
    BY <2>1, BoardAssumption DEF BoardTypeOK
  <2>. QED  BY <2>1, <2>2
<1>. QED  BY <1>2, <1>3, FS_CardinalityType, BoardAssumption DEF BoardTypeOK

\* ORDER BY with the id at last puts each two competitors in an order.
LEMMA BeforeIsAnOrder ==
    ASSUME BoardTypeOK, NEW a \in Competitors, NEW b \in Competitors
    PROVE  /\ ~ Before(a, a)
           /\ Before(a, b) => ~ Before(b, a)
           /\ a # b => Before(a, b) \/ Before(b, a)
           /\ \A c \in Competitors : Before(a, b) /\ Before(b, c) => Before(a, c)
<1>1. \A c \in Competitors : c \in Nat /\ profit[c].percent \in Int /\ profit[c].usd \in Int
  BY BoardFacts
<1>. QED  BY <1>1 DEF Before

\* ROW_NUMBER() counts from 1, and more for who comes later.
LEMMA RankAscends ==
    ASSUME BoardTypeOK
    PROVE  /\ \A a \in Competitors : Rank(a) \in 1 .. Cardinality(Competitors)
           /\ \A a, b \in Competitors : Before(a, b) => Rank(a) < Rank(b)
<1>. DEFINE First(a) == {b \in Competitors : Before(b, a)}
<1>1. ASSUME NEW a \in Competitors
      PROVE  /\ IsFiniteSet(First(a)) /\ IsFiniteSet(First(a) \union {a})
             /\ Cardinality(First(a)) \in Nat
             /\ Cardinality(First(a) \union {a}) = Cardinality(First(a)) + 1
  <2>1. First(a) \in SUBSET Competitors /\ a \notin First(a)
    BY BeforeIsAnOrder
  <2>. HIDE DEF First
  <2>2. IsFiniteSet(First(a))
    BY <2>1, BoardFacts, FS_Subset
  <2>. QED  BY <2>1, <2>2, FS_AddElement, FS_CardinalityType
<1>2. \A a \in Competitors : First(a) \union {a} \in SUBSET Competitors
  OBVIOUS
<1>3. ASSUME NEW a \in Competitors, NEW b \in Competitors, Before(a, b)
      PROVE  First(a) \union {a} \in SUBSET First(b)
  BY <1>3, BeforeIsAnOrder
<1>4. \A a \in Competitors : Rank(a) = 1 + Cardinality(First(a))
  BY DEF Rank
<1>. HIDE DEF First
<1>5. ASSUME NEW a \in Competitors PROVE Rank(a) \in 1 .. Cardinality(Competitors)
  <2>1. Cardinality(First(a) \union {a}) <= Cardinality(Competitors)
    BY <1>2, BoardFacts, FS_Subset
  <2>. QED  BY <1>1, <1>4, <2>1, BoardFacts
<1>6. ASSUME NEW a \in Competitors, NEW b \in Competitors, Before(a, b) PROVE Rank(a) < Rank(b)
  <2>1. Cardinality(First(a) \union {a}) <= Cardinality(First(b))
    <3>1. IsFiniteSet(First(b)) /\ First(a) \union {a} \in SUBSET First(b)
      BY <1>1, <1>3, <1>6
    <3>. QED  BY <3>1, FS_Subset
  <2>2. /\ Rank(a) = 1 + Cardinality(First(a)) /\ Rank(b) = 1 + Cardinality(First(b))
        /\ Cardinality(First(a)) \in Nat /\ Cardinality(First(b)) \in Nat
        /\ Cardinality(First(a)) + 1 <= Cardinality(First(b))
    BY <1>1, <1>4, <2>1
  <2>. QED  BY <2>2
<1>. QED  BY <1>5, <1>6

\* So each rank is somebody's, and one's only.
LEMMA RankIsOnes ==
    ASSUME BoardTypeOK
    PROVE  /\ \A a, b \in Competitors : Rank(a) = Rank(b) => a = b
           /\ \A a, b \in Competitors : Rank(a) < Rank(b) => Before(a, b)
           /\ \A k \in 1 .. Cardinality(Competitors) : \E a \in Competitors : Rank(a) = k
<1>1. \A a \in Competitors : Rank(a) \in Int
  BY RankAscends, BoardFacts
<1>2. \A a, b \in Competitors : Rank(a) = Rank(b) => a = b
  BY <1>1, RankAscends, BeforeIsAnOrder
<1>3. \A a, b \in Competitors : Rank(a) < Rank(b) => Before(a, b)
  BY <1>1, RankAscends, BeforeIsAnOrder
<1>. DEFINE n == Cardinality(Competitors)
            rank == [a \in Competitors |-> Rank(a)]
<1>4. n \in Nat /\ IsFiniteSet(Competitors)
  BY BoardFacts
<1>5. IsFiniteSet(1 .. n) /\ Cardinality(1 .. n) = n
  BY <1>4, FS_Interval
<1>6. rank \in Injection(Competitors, 1 .. n)
  BY <1>2, RankAscends DEF Injection, IsInjective
<1>7. rank \in Surjection(Competitors, 1 .. n)
  <2>. HIDE DEF rank
  <2>. QED  BY <1>5, <1>6, FS_Injection
<1>8. \A k \in 1 .. n : \E a \in Competitors : Rank(a) = k
  BY <1>7 DEF Surjection
<1>. QED  BY <1>2, <1>3, <1>8

\* A page that is not full is the last.
LEMMA LastPage ==
    ASSUME BoardTypeOK, NEW from \in Nat, NEW a \in Competitors, Rank(a) > from + PageSize
    PROVE  Cardinality(Page(from)) > PageSize
<1>. DEFINE n == Cardinality(Competitors)
            ranks == from + 1 .. from + PageSize + 1
            who == [k \in ranks |-> CHOOSE b \in Competitors : Rank(b) = k]
<1>1. n \in Nat /\ PageSize \in Nat /\ Rank(a) \in 1 .. n
  BY BoardFacts, RankAscends
<1>2. ranks \subseteq 1 .. n
  BY <1>1
<1>3. ASSUME NEW k \in ranks PROVE who[k] \in Competitors /\ Rank(who[k]) = k
  <2>1. \E b \in Competitors : Rank(b) = k
    BY <1>2, RankIsOnes
  <2>. QED  BY <2>1
<1>4. who \in Injection(ranks, Page(from))
  <2>1. \A k \in ranks : who[k] \in Page(from)
    BY <1>3 DEF Page
  <2>2. who \in [ranks -> Page(from)]
    BY <2>1
  <2>3. \A j, k \in ranks : who[j] = who[k] => j = k
    BY <1>3
  <2>. HIDE DEF who, ranks
  <2>. QED  BY <2>2, <2>3 DEF Injection, IsInjective
<1>5. IsFiniteSet(Page(from)) /\ Cardinality(Page(from)) \in Nat
  BY BoardFacts, FS_Subset, FS_CardinalityType DEF Page
<1>6. Cardinality(ranks) = PageSize + 1
  BY <1>1, FS_Interval
<1>. HIDE DEF who, ranks
<1>7. Cardinality(ranks) <= Cardinality(Page(from))
  BY <1>4, <1>5, FS_Injection
<1>. QED  BY <1>1, <1>5, <1>6, <1>7

LEMMA LedgerStays ==
    ASSUME profit' = profit
    PROVE  /\ Competitors' = Competitors
           /\ \A a : Rank(a)' = Rank(a) /\ Row(a)' = Row(a)
<1>1. Competitors' = Competitors
  BY DEF Competitors
<1>2. \A a, b : Before(a, b)' <=> Before(a, b)
  BY DEF Before
<1>3. \A a : Rank(a)' = Rank(a)
  <2>. SUFFICES ASSUME NEW a PROVE Rank(a)' = Rank(a)
    OBVIOUS
  <2>1. {b \in Competitors : Before(b, a)}' = {b \in Competitors : Before(b, a)}
    BY <1>1, <1>2
  <2>. QED  BY <2>1 DEF Rank
<1>. QED  BY <1>1, <1>3 DEF Row

LEMMA PollKeeps == ASSUME BoardInv, PollRanking PROVE BoardInv'
<1>1. /\ profit' = profit /\ offset' = offset /\ moves' = moves
      /\ ranking' = LeaderboardPage(offset) /\ seen' = seen \union {Row(a) : a \in Visible(offset)}
      /\ ranking'.accounts = {Row(a) : a \in Visible(offset)}
  BY DEF PollRanking, LeaderboardPage
<1>2. /\ Competitors' = Competitors
      /\ \A a : Rank(a)' = Rank(a) /\ Row(a)' = Row(a)
  BY <1>1, LedgerStays
<1>3. BoardTypeOK' /\ BoardTypeOK
  BY <1>1 DEF BoardInv, BoardTypeOK
<1>4. \A a \in Visible(offset) : a \in Competitors /\ Rank(a) >= offset + 1
  BY <1>3, BoardFacts DEF Visible, Page
<1>5. seen' \subseteq {Row(a) : a \in Competitors}'
  BY <1>1, <1>2, <1>4 DEF BoardInv
<1>6. Current'
  <2>1. Visible(offset)' = Visible(offset) /\ Page(offset)' = Page(offset)
    BY <1>1, <1>2 DEF Visible, Page
  <2>2. LeaderboardPage(offset)' = LeaderboardPage(offset)
    BY <1>1, <1>2, <2>1 DEF LeaderboardPage
  <2>. QED  BY <1>1, <2>2 DEF Current
<1>7. ASSUME NEW r \in seen', r.rank = 1, NEW a \in Competitors, Rank(a) <= offset
      PROVE  Row(a) \in seen'
  <2>1. CASE r \in seen
    BY <1>1, <1>7, <2>1 DEF BoardInv
  <2>2. CASE r \notin seen
    <3>1. PICK b \in Visible(offset) : r = Row(b)
      BY <1>1, <2>2
    <3>2. Rank(b) = 1
      BY <1>7, <3>1 DEF Row
    <3>3. offset = 0
      BY <1>3, <1>4, <3>2, BoardFacts
    <3>. QED  BY <1>3, <1>7, <3>3, RankAscends, BoardFacts
  <2>. QED  BY <2>1, <2>2
<1>8. ((\E r \in seen : r.rank = 1) =>
          \A a \in Competitors : Rank(a) <= offset => Row(a) \in seen)'
  BY <1>1, <1>2, <1>7
<1>. QED  BY <1>3, <1>5, <1>6, <1>8 DEF BoardInv

LEMMA TurnKeeps ==
    ASSUME BoardInv, Previous \/ Forward
    PROVE  BoardInv'
<1>1. /\ profit' = profit /\ seen' = seen /\ moves' = moves /\ ranking' = Nothing
      /\ offset' = (IF Previous THEN IF offset < PageSize THEN 0 ELSE offset - PageSize
                                ELSE offset + PageSize)
  BY DEF Previous, Forward, Turn
<1>2. /\ Competitors' = Competitors
      /\ \A a : Rank(a)' = Rank(a) /\ Row(a)' = Row(a)
  BY <1>1, LedgerStays
<1>3. BoardTypeOK /\ offset \in Nat /\ PageSize \in Nat
  BY BoardFacts DEF BoardInv
<1>4. offset' \in Nat
  BY <1>1, <1>3
<1>5. BoardTypeOK' /\ Current' /\ seen' \subseteq {Row(a) : a \in Competitors}'
  BY <1>1, <1>2, <1>4 DEF BoardInv, BoardTypeOK, Current
<1>6. ASSUME NEW r \in seen, r.rank = 1, NEW a \in Competitors, Rank(a) <= offset'
      PROVE  Row(a) \in seen
  <2>1. Rank(a) \in Nat
    BY <1>3, RankAscends, BoardFacts
  <2>2. CASE Rank(a) <= offset
    BY <1>6, <2>2 DEF BoardInv
  <2>3. CASE ~ (Rank(a) <= offset)
    <3>1. Forward /\ Rank(a) <= offset + PageSize /\ Rank(a) \in offset + 1 .. offset + PageSize + 1
      BY <1>1, <1>3, <1>6, <2>1, <2>3
    <3>2. a \in Visible(offset)
      BY <3>1 DEF Visible, Page
    <3>3. ranking # Nothing
      BY <3>1 DEF Forward, Nothing
    <3>4. ranking = LeaderboardPage(offset) /\ ranking.accounts \subseteq seen
      BY <1>6, <3>3 DEF BoardInv, Current
    <3>5. Row(a) \in ranking.accounts
      BY <3>2, <3>4 DEF LeaderboardPage
    <3>. QED  BY <3>4, <3>5
  <2>. QED  BY <2>2, <2>3
<1>. QED  BY <1>1, <1>2, <1>5, <1>6 DEF BoardInv

LEMMA MovesKeeps == ASSUME BoardInv, Moves PROVE BoardInv'
<1>1. PICK a \in Accounts \ {System} :
        \/ \E p \in Profits :
              profit' = [b \in DOMAIN profit \union {a} |-> IF b = a THEN p ELSE profit[b]]
        \/ profit' = Restrict(profit, DOMAIN profit \ {a})
  BY DEF Moves
<1>2. /\ DOMAIN profit \subseteq Accounts /\ \A b \in DOMAIN profit : profit[b] \in Profits
      /\ offset \in Nat /\ moves \in Nat /\ offset' = offset /\ moves' = moves + 1 /\ seen' = {}
  BY DEF BoardInv, BoardTypeOK, Moves
<1>3. DOMAIN profit' \subseteq Accounts /\ profit' \in [DOMAIN profit' -> Profits]
  <2>1. CASE \E p \in Profits :
               profit' = [b \in DOMAIN profit \union {a} |-> IF b = a THEN p ELSE profit[b]]
    BY <1>2, <2>1
  <2>2. CASE profit' = Restrict(profit, DOMAIN profit \ {a})
    BY <1>2, <2>2 DEF Restrict
  <2>. QED  BY <1>1, <2>1, <2>2
<1>. QED  BY <1>2, <1>3 DEF BoardInv, BoardTypeOK

(* The inductive invariant of the ranking (main.rs:374, browser.rs:322): the *)
(* answer on the page and the rows seen are of the ledger as it is, and who  *)
(* has seen the first page has seen all those before the selected one.       *)
THEOREM BoardInvariance == BoardSpec => []BoardInv
<1>1. BoardInit => BoardInv
  <2>. SUFFICES ASSUME BoardInit PROVE BoardInv
    OBVIOUS
  <2>1. PICK members \in SUBSET Accounts : profit \in [members -> Profits]
    BY DEF BoardInit
  <2>2. DOMAIN profit = members
    BY <2>1
  <2>. QED  BY <2>1, <2>2 DEF BoardInit, BoardInv, BoardTypeOK
<1>2. BoardInv /\ UNCHANGED boardVars => BoardInv'
  <2>. SUFFICES ASSUME BoardInv, UNCHANGED boardVars PROVE BoardInv'
    OBVIOUS
  <2>1. /\ profit' = profit /\ offset' = offset /\ moves' = moves /\ ranking' = ranking
        /\ seen' = seen
    BY DEF boardVars
  <2>2. /\ Competitors' = Competitors
        /\ \A a : Rank(a)' = Rank(a) /\ Row(a)' = Row(a)
    BY <2>1, LedgerStays
  <2>3. Current' <=> Current
    <3>1. Visible(offset)' = Visible(offset) /\ Page(offset)' = Page(offset)
      BY <2>1, <2>2 DEF Visible, Page
    <3>2. LeaderboardPage(offset)' = LeaderboardPage(offset)
      BY <2>1, <2>2, <3>1 DEF LeaderboardPage
    <3>. QED  BY <2>1, <3>2 DEF Current
  <2>. QED  BY <2>1, <2>2, <2>3 DEF BoardInv, BoardTypeOK
<1>3. BoardInv /\ BoardNext => BoardInv'
  BY PollKeeps, TurnKeeps, MovesKeeps DEF BoardNext
<1>. QED  BY <1>1, <1>2, <1>3, PTL DEF BoardSpec

LEMMA InvShowsEveryone == ASSUME BoardInv PROVE EveryoneOnce
<1>1. BoardTypeOK /\ \A r \in seen : \E a \in Competitors : r = Row(a)
  BY DEF BoardInv
<1>2. ASSUME NEW r \in seen, NEW s \in seen
      PROVE  /\ r.rank = s.rank <=> r.id = s.id
             /\ r.rank < s.rank => \/ r.is.percent > s.is.percent
                                   \/ r.is.percent = s.is.percent /\ r.is.usd >= s.is.usd
             /\ r.id # System
  <2>1. PICK a \in Competitors : r = Row(a)
    BY <1>1
  <2>2. PICK b \in Competitors : s = Row(b)
    BY <1>1
  <2>3. /\ r.rank = Rank(a) /\ r.id = a /\ r.is = profit[a]
        /\ s.rank = Rank(b) /\ s.id = b /\ s.is = profit[b]
    BY <2>1, <2>2 DEF Row
  <2>4. /\ Rank(a) = Rank(b) <=> a = b
        /\ Rank(a) < Rank(b) => Before(a, b)
    BY <1>1, RankIsOnes
  <2>5. /\ a # System
        /\ profit[a].percent \in Int /\ profit[a].usd \in Int
        /\ profit[b].percent \in Int /\ profit[b].usd \in Int
    BY <1>1, BoardFacts
  <2>. QED  BY <2>3, <2>4, <2>5 DEF Before
<1>3. ASSUME \E r \in seen : r.rank = 1, ranking # Nothing, ~ ranking.has_more
      PROVE  {r.id : r \in seen} = Competitors
  <2>1. ranking = LeaderboardPage(offset) /\ ranking.accounts \subseteq seen
    BY <1>3 DEF BoardInv, Current
  <2>2. ~ (Cardinality(Page(offset)) > PageSize) /\ {Row(a) : a \in Visible(offset)} \subseteq seen
    BY <1>3, <2>1 DEF LeaderboardPage
  <2>3. ASSUME NEW a \in Competitors PROVE Row(a) \in seen
    <3>1. offset \in Nat /\ PageSize \in Nat /\ Rank(a) \in Nat
      BY <1>1, RankAscends, BoardFacts
    <3>2. Rank(a) <= offset + PageSize
      BY <1>1, <2>2, <3>1, LastPage
    <3>3. CASE Rank(a) <= offset
      BY <1>3, <3>3 DEF BoardInv
    <3>4. CASE ~ (Rank(a) <= offset)
      <4>1. Rank(a) \in offset + 1 .. offset + PageSize + 1
        BY <3>1, <3>2, <3>4
      <4>2. a \in Visible(offset)
        BY <3>2, <4>1 DEF Visible, Page
      <4>. QED  BY <2>2, <4>2
    <3>. QED  BY <3>3, <3>4
  <2>4. \A a : Row(a).id = a
    BY DEF Row
  <2>. QED  BY <1>1, <2>3, <2>4
<1>4. RankedOnce
  BY <1>2 DEF RankedOnce
<1>5. LastIsLast
  BY <1>3 DEF LastIsLast
<1>. QED  BY <1>4, <1>5 DEF EveryoneOnce

(* Whoever reads a ranking from its first page to its last, while nothing    *)
(* moves, sees everyone and nobody twice, whatever the ledger and the size   *)
(* of a page.                                                                *)
THEOREM EveryoneIsRanked == BoardSpec => []EveryoneOnce
<1>1. BoardInv => EveryoneOnce
  BY InvShowsEveryone
<1>. QED  BY <1>1, BoardInvariance, PTL

=============================================================================
