----------------------------- MODULE Node_proofs -----------------------------
(***************************************************************************)
(* What one node keeps and answers by itself.  Ledger: a block is on disk  *)
(* behind the state it ends in, and each block is what executing it on the *)
(* one before gives, so the state of the head is there and counts what was *)
(* mined, for any transactions, system operations and power cuts.  Seals:  *)
(* the certificate of a block the engine commits is written before the     *)
(* block, and a page's are asked for after its last block, so none is      *)
(* missing, for any validators, peers and cuts.  GasEstimate: the search   *)
(* keeps a limit that is enough above one that is not.  ChainReaders: what *)
(* the routes tell of the chain is true of it, whatever is sealed between  *)
(* their reads.  Deployment: whichever variable of a node is wrong, what   *)
(* passes its checks is sound, for any plan.                               *)
(***************************************************************************)
EXTENDS Ledger, Seals, GasEstimate, ChainReaders, Deployment, Induction_proofs, FiniteSetTheorems, TLAPS

-----------------------------------------------------------------------------
(* Sequences without repetition.                                           *)

\* A sequence without repetition is as long as it has elements.
LEMMA InjectiveCount ==
    ASSUME NEW T, NEW s \in Seq(T), IsInjective(s)
    PROVE  IsFiniteSet(ToSet(s)) /\ Cardinality(ToSet(s)) = Len(s)
<1>1. Len(s) \in Nat /\ DOMAIN s = 1 .. Len(s) /\ s \in [1 .. Len(s) -> ToSet(s)]
  BY DEF ToSet
<1>2. s \in Bijection(1 .. Len(s), ToSet(s))
  BY <1>1 DEF Bijection, Injection, Surjection, IsInjective, ToSet
<1>3. ExistsBijection(1 .. Len(s), ToSet(s))
  BY <1>2 DEF ExistsBijection
<1> QED BY <1>1, <1>3, FS_CountingElements, FS_NatBijection

-----------------------------------------------------------------------------
(* Ledger: execution.                                                      *)

Worlds == [nonce : [Accounts -> Nat], balance : [Accounts -> Int], votes : Nat]

\* What a block with these contents makes of w, as a relation.
Makes(extra, txs, time, w, r) ==
    \/ \E op \in SysOps :
        extra = <<op>> /\ txs = <<>> /\ r = [root |-> ApplySysOp(op, w), receipts |-> <<>>]
    \/ extra = <<>> /\ txs = <<>> /\ r = [root |-> w, receipts |-> <<>>]
    \/ \E tx \in ToSet(txs) :
        extra = <<>> /\ Runs(tx, w, time) /\ r = [root |-> Executed(tx, w), receipts |-> <<Receipt(tx, w)>>]

LEMMA ReplayMakes ==
    ASSUME NEW b, NEW w, NEW r
    PROVE  r \in ReplayBlock(b, w) <=> Makes(b.extra, b.txs, b.time, w, r)
<1> DEFINE A == {[root |-> ApplySysOp(op, w), receipts |-> <<>>] :
                    op \in {o \in SysOps : b.extra = <<o>> /\ b.txs = <<>>}}
           B == {[root |-> w, receipts |-> <<>>] : x \in {y \in {b} : y.extra = <<>> /\ y.txs = <<>>}}
           C == {[root |-> Executed(tx, w), receipts |-> <<Receipt(tx, w)>>] :
                    tx \in {u \in ToSet(b.txs) : b.extra = <<>> /\ Runs(u, w, b.time)}}
<1>1. r \in ReplayBlock(b, w) <=> r \in A \/ r \in B \/ r \in C
  BY DEF ReplayBlock
<1>2. r \in A <=> \E op \in SysOps :
        b.extra = <<op>> /\ b.txs = <<>> /\ r = [root |-> ApplySysOp(op, w), receipts |-> <<>>]
  OBVIOUS
<1>3. r \in B <=> b.extra = <<>> /\ b.txs = <<>> /\ r = [root |-> w, receipts |-> <<>>]
  OBVIOUS
<1>4. r \in C <=> \E tx \in ToSet(b.txs) :
        b.extra = <<>> /\ Runs(tx, w, b.time) /\ r = [root |-> Executed(tx, w), receipts |-> <<Receipt(tx, w)>>]
  OBVIOUS
<1> HIDE DEF A, B, C
<1> QED BY <1>1, <1>2, <1>3, <1>4 DEF Makes

LEMMA ExecutedFields ==
    ASSUME NEW tx \in Transactions, NEW w \in Worlds
    PROVE  /\ Executed(tx, w) \in Worlds
           /\ Executed(tx, w).votes = IF tx.kind = "vote" THEN w.votes + 1 ELSE w.votes
           /\ Executed(tx, w).nonce = [w.nonce EXCEPT ![tx.from] = @ + 1]
<1> DEFINE v == [w EXCEPT !.nonce[tx.from] = @ + 1]
           balance == [v.balance EXCEPT ![tx.from] = @ - 1, ![tx.to] = @ + 1]
           paid == [v EXCEPT !.balance = balance]
           voted == [v EXCEPT !.votes = @ + 1]
<1>1. tx.from \in Accounts /\ tx.to \in Accounts
  BY LedgerAssumption
<1>2. v \in Worlds /\ v.nonce = [w.nonce EXCEPT ![tx.from] = @ + 1] /\ v.votes = w.votes
  BY <1>1 DEF Worlds
<1>3. Executed(tx, w) = IF tx.kind = "vote" THEN voted ELSE paid
  BY DEF Executed
<1> HIDE DEF v
<1>4. voted \in Worlds /\ voted.nonce = v.nonce /\ voted.votes = v.votes + 1
  BY <1>2 DEF Worlds
<1>5. paid \in Worlds /\ paid.nonce = v.nonce /\ paid.votes = v.votes
  <2>1. v.balance \in [Accounts -> Int]
    BY <1>2 DEF Worlds
  <2>2. balance \in [Accounts -> Int]
    BY <1>1, <2>1
  <2> HIDE DEF balance
  <2> QED BY <1>2, <2>2 DEF Worlds
<1> HIDE DEF paid, voted
<1> QED BY <1>2, <1>3, <1>4, <1>5

\* A block carries nothing, or one transaction.
OneOrNone(txs) == txs = <<>> \/ \E tx \in Transactions : txs = <<tx>>

LEMMA ToSetOne ==
    ASSUME NEW x
    PROVE  ToSet(<<x>>) = {x} /\ ToSet(<<>>) = {}
BY DEF ToSet

\* Taking one of the two is what makes of p the state and the receipts of b.
ChangesNothing(b, p) == b.txs = <<>> /\ b.receipts = <<>> /\ b.root.votes = p.votes /\ b.root.nonce = p.nonce
Ran(b, p, tx) ==
    /\ b.txs = <<tx>> /\ Runs(tx, p, b.time) /\ b.root = Executed(tx, p)
    /\ b.receipts = <<Receipt(tx, p)>>

LEMMA MakesFields ==
    ASSUME NEW b, NEW p \in Worlds, NEW r,
           OneOrNone(b.txs), Makes(b.extra, b.txs, b.time, p, r), VerifyBlock(b, r)
    PROVE  b.root \in Worlds /\ (ChangesNothing(b, p) \/ \E tx \in Transactions : Ran(b, p, tx))
<1>0. r.root = b.root /\ r.receipts = b.receipts
  BY DEF VerifyBlock
<1>1. ASSUME NEW op \in SysOps
      PROVE  /\ ApplySysOp(op, p) \in Worlds
             /\ ApplySysOp(op, p).votes = p.votes /\ ApplySysOp(op, p).nonce = p.nonce
  <2>1. op.account \in Accounts /\ op.value \in Nat
    BY LedgerAssumption
  <2> QED BY <2>1 DEF ApplySysOp, Worlds
<1>2. ASSUME NEW x PROVE <<x>> # <<>>
  OBVIOUS
<1>3. CASE b.txs = <<>>
  <2>1. ToSet(b.txs) = {}
    BY <1>3, ToSetOne
  <2>2. \/ \E op \in SysOps : r = [root |-> ApplySysOp(op, p), receipts |-> <<>>]
        \/ r = [root |-> p, receipts |-> <<>>]
    BY <1>3, <2>1 DEF Makes
  <2> QED BY <1>0, <1>1, <1>3, <2>2 DEF ChangesNothing
<1>4. CASE b.txs # <<>>
  <2>1. PICK tx \in Transactions : b.txs = <<tx>>
    BY <1>4 DEF OneOrNone
  <2>2. ToSet(b.txs) = {tx}
    BY <2>1, ToSetOne
  <2>3. /\ b.extra = <<>> /\ Runs(tx, p, b.time)
        /\ r = [root |-> Executed(tx, p), receipts |-> <<Receipt(tx, p)>>]
    BY <1>4, <2>2 DEF Makes
  <2> QED BY <1>0, <2>1, <2>3, ExecutedFields DEF Ran
<1> QED BY <1>3, <1>4

-----------------------------------------------------------------------------
(* Ledger: chains.                                                         *)

\* b is what executing it on p gives.
Follows(b, p) ==
    /\ VerifyLinkage(b, p) /\ b.time \in Nat /\ OneOrNone(b.txs)
    /\ \E r \in ReplayBlock(b, p.root) : VerifyBlock(b, r)

LEMMA FollowsFields ==
    ASSUME NEW b, NEW p, Follows(b, p), p.root \in Worlds
    PROVE  b.root \in Worlds /\ (ChangesNothing(b, p.root) \/ \E tx \in Transactions : Ran(b, p.root, tx))
<1>1. PICK r : Makes(b.extra, b.txs, b.time, p.root, r) /\ VerifyBlock(b, r)
  BY ReplayMakes DEF Follows
<1>2. OneOrNone(b.txs)
  BY DEF Follows
<1> DEFINE w == p.root
<1>3. w \in Worlds /\ Makes(b.extra, b.txs, b.time, w, r)
  BY <1>1
<1> HIDE DEF w
<1>4. b.root \in Worlds /\ (ChangesNothing(b, w) \/ \E tx \in Transactions : Ran(b, w, tx))
  BY <1>1, <1>2, <1>3, MakesFields
<1> QED BY <1>4 DEF w

Nth(c, n) == IF n = 0 THEN Genesis ELSE c[n].of
VotesIn(c, n) == {m \in 1 .. n : \E tx \in ToSet(Nth(c, m).txs) : tx.kind = "vote"}
UsesIn(c, n, a) == {m \in 1 .. n : \E tx \in ToSet(Nth(c, m).txs) : tx.from = a}

\* What is true of the chain up to block n.
Consistent(c, n) ==
    /\ Nth(c, n).number = n /\ Nth(c, n).time \in Nat /\ Nth(c, n).root \in Worlds
    /\ Nth(c, n).root.votes = Cardinality(VotesIn(c, n))
    /\ \A a \in Accounts : Nth(c, n).root.nonce[a] = Cardinality(UsesIn(c, n, a))

Good(c) ==
    /\ \A n \in 0 .. Len(c) : Consistent(c, n)
    /\ \A n \in 1 .. Len(c) : Follows(Nth(c, n), Nth(c, n - 1))

LEMMA AtSame ==
    ASSUME NEW c, NEW d, NEW n \in Nat, \A m \in 1 .. n : c[m] = d[m]
    PROVE  /\ Nth(d, n) = Nth(c, n) /\ VotesIn(d, n) = VotesIn(c, n)
           /\ \A a : UsesIn(d, n, a) = UsesIn(c, n, a)
           /\ Consistent(c, n) => Consistent(d, n)
<1>1. \A m \in 0 .. n : Nth(d, m) = Nth(c, m)
  BY DEF Nth
<1>2. Nth(d, n) = Nth(c, n)
  BY <1>1
<1>3. VotesIn(d, n) = VotesIn(c, n) /\ \A a : UsesIn(d, n, a) = UsesIn(c, n, a)
  BY <1>1 DEF VotesIn, UsesIn
<1> QED BY <1>2, <1>3 DEF Consistent

LEMMA GoodPrefix ==
    ASSUME NEW E, NEW c \in Seq(E), Good(c), NEW h \in 0 .. Len(c)
    PROVE  Good(SubSeq(c, 1, h))
<1> DEFINE d == SubSeq(c, 1, h)
<1>1. Len(d) = h /\ h \in Nat /\ h <= Len(c) /\ Len(c) \in Nat /\ \A m \in 1 .. h : d[m] = c[m]
  OBVIOUS
<1> HIDE DEF d
<1>2. ASSUME NEW n \in 0 .. h PROVE Nth(d, n) = Nth(c, n) /\ (Consistent(c, n) => Consistent(d, n))
  <2>1. n \in Nat /\ \A m \in 1 .. n : c[m] = d[m]
    BY <1>1
  <2> QED BY <2>1, AtSame
<1>3. ASSUME NEW n \in 0 .. h PROVE Consistent(d, n)
  BY <1>1, <1>2 DEF Good
<1>4. ASSUME NEW n \in 1 .. h PROVE Follows(Nth(d, n), Nth(d, n - 1))
  <2>1. n \in 0 .. h /\ n - 1 \in 0 .. h /\ n \in 1 .. Len(c)
    BY <1>1
  <2> QED BY <1>2, <2>1 DEF Good
<1> QED BY <1>1, <1>3, <1>4 DEF Good, d

LEMMA CountsFinite ==
    ASSUME NEW c, NEW n \in Nat
    PROVE  IsFiniteSet(VotesIn(c, n)) /\ \A a : IsFiniteSet(UsesIn(c, n, a))
<1>1. IsFiniteSet(1 .. n)
  BY FS_Interval
<1>2. VotesIn(c, n) \subseteq 1 .. n /\ \A a : UsesIn(c, n, a) \subseteq 1 .. n
  BY DEF VotesIn, UsesIn
<1> QED BY <1>1, <1>2, FS_Subset

\* The block that follows the head is counted once.
LEMMA GoodAppend ==
    ASSUME NEW E, NEW c \in Seq(E), Good(c), NEW x, Follows(x.of, Nth(c, Len(c)))
    PROVE  Good(Append(c, x))
<1> DEFINE h == Len(c)
           d == Append(c, x)
           p == Nth(c, h)
<1>1. /\ h \in Nat /\ Len(d) = h + 1 /\ d[h + 1] = x /\ h + 1 # 0
      /\ \A m \in 1 .. h : d[m] = c[m]
  OBVIOUS
<1>2. Consistent(c, h)
  BY <1>1 DEF Good
<1>3. Follows(x.of, p)
  OBVIOUS
<1> HIDE DEF h, d
<1>4. Nth(d, h + 1) = x.of
  BY <1>1 DEF Nth
<1>5. ASSUME NEW n \in 0 .. h
      PROVE  /\ n \in Nat /\ Nth(d, n) = Nth(c, n) /\ VotesIn(d, n) = VotesIn(c, n)
             /\ \A a : UsesIn(d, n, a) = UsesIn(c, n, a)
             /\ Consistent(c, n) => Consistent(d, n)
  <2>1. n \in Nat /\ \A m \in 1 .. n : c[m] = d[m]
    BY <1>1
  <2> QED BY <2>1, AtSame
<1>6. h \in 0 .. h
  BY <1>1
<1>7. p \in {p} /\ p.number = h /\ p.time \in Nat /\ p.root \in Worlds
  BY <1>2 DEF Consistent
<1>9. OneOrNone(x.of.txs) /\ x.of.time \in Nat /\ x.of.number = h + 1
  BY <1>3, <1>7 DEF Follows, VerifyLinkage
<1>10. /\ x.of.root \in Worlds
       /\ ChangesNothing(x.of, p.root) \/ \E tx \in Transactions : Ran(x.of, p.root, tx)
  BY <1>3, <1>7, FollowsFields
<1> HIDE DEF p
<1>11. VotesIn(d, h + 1) = VotesIn(c, h) \cup {m \in {h + 1} : \E tx \in ToSet(x.of.txs) : tx.kind = "vote"}
  <2>1. 1 .. h + 1 = (1 .. h) \cup {h + 1}
    BY <1>1
  <2>2. \A m \in 1 .. h : Nth(d, m) = Nth(c, m)
    BY <1>5, <1>1
  <2> QED BY <1>4, <2>1, <2>2 DEF VotesIn
<1>12. ASSUME NEW a
       PROVE  UsesIn(d, h + 1, a) = UsesIn(c, h, a) \cup {m \in {h + 1} : \E tx \in ToSet(x.of.txs) : tx.from = a}
  <2>1. 1 .. h + 1 = (1 .. h) \cup {h + 1}
    BY <1>1
  <2>2. \A m \in 1 .. h : Nth(d, m) = Nth(c, m)
    BY <1>5, <1>1
  <2> QED BY <1>4, <2>1, <2>2 DEF UsesIn
<1>13. /\ p.root.votes = Cardinality(VotesIn(c, h))
       /\ \A a \in Accounts : p.root.nonce[a] = Cardinality(UsesIn(c, h, a))
  BY <1>2 DEF Consistent, p
<1>14. /\ IsFiniteSet(VotesIn(c, h)) /\ h + 1 \notin VotesIn(c, h)
       /\ \A a : IsFiniteSet(UsesIn(c, h, a)) /\ h + 1 \notin UsesIn(c, h, a)
  <2>1. h + 1 \notin 1 .. h
    BY <1>1
  <2>2. VotesIn(c, h) \subseteq 1 .. h /\ \A a : UsesIn(c, h, a) \subseteq 1 .. h
    BY DEF VotesIn, UsesIn
  <2>3. IsFiniteSet(VotesIn(c, h)) /\ \A a : IsFiniteSet(UsesIn(c, h, a))
    BY <1>1, CountsFinite
  <2> QED BY <2>1, <2>2, <2>3
<1>15. Consistent(d, h + 1)
  <2>1. CASE ChangesNothing(x.of, p.root)
    <3>1. ToSet(x.of.txs) = {}
      BY <2>1, ToSetOne DEF ChangesNothing
    <3>2. VotesIn(d, h + 1) = VotesIn(c, h) /\ \A a : UsesIn(d, h + 1, a) = UsesIn(c, h, a)
      BY <1>11, <1>12, <3>1
    <3>3. x.of.root.votes = p.root.votes /\ x.of.root.nonce = p.root.nonce
      BY <2>1 DEF ChangesNothing
    <3> QED BY <1>4, <1>9, <1>10, <1>13, <3>2, <3>3 DEF Consistent
  <2>2. ASSUME NEW tx \in Transactions, Ran(x.of, p.root, tx) PROVE Consistent(d, h + 1)
    <3>1. ToSet(x.of.txs) = {tx}
      BY <2>2, ToSetOne DEF Ran
    <3>2. /\ x.of.root = Executed(tx, p.root)
          /\ x.of.root.votes = IF tx.kind = "vote" THEN p.root.votes + 1 ELSE p.root.votes
          /\ x.of.root.nonce = [p.root.nonce EXCEPT ![tx.from] = @ + 1]
      BY <1>7, <2>2, ExecutedFields DEF p, Ran
    <3>3. x.of.root.votes = Cardinality(VotesIn(d, h + 1))
      <4>1. CASE tx.kind = "vote"
        <5>1. VotesIn(d, h + 1) = VotesIn(c, h) \cup {h + 1}
          BY <1>11, <3>1, <4>1
        <5> QED BY <1>13, <1>14, <3>2, <4>1, <5>1, FS_AddElement
      <4>2. CASE tx.kind # "vote"
        <5>1. VotesIn(d, h + 1) = VotesIn(c, h)
          BY <1>11, <3>1, <4>2
        <5> QED BY <1>13, <3>2, <4>2, <5>1
      <4> QED BY <4>1, <4>2
    <3>4. ASSUME NEW a \in Accounts PROVE x.of.root.nonce[a] = Cardinality(UsesIn(d, h + 1, a))
      <4>0. p.root.nonce \in [Accounts -> Nat]
        BY <1>7 DEF Worlds, p
      <4>1. CASE tx.from = a
        <5>1. UsesIn(d, h + 1, a) = UsesIn(c, h, a) \cup {h + 1}
          BY <1>12, <3>1, <4>1
        <5>2. Cardinality(UsesIn(d, h + 1, a)) = Cardinality(UsesIn(c, h, a)) + 1
          BY <1>14, <5>1, FS_AddElement
        <5> QED BY <1>13, <3>2, <4>0, <4>1, <5>2
      <4>2. CASE tx.from # a
        <5>1. UsesIn(d, h + 1, a) = UsesIn(c, h, a)
          BY <1>12, <3>1, <4>2
        <5> QED BY <1>13, <3>2, <4>0, <4>2, <5>1
      <4> QED BY <4>1, <4>2
    <3> QED BY <1>4, <1>9, <1>10, <3>3, <3>4 DEF Consistent
  <2> QED BY <1>10, <2>1, <2>2
<1>16. ASSUME NEW n \in 0 .. Len(d) PROVE Consistent(d, n)
  <2>1. n \in 0 .. h \/ n = h + 1
    BY <1>1
  <2> QED BY <1>5, <1>15, <2>1 DEF Good, h
<1>17. ASSUME NEW n \in 1 .. Len(d) PROVE Follows(Nth(d, n), Nth(d, n - 1))
  <2>1. CASE n = h + 1
    <3>1. n - 1 = h
      BY <1>1, <2>1
    <3> QED BY <1>3, <1>4, <1>5, <1>6, <2>1, <3>1 DEF p
  <2>2. CASE n # h + 1
    <3>1. n \in 0 .. h /\ n - 1 \in 0 .. h /\ n \in 1 .. h
      BY <1>1, <2>2
    <3> QED BY <1>5, <3>1 DEF Good, h
  <2> QED BY <2>1, <2>2
<1> QED BY <1>16, <1>17 DEF Good, d

LEMMA GoodEmpty == Good(<<>>)
<1>1. GenesisWorld \in Worlds /\ GenesisWorld.votes = 0 /\ \A a \in Accounts : GenesisWorld.nonce[a] = 0
  BY LedgerAssumption DEF GenesisWorld, Worlds
<1>2. Nth(<<>>, 0) = Genesis
  BY DEF Nth
<1>3. /\ Genesis.number = 0 /\ Genesis.time = 0 /\ Genesis.root = GenesisWorld
  BY DEF Genesis
<1>4. VotesIn(<<>>, 0) = {} /\ \A a : UsesIn(<<>>, 0, a) = {}
  BY DEF VotesIn, UsesIn
<1>5. Cardinality({}) = 0
  BY FS_EmptySet
<1>6. Consistent(<<>>, 0)
  <2>1. Nth(<<>>, 0).number = 0 /\ Nth(<<>>, 0).time \in Nat /\ Nth(<<>>, 0).root = GenesisWorld
    BY <1>2, <1>3
  <2> QED BY <1>1, <1>4, <1>5, <2>1 DEF Consistent
<1>7. \A n \in 0 .. Len(<<>>) : n = 0
  OBVIOUS
<1>8. \A n \in 1 .. Len(<<>>) : FALSE
  OBVIOUS
<1> QED BY <1>6, <1>7, <1>8 DEF Good

-----------------------------------------------------------------------------
(* Ledger: blocks.                                                         *)

Headers == {"number", "parent", "time", "extra", "txs", "root", "receipts"}

IsHeader(b) == b = [f \in Headers |-> b[f]]

LEMMA SealedEqual ==
    ASSUME NEW b, NEW c, IsHeader(b), IsHeader(c), b.number = c.number, b.parent = c.parent,
           b.time = c.time, b.extra = c.extra, b.txs = c.txs, b.root = c.root, b.receipts = c.receipts
    PROVE  b = c
<1>1. \A f \in Headers : b[f] = c[f]
  BY DEF Headers
<1> QED BY <1>1 DEF IsHeader

LEMMA AssembleFields ==
    ASSUME NEW p, NEW t, NEW extra, NEW txs, NEW b
    PROVE  b \in Assemble(p, t, extra, txs) <=>
              /\ IsHeader(b) /\ b.number = p.number + 1 /\ b.parent = <<p>> /\ b.time = t
              /\ b.extra = extra /\ b.txs = txs
              /\ \E r : /\ Makes(extra, txs, t, p.root, r)
                       /\ b.root = r.root /\ b.receipts = r.receipts
<1> DEFINE x == [number |-> p.number + 1, parent |-> <<p>>, time |-> t, extra |-> extra,
                 txs |-> txs, root |-> p.root, receipts |-> <<>>]
           With(r) == [x EXCEPT !.root = r.root, !.receipts = r.receipts]
<1>1. /\ x.extra = extra /\ x.txs = txs /\ x.time = t
  OBVIOUS
<1>2. ASSUME NEW r
      PROVE  /\ IsHeader(With(r)) /\ With(r).number = p.number + 1 /\ With(r).parent = <<p>>
             /\ With(r).time = t /\ With(r).extra = extra /\ With(r).txs = txs
             /\ With(r).root = r.root /\ With(r).receipts = r.receipts
  BY DEF IsHeader, Headers
<1>3. b \in Assemble(p, t, extra, txs) <=> \E r \in ReplayBlock(x, p.root) : b = With(r)
  BY DEF Assemble
<1> HIDE DEF x, With
<1>4. \A r : r \in ReplayBlock(x, p.root) <=> Makes(extra, txs, t, p.root, r)
  BY <1>1, ReplayMakes
<1>5. ASSUME b \in Assemble(p, t, extra, txs)
      PROVE  /\ IsHeader(b) /\ b.number = p.number + 1 /\ b.parent = <<p>> /\ b.time = t
             /\ b.extra = extra /\ b.txs = txs
             /\ \E r : Makes(extra, txs, t, p.root, r) /\ b.root = r.root /\ b.receipts = r.receipts
  BY <1>2, <1>3, <1>4, <1>5
<1>6. ASSUME IsHeader(b), b.number = p.number + 1, b.parent = <<p>>, b.time = t,
             b.extra = extra, b.txs = txs,
             NEW r, Makes(extra, txs, t, p.root, r), b.root = r.root, b.receipts = r.receipts
      PROVE  b \in Assemble(p, t, extra, txs)
  <2>1. b = With(r)
    BY <1>2, <1>6, SealedEqual
  <2> QED BY <1>3, <1>4, <1>6, <2>1
<1> QED BY <1>5, <1>6

LEMMA BuildableCases ==
    ASSUME NEW p, NEW t, NEW b
    PROVE  b \in BuildableOn(p, t) <=>
              \/ \E tx \in Transactions : b \in Assemble(p, t, <<>>, <<tx>>)
              \/ \E op \in SysOps : b \in Assemble(p, t, <<op>>, <<>>)
              \/ b \in Assemble(p, t, <<>>, <<>>)
<1> DEFINE A == {Assemble(p, t, <<>>, <<tx>>) : tx \in Transactions}
           B == {Assemble(p, t, <<op>>, <<>>) : op \in SysOps}
           C == {Assemble(p, t, <<>>, <<>>)}
<1>1. b \in BuildableOn(p, t) <=> \E S \in A \cup B \cup C : b \in S
  BY DEF BuildableOn
<1>2. (\E S \in A : b \in S) <=> \E tx \in Transactions : b \in Assemble(p, t, <<>>, <<tx>>)
  OBVIOUS
<1>3. (\E S \in B : b \in S) <=> \E op \in SysOps : b \in Assemble(p, t, <<op>>, <<>>)
  OBVIOUS
<1>4. (\E S \in C : b \in S) <=> b \in Assemble(p, t, <<>>, <<>>)
  OBVIOUS
<1> HIDE DEF A, B, C
<1> QED BY <1>1, <1>2, <1>3, <1>4

LEMMA BuildableFields ==
    ASSUME NEW p, NEW t, NEW b \in BuildableOn(p, t)
    PROVE  /\ IsHeader(b) /\ b.number = p.number + 1 /\ b.parent = <<p>> /\ b.time = t
           /\ OneOrNone(b.txs)
           /\ \E r : /\ Makes(b.extra, b.txs, t, p.root, r)
                    /\ b.root = r.root /\ b.receipts = r.receipts
<1>1. CASE \E tx \in Transactions : b \in Assemble(p, t, <<>>, <<tx>>)
  BY <1>1, AssembleFields DEF OneOrNone
<1>2. CASE \E op \in SysOps : b \in Assemble(p, t, <<op>>, <<>>)
  BY <1>2, AssembleFields DEF OneOrNone
<1>3. CASE b \in Assemble(p, t, <<>>, <<>>)
  BY <1>3, AssembleFields DEF OneOrNone
<1> QED BY <1>1, <1>2, <1>3, BuildableCases

\* Whatever links, re-executes and carries at most one transaction could have
\* been built.
LEMMA FollowsBuildable ==
    ASSUME NEW p, NEW b, IsHeader(b), VerifyLinkage(b, p), OneOrNone(b.txs),
           NEW r, Makes(b.extra, b.txs, b.time, p.root, r), VerifyBlock(b, r)
    PROVE  b \in BuildableOn(p, b.time)
<1>1. /\ b.number = p.number + 1 /\ b.parent = <<p>> /\ b.root = r.root /\ b.receipts = r.receipts
  BY DEF VerifyLinkage, VerifyBlock
<1>2. b \in Assemble(p, b.time, b.extra, b.txs)
  BY <1>1, AssembleFields
<1>3. CASE \E op \in SysOps : b.extra = <<op>> /\ b.txs = <<>>
  BY <1>2, <1>3, BuildableCases
<1>4. CASE b.extra = <<>> /\ b.txs = <<>>
  BY <1>2, <1>4, BuildableCases
<1>5. CASE b.extra = <<>> /\ b.txs # <<>>
  BY <1>2, <1>5, BuildableCases DEF OneOrNone
<1>6. b.extra = <<>> \/ \E op \in SysOps : b.extra = <<op>> /\ b.txs = <<>>
  BY DEF Makes
<1> QED BY <1>3, <1>4, <1>5, <1>6

LEMMA BuildableFollows ==
    ASSUME NEW p, p.number \in Nat, p.time \in Nat, NEW t \in Int, t > p.time, NEW b \in BuildableOn(p, t)
    PROVE  Follows(b, p)
<1>1. PICK r : Makes(b.extra, b.txs, t, p.root, r) /\ b.root = r.root /\ b.receipts = r.receipts
  BY BuildableFields
<1>2. /\ b.number = p.number + 1 /\ b.parent = <<p>> /\ b.time = t /\ OneOrNone(b.txs)
  BY BuildableFields
<1>3. r \in ReplayBlock(b, p.root)
  BY <1>1, <1>2, ReplayMakes
<1>4. VerifyLinkage(b, p) /\ b.time \in Nat
  BY <1>2 DEF VerifyLinkage
<1> QED BY <1>1, <1>2, <1>3, <1>4 DEF Follows, VerifyBlock

\* A spoilt block differs in one field, and not in its transactions.
LEMMA SpoiltFields ==
    ASSUME NEW b, IsHeader(b), NEW c \in Spoilt(b)
    PROVE  /\ IsHeader(c) /\ c.txs = b.txs
           /\ c.time \in {b.time, b.parent[1].time, Deadline + 1}
<1> DEFINE Like(x) == IsHeader(x) /\ x.txs = b.txs
<1>1. \/ c = [b EXCEPT !.root = b.parent[1].root] \/ c = [b EXCEPT !.receipts = <<>>]
      \/ c = [b EXCEPT !.time = b.parent[1].time] \/ c = [b EXCEPT !.time = Deadline + 1]
      \/ c = [b EXCEPT !.parent = <<Genesis>>] \/ c = [b EXCEPT !.extra = <<Garbled>>]
      \/ \E op \in SysOps : c = [b EXCEPT !.extra = <<op>>]
  BY DEF Spoilt
<1>2. ASSUME NEW v PROVE
      /\ Like([b EXCEPT !.root = v]) /\ [b EXCEPT !.root = v].time = b.time
      /\ Like([b EXCEPT !.receipts = v]) /\ [b EXCEPT !.receipts = v].time = b.time
      /\ Like([b EXCEPT !.parent = v]) /\ [b EXCEPT !.parent = v].time = b.time
      /\ Like([b EXCEPT !.extra = v]) /\ [b EXCEPT !.extra = v].time = b.time
      /\ Like([b EXCEPT !.time = v]) /\ [b EXCEPT !.time = v].time = v
  BY DEF IsHeader, Headers
<1> HIDE DEF Like
<1>3. Like(c) /\ c.time \in {b.time, b.parent[1].time, Deadline + 1}
  <2> DEFINE Fine == Like(c) /\ c.time \in {b.time, b.parent[1].time, Deadline + 1}
  <2>1. ASSUME NEW v, \/ c = [b EXCEPT !.root = v] \/ c = [b EXCEPT !.receipts = v]
                      \/ c = [b EXCEPT !.parent = v] \/ c = [b EXCEPT !.extra = v]
        PROVE  Fine
    <3>1. Like(c) /\ c.time = b.time
      BY <1>2, <2>1
    <3> QED BY <3>1
  <2>2. ASSUME NEW v, c = [b EXCEPT !.time = v], v \in {b.parent[1].time, Deadline + 1}
        PROVE  Fine
    BY <1>2, <2>2
  <2> HIDE DEF Fine
  <2>3. Fine
    BY <1>1, <2>1, <2>2, Zenon
  <2> QED BY <2>3 DEF Fine
<1> QED BY <1>3 DEF Like

-----------------------------------------------------------------------------
(* Ledger: the disk.                                                       *)

LEMMA ConcatOneTwo ==
    ASSUME NEW x, NEW y, NEW z
    PROVE  <<x>> \o <<y, z>> = <<x, y, z>>
<1> DEFINE E == {x, y, z}
           s == <<x>> \o <<y, z>>
           t == <<x, y, z>>
<1>1. <<x>> \in Seq(E) /\ <<y, z>> \in Seq(E) /\ t \in Seq(E)
  OBVIOUS
<1>2. s \in Seq(E) /\ Len(s) = 3 /\ s[1] = x /\ s[2] = y /\ s[3] = z
  BY <1>1
<1>3. Len(t) = 3 /\ t[1] = x /\ t[2] = y /\ t[3] = z
  OBVIOUS
<1> HIDE DEF s, t
<1>4. \A i \in 1 .. 3 : s[i] = t[i]
  BY <1>2, <1>3
<1>5. s = [i \in 1 .. 3 |-> s[i]] /\ t = [i \in 1 .. 3 |-> t[i]]
  BY <1>1, <1>2, <1>3
<1>6. s = t
  BY <1>4, <1>5
<1> QED BY <1>6 DEF s, t

Trie(w) == [kind |-> "trie", of |-> w]

\* A batch is on the disk only behind the state it ends in.
Grounded(d) ==
    \A i \in 1 .. Len(d) : d[i].kind = "batch" =>
        d[i].of.root = GenesisWorld \/ \E j \in 1 .. i - 1 : d[j] = Trie(d[i].of.root)

\* What the holder of s.mu has still to write makes a block of the chain.
WritesPending ==
    \/ writes = <<>>
    \/ \E x : writes = <<x>> /\ x.kind \in {"trie", "sync"}
    \/ \E b : Follows(b, HeadBlock) /\ Opens(b.root) /\ writes = Persist(b)
    \/ \E b : /\ Follows(b, HeadBlock)
             /\ writes = <<Trie(b.root), [kind |-> "batch", of |-> b], [kind |-> "sync", of |-> b]>>

LedgerIInv ==
    /\ disk \in Seq(Elements(disk)) /\ synced \in 0 .. Len(disk) /\ wallTime \in Nat
    /\ Grounded(disk) /\ Good(Batches) /\ WritesPending

LEMMA BatchesSeq ==
    ASSUME LedgerIInv
    PROVE  /\ Batches \in Seq(Elements(disk)) /\ Height \in Nat
           /\ \A n : Block(n) = Nth(Batches, n)
           /\ \A n \in 1 .. Height : \E i \in 1 .. Len(disk) : disk[i].kind = "batch" /\ disk[i].of = Block(n)
<1>1. Batches \in Seq(Elements(disk)) /\ Elements(Batches) = {x \in Elements(disk) : x.kind = "batch"}
  BY OfKindElements DEF LedgerIInv, Batches
<1>2. Height \in Nat /\ Height = Len(Batches)
  BY <1>1 DEF Height
<1>3. \A n : Block(n) = Nth(Batches, n)
  BY DEF Block, Nth
<1>4. ASSUME NEW n \in 1 .. Height
      PROVE  \E i \in 1 .. Len(disk) : disk[i].kind = "batch" /\ disk[i].of = Block(n)
  <2>1. Batches[n] \in Elements(Batches)
    BY <1>2 DEF Elements
  <2>2. PICK i \in 1 .. Len(disk) : disk[i] = Batches[n] /\ disk[i].kind = "batch"
    BY <1>1, <2>1 DEF Elements
  <2>3. Block(n) = Batches[n].of
    BY <1>2 DEF Block
  <2> QED BY <2>2, <2>3
<1> QED BY <1>1, <1>2, <1>3, <1>4

\* Every block's state is there to open.
LEMMA BlocksOpen ==
    ASSUME LedgerIInv, NEW n \in 0 .. Height
    PROVE  Opens(Block(n).root)
<1>1. CASE n = 0
  BY <1>1 DEF Block, Opens, Genesis
<1>2. CASE n # 0
  <2>1. Height \in Nat /\ n \in 1 .. Height
    BY <1>2, BatchesSeq
  <2>2. PICK i \in 1 .. Len(disk) : disk[i].kind = "batch" /\ disk[i].of = Block(n)
    BY <2>1, BatchesSeq
  <2>3. Len(disk) \in Nat
    BY DEF LedgerIInv
  <2>4. Block(n).root = GenesisWorld \/ \E j \in 1 .. i - 1 : disk[j] = Trie(Block(n).root)
    BY <2>2 DEF LedgerIInv, Grounded
  <2> QED BY <2>3, <2>4 DEF Opens, Trie
<1> QED BY <1>1, <1>2

LEMMA HeadFields ==
    ASSUME LedgerIInv
    PROVE  /\ HeadBlock = Nth(Batches, Height)
           /\ HeadBlock.number = Height /\ HeadBlock.time \in Nat /\ HeadBlock.root \in Worlds
<1>1. Height \in Nat /\ HeadBlock = Nth(Batches, Height) /\ Height = Len(Batches)
  BY BatchesSeq DEF HeadBlock, Height
<1>2. Consistent(Batches, Height)
  BY <1>1 DEF LedgerIInv, Good
<1> QED BY <1>1, <1>2 DEF Consistent

\* A record more on the disk.
LEMMA DiskAppend ==
    ASSUME LedgerIInv, NEW x, disk' = Append(disk, x),
           x.kind = "batch" => Opens(x.of.root) /\ Follows(x.of, HeadBlock)
    PROVE  /\ disk' \in Seq(Elements(disk')) /\ Len(disk') = Len(disk) + 1
           /\ Grounded(disk') /\ Good(Batches')
           /\ x.kind # "batch" => Batches' = Batches
           /\ \A w : Opens(w) => Opens(w)'
           /\ \A w : x = Trie(w) => Opens(w)'
<1> DEFINE E == Elements(disk) \cup {x}
           d == Append(disk, x)
<1>1. disk \in Seq(E) /\ x \in E /\ Len(disk) \in Nat
  BY DEF LedgerIInv
<1>2. d \in Seq(E) /\ Elements(d) = E
  <2> HIDE DEF E
  <2>1. Append(disk, x) \in Seq(E) /\ Elements(Append(disk, x)) = Elements(disk) \cup {x}
    BY <1>1, AppendElements
  <2> QED BY <2>1 DEF E
<1>3. Len(d) = Len(disk) + 1 /\ d[Len(disk) + 1] = x /\ \A i \in 1 .. Len(disk) : d[i] = disk[i]
  BY <1>1
<1>4. OfKind(d, "batch") = IF x.kind = "batch" THEN Append(Batches, x) ELSE Batches
  BY <1>1, OfKindAppend DEF Batches
<1>5. Batches' = OfKind(disk', "batch") /\ disk' = d
  BY DEF Batches
<1> HIDE DEF d
<1>6. ASSUME NEW w, Opens(w) PROVE Opens(w)'
  <2>1. CASE w = GenesisWorld
    BY <2>1 DEF Opens
  <2>2. ASSUME NEW i \in 1 .. Len(disk), disk[i] = Trie(w) PROVE Opens(w)'
    <3>1. i \in 1 .. Len(d) /\ d[i] = Trie(w)
      BY <1>1, <1>3, <2>2
    <3> QED BY <1>5, <3>1 DEF Opens, Trie
  <2> QED BY <1>6, <2>1, <2>2 DEF Opens, Trie
<1>7. ASSUME NEW w, x = Trie(w) PROVE Opens(w)'
  <2>1. Len(disk) + 1 \in 1 .. Len(d) /\ d[Len(disk) + 1] = Trie(w)
    BY <1>1, <1>3, <1>7
  <2> QED BY <1>5, <2>1 DEF Opens, Trie
<1>8. ASSUME NEW i \in 1 .. Len(d), d[i].kind = "batch"
      PROVE  d[i].of.root = GenesisWorld \/ \E j \in 1 .. i - 1 : d[j] = Trie(d[i].of.root)
  <2>1. CASE i \in 1 .. Len(disk)
    <3>1. d[i] = disk[i] /\ \A j \in 1 .. i - 1 : d[j] = disk[j]
      BY <1>1, <1>3, <2>1
    <3> QED BY <1>8, <2>1, <3>1 DEF LedgerIInv, Grounded
  <2>2. CASE i \notin 1 .. Len(disk)
    <3>1. i = Len(disk) + 1 /\ i - 1 = Len(disk) /\ d[i] = x
      BY <1>1, <1>3, <2>2
    <3>2. Opens(d[i].of.root)
      BY <1>8, <3>1
    <3>3. d[i].of.root = GenesisWorld \/ \E j \in 1 .. Len(disk) : disk[j] = Trie(d[i].of.root)
      BY <3>2 DEF Opens, Trie
    <3> QED BY <1>3, <3>1, <3>3
  <2> QED BY <2>1, <2>2
<1>9. Good(Batches')
  <2>1. CASE x.kind # "batch"
    BY <1>4, <1>5, <2>1 DEF LedgerIInv
  <2>2. CASE x.kind = "batch"
    <3>1. Follows(x.of, Nth(Batches, Len(Batches))) /\ Good(Batches) /\ Batches \in Seq(Elements(disk))
      BY <2>2, HeadFields, BatchesSeq DEF Height, LedgerIInv
    <3>2. Good(Append(Batches, x))
      BY <3>1, GoodAppend
    <3> QED BY <1>4, <1>5, <2>2, <3>2
  <2> QED BY <2>1, <2>2
<1>10. x.kind # "batch" => Batches' = Batches
  BY <1>4, <1>5
<1>11. Grounded(d)
  BY <1>8 DEF Grounded
<1> QED BY <1>2, <1>3, <1>5, <1>6, <1>7, <1>9, <1>10, <1>11 DEF E

LEMMA PowerCutKeeps ==
    ASSUME LedgerIInv, NEW k \in synced .. Len(disk), PowerCut(k)
    PROVE  LedgerIInv'
<1> DEFINE d == SubSeq(disk, 1, k)
<1>1. disk' = d /\ synced' = k /\ writes' = <<>> /\ wallTime' = wallTime
  BY DEF PowerCut
<1>2. disk \in Seq(Elements(disk)) /\ k \in 0 .. Len(disk) /\ Len(disk) \in Nat
  BY DEF LedgerIInv
<1>3. /\ d \in Seq(Elements(disk)) /\ Len(d) = k /\ \A i \in 1 .. k : d[i] = disk[i]
      /\ \E h \in 0 .. Len(OfKind(disk, "batch")) : OfKind(d, "batch") = SubSeq(OfKind(disk, "batch"), 1, h)
  <2>1. PICK E, s : E = Elements(disk) /\ s = disk /\ s \in Seq(E)
    BY <1>2
  <2>2. PICK n \in 0 .. Len(s) : n = k
    BY <1>2, <2>1
  <2>3. /\ SubSeq(s, 1, n) \in Seq(E) /\ Len(SubSeq(s, 1, n)) = n
        /\ \A i \in 1 .. n : SubSeq(s, 1, n)[i] = s[i]
        /\ \E h \in 0 .. Len(OfKind(s, "batch")) : OfKind(SubSeq(s, 1, n), "batch") = SubSeq(OfKind(s, "batch"), 1, h)
    BY <2>1, OfKindPrefix
  <2> QED BY <2>1, <2>2, <2>3
<1> HIDE DEF d
<1>4. d \in Seq(Elements(d))
  BY <1>3 DEF Elements
<1>5. Grounded(d)
  <2> SUFFICES ASSUME NEW i \in 1 .. Len(d), d[i].kind = "batch"
               PROVE  d[i].of.root = GenesisWorld \/ \E j \in 1 .. i - 1 : d[j] = Trie(d[i].of.root)
    BY DEF Grounded
  <2>1. i \in 1 .. Len(disk) /\ d[i] = disk[i] /\ \A j \in 1 .. i - 1 : d[j] = disk[j]
    BY <1>2, <1>3
  <2> QED BY <2>1 DEF LedgerIInv, Grounded
<1>6. PICK h \in 0 .. Len(Batches) : OfKind(d, "batch") = SubSeq(Batches, 1, h)
  BY <1>3 DEF Batches
<1>7. Good(SubSeq(Batches, 1, h))
  BY BatchesSeq, GoodPrefix DEF LedgerIInv
<1>8. Batches' = SubSeq(Batches, 1, h)
  BY <1>1, <1>6 DEF Batches
<1> QED BY <1>1, <1>2, <1>3, <1>4, <1>5, <1>7, <1>8 DEF LedgerIInv, WritesPending

LEMMA WriteNextKeeps ==
    ASSUME LedgerIInv, WriteNext
    PROVE  LedgerIInv'
<1> DEFINE x == Head(writes)
<1>1. /\ writes # <<>> /\ writes' = Tail(writes) /\ wallTime' = wallTime
      /\ x.kind = "sync" => synced' = Len(disk) /\ disk' = disk
      /\ x.kind # "sync" => disk' = Append(disk, x) /\ synced' = synced
  BY DEF WriteNext
<1>2. Len(disk) \in Nat
  BY DEF LedgerIInv
<1>3. ASSUME NEW y, writes = <<y>>, y.kind \in {"trie", "sync"}
      PROVE  LedgerIInv'
  <2>1. x = y /\ writes' = <<>>
    BY <1>1, <1>3
  <2> HIDE DEF x
  <2>2. CASE x.kind = "sync"
    <3>1. Batches' = Batches
      BY <1>1, <2>2 DEF Batches
    <3> QED BY <1>1, <1>2, <2>1, <2>2, <3>1 DEF LedgerIInv, WritesPending
  <2>3. CASE x.kind # "sync"
    <3>1. x.kind # "batch"
      BY <1>3, <2>1, <2>3
    <3>2. /\ disk' \in Seq(Elements(disk')) /\ Len(disk') = Len(disk) + 1
          /\ Grounded(disk') /\ Good(Batches')
      BY <1>1, <2>3, <3>1, DiskAppend
    <3> QED BY <1>1, <1>2, <2>1, <2>3, <3>2 DEF LedgerIInv, WritesPending
  <2> QED BY <2>2, <2>3
<1>4. ASSUME NEW b, Follows(b, HeadBlock), Opens(b.root), writes = Persist(b)
      PROVE  LedgerIInv'
  <2>1. /\ x = [kind |-> "batch", of |-> b]
        /\ writes' = <<[kind |-> "sync", of |-> b]>>
    BY <1>1, <1>4 DEF Persist
  <2>2. x.kind = "batch" /\ x.of = b
    BY <2>1
  <2> HIDE DEF x
  <2>3. /\ disk' \in Seq(Elements(disk')) /\ Len(disk') = Len(disk) + 1
        /\ Grounded(disk') /\ Good(Batches')
    BY <1>1, <1>4, <2>2, DiskAppend
  <2>4. WritesPending'
    <3>1. [kind |-> "sync", of |-> b].kind \in {"trie", "sync"}
      OBVIOUS
    <3> QED BY <2>1, <3>1 DEF WritesPending
  <2> QED BY <1>1, <1>2, <2>2, <2>3, <2>4 DEF LedgerIInv
<1>5. ASSUME NEW b, Follows(b, HeadBlock), 
             writes = <<Trie(b.root), [kind |-> "batch", of |-> b], [kind |-> "sync", of |-> b]>>
      PROVE  LedgerIInv'
  <2>1. x = Trie(b.root) /\ writes' = Persist(b)
    BY <1>1, <1>5 DEF Persist
  <2>2. x.kind = "trie"
    BY <2>1 DEF Trie
  <2> HIDE DEF x
  <2>3. /\ disk' \in Seq(Elements(disk')) /\ Len(disk') = Len(disk) + 1
        /\ Grounded(disk') /\ Good(Batches') /\ Batches' = Batches /\ Opens(b.root)'
    BY <1>1, <2>1, <2>2, DiskAppend
  <2>4. HeadBlock' = HeadBlock
    BY <2>3 DEF HeadBlock, Height, Block
  <2>5. WritesPending'
    BY <1>5, <2>1, <2>3, <2>4 DEF WritesPending
  <2> QED BY <1>1, <1>2, <2>2, <2>3, <2>5 DEF LedgerIInv
<1> QED BY <1>1, <1>3, <1>4, <1>5 DEF LedgerIInv, WritesPending

\* What a caller that holds s.mu is about to write.
LEMMA WillWrite ==
    ASSUME LedgerIInv, NEW w, NEW b, b.root = w
    PROVE  /\ CommitTrie(w) = IF Opens(w) THEN <<>> ELSE <<Trie(w)>>
           /\ CommitTrie(w) \o <<>> = IF Opens(w) THEN <<>> ELSE <<Trie(w)>>
           /\ CommitTrie(w) \o Persist(b) =
                IF Opens(w) THEN Persist(b)
                ELSE <<Trie(w), [kind |-> "batch", of |-> b], [kind |-> "sync", of |-> b]>>
<1>1. CommitTrie(w) = IF Opens(w) THEN <<>> ELSE <<Trie(w)>>
  BY DEF CommitTrie, Trie
<1> DEFINE x == Trie(w)
           y == [kind |-> "batch", of |-> b]
           z == [kind |-> "sync", of |-> b]
<1>2. Persist(b) = <<y, z>>
  BY DEF Persist
<1> HIDE DEF x, y, z
<1>3. <<>> \o <<y, z>> = <<y, z>> /\ <<>> \o <<>> = <<>> /\ <<x>> \o <<>> = <<x>>
  OBVIOUS
<1>4. <<x>> \o <<y, z>> = <<x, y, z>>
  BY ConcatOneTwo
<1>5. CommitTrie(w) = IF Opens(w) THEN <<>> ELSE <<x>>
  BY <1>1 DEF x
<1>6. /\ CommitTrie(w) \o <<>> = IF Opens(w) THEN <<>> ELSE <<x>>
      /\ CommitTrie(w) \o Persist(b) = IF Opens(w) THEN Persist(b) ELSE <<x, y, z>>
  BY <1>2, <1>3, <1>4, <1>5
<1> QED BY <1>1, <1>6 DEF x, y, z

LEMMA SealKeeps ==
    ASSUME LedgerIInv, Seal
    PROVE  LedgerIInv'
<1>1. PICK b \in BuildableOn(HeadBlock, NextTime(HeadBlock)) : writes' = CommitTrie(b.root) \o Persist(b)
  BY DEF Seal
<1>2. disk' = disk /\ synced' = synced /\ wallTime' = wallTime
  BY DEF Seal
<1>3. /\ HeadBlock.number \in Nat /\ HeadBlock.time \in Nat
      /\ NextTime(HeadBlock) \in Nat /\ NextTime(HeadBlock) > HeadBlock.time
  BY HeadFields, BatchesSeq DEF NextTime, LedgerIInv
<1>4. Follows(b, HeadBlock)
  BY <1>3, BuildableFollows
<1>5. writes' = IF Opens(b.root) THEN Persist(b)
                ELSE <<Trie(b.root), [kind |-> "batch", of |-> b], [kind |-> "sync", of |-> b]>>
  BY <1>1, WillWrite
<1>6. /\ Batches' = Batches /\ HeadBlock' = HeadBlock /\ \A w : Opens(w)' = Opens(w)
  BY <1>2 DEF Batches, HeadBlock, Height, Block, Opens
<1>7. WritesPending'
  BY <1>4, <1>5, <1>6 DEF WritesPending
<1> QED BY <1>2, <1>6, <1>7 DEF LedgerIInv

\* Blocks built anywhere carry at most one transaction, and have a time.
LEMMA CandidateFields ==
    ASSUME LedgerIInv, NEW p, p.time \in Nat, NEW b \in Candidates(p)
    PROVE  /\ IsHeader(b) /\ OneOrNone(b.txs) /\ b.time \in Nat /\ b.time > p.time /\ b.time <= wallTime
           /\ b \in BuildableOn(p, b.time) /\ b.parent = <<p>>
<1>1. PICK t \in p.time + 1 .. wallTime : b \in BuildableOn(p, t)
  BY DEF Candidates
<1>2. t \in Nat /\ t > p.time /\ t <= wallTime
  BY DEF LedgerIInv
<1> QED BY <1>1, <1>2, BuildableFields

LEMMA ApplyKeeps ==
    ASSUME LedgerIInv, NEW b, ApplyExternalBlock(b), OneOrNone(b.txs), b.time \in Int
    PROVE  LedgerIInv'
<1>1. disk' = disk /\ synced' = synced /\ wallTime' = wallTime
  BY DEF ApplyExternalBlock
<1>2. /\ Batches' = Batches /\ HeadBlock' = HeadBlock /\ \A w : Opens(w)' = Opens(w)
  BY <1>1 DEF Batches, HeadBlock, Height, Block, Opens
<1>3. CASE Replayed(b) = {} /\ UNCHANGED writes
  BY <1>1, <1>2, <1>3 DEF LedgerIInv, WritesPending
<1>4. CASE \E r \in Replayed(b) :
              writes' = CommitTrie(r.root) \o (IF VerifyBlock(b, r) THEN Persist(b) ELSE <<>>)
  <2>1. PICK r \in Replayed(b) :
              writes' = CommitTrie(r.root) \o (IF VerifyBlock(b, r) THEN Persist(b) ELSE <<>>)
    BY <1>4
  <2>2. VerifyLinkage(b, HeadBlock) /\ r \in ReplayBlock(b, HeadBlock.root)
    BY <2>1 DEF Replayed
  <2>3. CASE VerifyBlock(b, r)
    <3>1. b.time \in Nat
      BY <2>2, HeadFields DEF VerifyLinkage
    <3>2. Follows(b, HeadBlock)
      BY <2>2, <2>3, <3>1 DEF Follows
    <3>3. writes' = IF Opens(b.root) THEN Persist(b)
                    ELSE <<Trie(b.root), [kind |-> "batch", of |-> b], [kind |-> "sync", of |-> b]>>
      BY <2>1, <2>3, WillWrite DEF VerifyBlock
    <3>4. WritesPending'
      BY <1>2, <3>2, <3>3 DEF WritesPending
    <3> QED BY <1>1, <1>2, <3>4 DEF LedgerIInv
  <2>4. CASE ~VerifyBlock(b, r)
    <3>1. writes' = CommitTrie(r.root) \o <<>>
      BY <2>1, <2>4
    <3>2. [root |-> r.root].root = r.root
      OBVIOUS
    <3>3. writes' = IF Opens(r.root) THEN <<>> ELSE <<Trie(r.root)>>
      BY <3>1, <3>2, WillWrite
    <3>4. Trie(r.root).kind \in {"trie", "sync"}
      BY DEF Trie
    <3>5. WritesPending'
      BY <3>3, <3>4 DEF WritesPending
    <3> QED BY <1>1, <1>2, <3>5 DEF LedgerIInv
  <2> QED BY <2>3, <2>4
<1> QED BY <1>3, <1>4 DEF ApplyExternalBlock

LEMMA BlockFields ==
    ASSUME LedgerIInv, NEW n \in 0 .. Height
    PROVE  /\ Block(n).time \in Nat /\ Block(n).number = n /\ Block(n).root \in Worlds
           /\ OneOrNone(Block(n).txs)
           /\ n # 0 => n - 1 \in 0 .. Height /\ Follows(Block(n), Block(n - 1))
<1>1. Height \in Nat /\ Height = Len(Batches) /\ Block(n) = Nth(Batches, n) /\ Block(n - 1) = Nth(Batches, n - 1)
  BY BatchesSeq DEF Height
<1>2. Consistent(Batches, n)
  BY <1>1 DEF LedgerIInv, Good
<1>3. n # 0 => n - 1 \in 0 .. Height /\ n \in 1 .. Len(Batches)
  BY <1>1
<1>4. n # 0 => Follows(Block(n), Block(n - 1))
  BY <1>1, <1>3 DEF LedgerIInv, Good
<1>5. OneOrNone(Block(n).txs)
  <2>1. CASE n = 0
    BY <2>1 DEF Block, Genesis, OneOrNone
  <2>2. CASE n # 0
    BY <1>4, <2>2 DEF Follows
  <2> QED BY <2>1, <2>2
<1> QED BY <1>1, <1>2, <1>3, <1>4, <1>5 DEF Consistent

LEMMA ApplyLateKeeps ==
    ASSUME LedgerIInv, ApplyLate
    PROVE  LedgerIInv'
<1>1. PICK b \in {Block(n) : n \in 0 .. Height}
                \cup UNION {Candidates(p) : p \in {Block(n) : n \in 0 .. Height - 1} \cup Candidates(HeadBlock)} :
          ApplyExternalBlock(b)
  BY DEF ApplyLate
<1>2. CASE \E n \in 0 .. Height : b = Block(n)
  BY <1>1, <1>2, BlockFields, ApplyKeeps
<1>3. CASE \E n \in 0 .. Height - 1 : b \in Candidates(Block(n))
  <2>1. PICK n \in 0 .. Height - 1 : b \in Candidates(Block(n))
    BY <1>3
  <2>2. n \in 0 .. Height
    BY BatchesSeq
  <2>3. OneOrNone(b.txs) /\ b.time \in Nat
    BY <2>1, <2>2, BlockFields, CandidateFields
  <2> QED BY <1>1, <2>3, ApplyKeeps
<1>4. CASE \E p \in Candidates(HeadBlock) : b \in Candidates(p)
  <2>1. PICK p \in Candidates(HeadBlock) : b \in Candidates(p)
    BY <1>4
  <2>2. p.time \in Nat
    BY <2>1, HeadFields, CandidateFields
  <2>3. OneOrNone(b.txs) /\ b.time \in Nat
    BY <2>1, <2>2, CandidateFields
  <2> QED BY <1>1, <2>3, ApplyKeeps
<1> QED BY <1>1, <1>2, <1>3, <1>4

LEMMA LedgerStep ==
    ASSUME LedgerIInv, [LedgerNext]_ledgerVars
    PROVE  LedgerIInv'
<1>1. CASE ApplyHonest
  <2>1. PICK b \in Candidates(HeadBlock) : ApplyExternalBlock(b)
    BY <1>1 DEF ApplyHonest
  <2>2. OneOrNone(b.txs) /\ b.time \in Nat
    BY <2>1, HeadFields, CandidateFields
  <2> QED BY <2>1, <2>2, ApplyKeeps
<1>2. CASE ApplySpoilt
  <2>1. PICK b \in Candidates(HeadBlock) : \E c \in Spoilt(b) \ {b} : ApplyExternalBlock(c)
    BY <1>2 DEF ApplySpoilt
  <2>2. PICK c \in Spoilt(b) : ApplyExternalBlock(c)
    BY <2>1
  <2>3. IsHeader(b) /\ OneOrNone(b.txs) /\ b.time \in Nat /\ b.parent = <<HeadBlock>>
    BY <2>1, HeadFields, CandidateFields
  <2>4. b.parent[1].time \in Nat
    <3>1. b.parent[1] = HeadBlock
      BY <2>3
    <3> QED BY <3>1, HeadFields
  <2>5. c.txs = b.txs /\ c.time \in {b.time, b.parent[1].time, Deadline + 1}
    BY <2>3, SpoiltFields
  <2>6. OneOrNone(c.txs) /\ c.time \in Int
    BY <2>3, <2>4, <2>5, LedgerAssumption
  <2> QED BY <2>2, <2>6, ApplyKeeps
<1>3. CASE WriteFails
  <2>1. Batches' = Batches /\ disk' = disk /\ synced' = synced /\ wallTime' = wallTime /\ writes' = <<>>
    BY <1>3 DEF WriteFails, Batches
  <2> QED BY <2>1 DEF LedgerIInv, WritesPending
<1>4. CASE Tick
  <2>1. /\ disk' = disk /\ synced' = synced /\ wallTime' = wallTime + 1 /\ writes' = writes
    BY <1>4 DEF Tick
  <2>2. /\ Batches' = Batches /\ HeadBlock' = HeadBlock /\ \A w : Opens(w)' = Opens(w)
    BY <2>1 DEF Batches, HeadBlock, Height, Block, Opens
  <2> QED BY <2>1, <2>2 DEF LedgerIInv, WritesPending
<1>5. CASE UNCHANGED ledgerVars
  <2>1. /\ disk' = disk /\ synced' = synced /\ wallTime' = wallTime /\ writes' = writes
    BY <1>5 DEF ledgerVars
  <2>2. /\ Batches' = Batches /\ HeadBlock' = HeadBlock /\ \A w : Opens(w)' = Opens(w)
    BY <2>1 DEF Batches, HeadBlock, Height, Block, Opens
  <2> QED BY <2>1, <2>2 DEF LedgerIInv, WritesPending
<1> QED BY <1>1, <1>2, <1>3, <1>4, <1>5, SealKeeps, ApplyLateKeeps, WriteNextKeeps, PowerCutKeeps
        DEF LedgerNext

LEMMA LedgerInitInv ==
    ASSUME LedgerInit
    PROVE  LedgerIInv
<1>1. disk = <<>> /\ synced = 0 /\ wallTime = 1 /\ writes = <<>>
  BY DEF LedgerInit
<1>2. <<>> \in Seq({}) /\ Elements(<<>>) = {} /\ Len(<<>>) = 0
  BY DEF Elements
<1>3. OfKind(<<>>, "batch") \in Seq({})
  BY <1>2, OfKindElements
<1>4. OfKind(<<>>, "batch") = <<>>
  BY <1>3
<1>5. Grounded(<<>>)
  BY <1>2 DEF Grounded
<1> QED BY <1>1, <1>2, <1>4, <1>5, GoodEmpty DEF LedgerIInv, WritesPending, Batches

-----------------------------------------------------------------------------
(* Ledger: what follows.                                                   *)

LEMMA VerifyHeadHolds == ASSUME LedgerIInv PROVE VerifyHead
<1>1. Height \in 0 .. Height
  BY BatchesSeq
<1> QED BY <1>1, BlocksOpen DEF VerifyHead, HeadBlock

LEMMA VotesOnBuildableHolds == ASSUME LedgerIInv PROVE VotesOnBuildable
<1>1. /\ HeadBlock.number = Height /\ HeadBlock.time \in Nat /\ Height \in Nat
  BY HeadFields, BatchesSeq
<1>2. ASSUME NEW b \in Candidates(HeadBlock)
      PROVE  VerifyCandidate(b)
  <2>1. /\ b.time \in Nat /\ b.time > HeadBlock.time /\ b.time <= wallTime
        /\ b \in BuildableOn(HeadBlock, b.time)
    BY <1>1, CandidateFields
  <2>2. Follows(b, HeadBlock)
    BY <1>1, <2>1, BuildableFollows
  <2>3. b.number = Height + 1
    BY <1>1, <2>2 DEF Follows, VerifyLinkage
  <2> QED BY <2>1, <2>2, <2>3 DEF VerifyCandidate, Replayed, Follows
<1>3. ASSUME NEW b \in Candidates(HeadBlock), NEW c \in Spoilt(b), VerifyCandidate(c)
      PROVE  c \in BuildableOn(HeadBlock, c.time)
  <2>1. IsHeader(b) /\ OneOrNone(b.txs)
    BY <1>1, CandidateFields
  <2>2. IsHeader(c) /\ OneOrNone(c.txs)
    BY <2>1, SpoiltFields
  <2>3. PICK r \in Replayed(c) : VerifyBlock(c, r)
    BY <1>3 DEF VerifyCandidate
  <2>4. VerifyLinkage(c, HeadBlock) /\ r \in ReplayBlock(c, HeadBlock.root)
    BY <2>3 DEF Replayed
  <2>5. Makes(c.extra, c.txs, c.time, HeadBlock.root, r)
    BY <2>4, ReplayMakes
  <2> QED BY <2>2, <2>3, <2>4, <2>5, FollowsBuildable
<1> QED BY <1>2, <1>3 DEF VotesOnBuildable, Proposals

LEMMA AuditPassesHolds == ASSUME LedgerIInv PROVE AuditPasses
<1> SUFFICES ASSUME NEW from \in 0 .. Height + 1 PROVE AuditOK(Intact, from, 0)
  BY DEF AuditPasses
<1>1. Height \in Nat
  BY BatchesSeq
<1>2. ASSUME NEW n PROVE BlockAt(Intact, n) = {Block(n)} /\ ReadRawReceipts(Intact, n) = Block(n).receipts
  <2>1. Intact.what = "nothing"
    BY DEF Intact
  <2>2. ReadBlock(Intact, n) = {Block(n)}
    BY <2>1 DEF ReadBlock
  <2>3. ReadRawReceipts(Intact, n) = Block(n).receipts
    BY <2>1 DEF ReadRawReceipts
  <2> QED BY <2>2, <2>3 DEF BlockAt
<1> DEFINE first == IF from = 0 THEN 1 ELSE from
<1>3. first \in 1 .. Height + 1 /\ 0 \notin 1 .. Height
  BY <1>1
<1>4. ASSUME NEW n \in first .. Height
      PROVE  \E b \in BlockAt(Intact, n), p \in BlockAt(Intact, n - 1) :
                /\ VerifyLinkage(b, p)
                /\ \E r \in ReplayBlock(b, p.root) : VerifyBlock(b, r) /\ StoredReceiptsMatch(Intact, n, r)
  <2>1. n \in 0 .. Height /\ n # 0
    BY <1>1, <1>3
  <2>2. Follows(Block(n), Block(n - 1))
    BY <2>1, BlockFields
  <2>3. PICK r \in ReplayBlock(Block(n), Block(n - 1).root) : VerifyBlock(Block(n), r)
    BY <2>2 DEF Follows
  <2>4. StoredReceiptsMatch(Intact, n, r)
    BY <1>2, <2>3 DEF StoredReceiptsMatch, VerifyBlock
  <2>5. Block(n) \in BlockAt(Intact, n) /\ Block(n - 1) \in BlockAt(Intact, n - 1)
    BY <1>2
  <2> QED BY <2>2, <2>3, <2>4, <2>5 DEF Follows
<1>5. BlockAt(Intact, first - 1) # {}
  BY <1>2
<1>6. first <= Height => Opens(Block(first - 1).root)
  <2>1. first - 1 \in 0 .. Height
    BY <1>1, <1>3
  <2> QED BY <2>1, BlocksOpen
<1>7. Audited(Intact, first, Height)
  <2> HIDE DEF first
  <2> QED BY <1>4, <1>5, <1>6 DEF Audited
<1> HIDE DEF first
<1>8. first <= Height + 1
  BY <1>1, <1>3
<1> QED BY <1>3, <1>7, <1>8 DEF AuditOK, first

\* A damaged block is lost, or is another one.
LEMMA DamageFields ==
    ASSUME NEW d \in Damages, d.what = "block"
    PROVE  d.as = {} \/ \E c : d.as = {c}
<1> DEFINE A(n) == {[what |-> "hash", number |-> n, as |-> {}], [what |-> "block", number |-> n, as |-> {}]}
           B(n) == {[what |-> "block", number |-> n, as |-> {c}] : c \in Spoilt(Block(n)) \ {Block(n)}}
           C(n) == {[what |-> "receipts", number |-> n, as |-> {}]}
           D(n) == {[what |-> "receipts", number |-> n, as |-> {<<[tx |-> tx, log |-> 9]>>}] : tx \in ToSet(Block(n).txs)}
           F(n) == A(n) \cup B(n) \cup C(n) \cup D(n)
<1>1. Damages = UNION {F(n) : n \in 1 .. Height}
  BY DEF Damages
<1> HIDE DEF F
<1>2. PICK n \in 1 .. Height : d \in F(n)
  BY <1>1
<1>3. d \in A(n) \/ d \in B(n) \/ d \in C(n) \/ d \in D(n)
  BY <1>2 DEF F
<1>4. d \notin C(n) /\ d \notin D(n)
  OBVIOUS
<1>5. CASE d \in A(n)
  BY <1>5
<1>6. CASE d \in B(n)
  <2>1. PICK c : d = [what |-> "block", number |-> n, as |-> {c}]
    BY <1>6
  <2> QED BY <2>1
<1> HIDE DEF A, B, C, D
<1> QED BY <1>3, <1>4, <1>5, <1>6

LEMMA AuditFindsHolds == ASSUME LedgerIInv PROVE AuditFinds
<1> SUFFICES ASSUME NEW d \in Damages, NEW m \in 0 .. Height, AuditOK(d, 0, m), AuditOK(d, m + 1, 0)
             PROVE  /\ \A n \in 1 .. Height : ReadBlock(d, n) = {Block(n)}
                    /\ \A tx \in Mined : ReceiptByTxHash(d, tx) = {Block(MinedAt(tx)).receipts[1]}
  BY DEF AuditFinds
<1>1. Height \in Nat
  BY BatchesSeq
<1> DEFINE Seen(n) == \E b \in BlockAt(d, n), p \in BlockAt(d, n - 1) :
                        /\ VerifyLinkage(b, p)
                        /\ \E r \in ReplayBlock(b, p.root) : VerifyBlock(b, r) /\ StoredReceiptsMatch(d, n, r)
\* Every block is in one of the two audits.
<1>2. ASSUME NEW n \in 1 .. Height PROVE Seen(n)
  <2>1. \E last \in {m, Height} : (m # 0 => last = m) /\ Audited(d, 1, last)
    <3>1. CASE m \in 1 .. Height
      BY <3>1 DEF AuditOK
    <3>2. CASE m \notin 1 .. Height
      <4>1. m = 0
        BY <1>1, <3>2
      <4> QED BY <3>2, <4>1 DEF AuditOK
    <3> QED BY <3>1, <3>2
  <2>2. Audited(d, m + 1, Height)
    <3>1. m + 1 # 0 /\ 0 \notin 1 .. Height
      BY <1>1
    <3> QED BY <3>1 DEF AuditOK
  <2>3. PICK last \in {m, Height} : (m # 0 => last = m) /\ Audited(d, 1, last)
    BY <2>1
  <2>4. CASE n \in 1 .. last
    BY <2>3, <2>4 DEF Audited
  <2>5. CASE n \notin 1 .. last
    <3>1. n \in m + 1 .. Height
      BY <1>1, <2>3, <2>5
    <3> QED BY <2>2, <3>1 DEF Audited
  <2> QED BY <2>4, <2>5
<1>3. ASSUME NEW n \in 1 .. Height
      PROVE  ReadBlock(d, n) = {Block(n)} /\ ReadRawReceipts(d, n) = Block(n).receipts
  <2>1. Seen(n)
    BY <1>2
  <2>2. PICK b \in BlockAt(d, n) : \E r : VerifyBlock(b, r) /\ StoredReceiptsMatch(d, n, r)
    BY <2>1
  <2>3. b = Block(n) /\ Block(n) \in ReadBlock(d, n)
    BY <2>2 DEF BlockAt
  <2>4. ReadRawReceipts(d, n) = Block(n).receipts
    BY <2>2, <2>3 DEF VerifyBlock, StoredReceiptsMatch
  <2>5. ReadBlock(d, n) = {Block(n)}
    <3>1. CASE d.number = n /\ d.what = "hash"
      BY <2>3, <3>1 DEF ReadBlock
    <3>2. CASE d.number = n /\ d.what = "block"
      <4>1. ReadBlock(d, n) = d.as
        BY <3>2 DEF ReadBlock
      <4>3. d.as = {} \/ \E c : d.as = {c}
        BY <3>2, DamageFields
      <4> QED BY <2>3, <4>1, <4>3
    <3>3. CASE ~(d.number = n /\ d.what = "hash") /\ ~(d.number = n /\ d.what = "block")
      BY <3>3 DEF ReadBlock
    <3> QED BY <3>1, <3>2, <3>3
  <2> QED BY <2>4, <2>5
<1>4. ASSUME NEW tx \in Mined
      PROVE  ReceiptByTxHash(d, tx) = {Block(MinedAt(tx)).receipts[1]}
  <2>1. \E n \in 1 .. Height : Block(n).txs = <<tx>>
    BY DEF Mined
  <2> DEFINE n == MinedAt(tx)
  <2>2. n \in 1 .. Height /\ Block(n).txs = <<tx>>
    BY <2>1 DEF MinedAt
  <2>3. ReceiptByTxHash(d, tx) =
          {ReadRawReceipts(d, n)[1] :
              b \in {x \in ReadBlock(d, n) : x.txs = <<tx>> /\ Len(ReadRawReceipts(d, n)) = 1}}
    BY DEF ReceiptByTxHash
  <2> HIDE DEF n
  <2>4. ReadBlock(d, n) = {Block(n)} /\ ReadRawReceipts(d, n) = Block(n).receipts
    BY <1>3, <2>2
  <2>5. Len(Block(n).receipts) = 1
    <3>1. n \in 0 .. Height /\ n - 1 \in 0 .. Height /\ Follows(Block(n), Block(n - 1))
      BY <1>1, <2>2, BlockFields
    <3>2. Block(n - 1).root \in Worlds
      BY <3>1, BlockFields
    <3>3. ChangesNothing(Block(n), Block(n - 1).root) \/ \E u \in Transactions : Ran(Block(n), Block(n - 1).root, u)
      BY <3>1, <3>2, FollowsFields
    <3>4. ~ChangesNothing(Block(n), Block(n - 1).root)
      <4>1. <<tx>> # <<>>
        OBVIOUS
      <4> QED BY <2>2, <4>1 DEF ChangesNothing
    <3>5. PICK u : Ran(Block(n), Block(n - 1).root, u)
      BY <3>3, <3>4
    <3> QED BY <3>5 DEF Ran
  <2>6. ReceiptByTxHash(d, tx) = {Block(n).receipts[1]}
    BY <2>2, <2>3, <2>4, <2>5
  <2> QED BY <2>6 DEF n
<1> QED BY <1>3, <1>4

LEMMA StateFollowsHolds == ASSUME LedgerIInv PROVE StateFollows
<1>1. Height \in Nat /\ Height = Len(Batches) /\ Good(Batches) /\ \A n : Block(n) = Nth(Batches, n)
  BY BatchesSeq DEF Height, LedgerIInv
<1>2. \A n : Votes(n) = VotesIn(Batches, n)
  BY <1>1 DEF Votes, VotesIn
<1>3. \A a : {m \in 1 .. Height : \E tx \in ToSet(Block(m).txs) : tx.from = a} = UsesIn(Batches, Height, a)
  BY <1>1 DEF UsesIn
<1>4. Height \in 0 .. Height /\ HeadBlock = Block(Height)
  BY <1>1 DEF HeadBlock
<1>5. Consistent(Batches, Height)
  BY <1>1, <1>4 DEF Good
<1>6. /\ HeadBlock.root.votes = Cardinality(Votes(Height))
      /\ \A a \in Accounts : HeadBlock.root.nonce[a] = Cardinality(UsesIn(Batches, Height, a))
  BY <1>1, <1>2, <1>4, <1>5 DEF Consistent
<1>7. ASSUME NEW m \in Votes(Height)
      PROVE  Block(m).time <= Deadline /\ Block(m).receipts[1].log = Cardinality(Votes(m))
  <2>1. m \in 1 .. Height /\ \E tx \in ToSet(Block(m).txs) : tx.kind = "vote"
    BY DEF Votes
  <2>2. m \in 0 .. Height /\ m - 1 \in 0 .. Height /\ Follows(Block(m), Block(m - 1))
    BY <1>1, <2>1, BlockFields
  <2> DEFINE w == Block(m - 1).root
  <2>3. w \in Worlds
    BY <2>2, BlockFields
  <2>4. ChangesNothing(Block(m), w) \/ \E tx \in Transactions : Ran(Block(m), w, tx)
    BY <2>2, <2>3, FollowsFields
  <2> HIDE DEF w
  <2>5. ~ChangesNothing(Block(m), w)
    BY <2>1, ToSetOne DEF ChangesNothing
  <2>6. PICK tx \in Transactions : Ran(Block(m), w, tx)
    BY <2>4, <2>5
  <2>7. tx.kind = "vote"
    <3>1. ToSet(Block(m).txs) = {tx}
      BY <2>6, ToSetOne DEF Ran
    <3> QED BY <2>1, <3>1
  <2>8. Block(m).time <= Deadline
    BY <2>6, <2>7 DEF Ran, Runs
  <2>9. Block(m).receipts[1].log = w.votes + 1
    BY <2>6, <2>7 DEF Ran, Receipt
  <2>10. Block(m).root.votes = w.votes + 1
    BY <2>3, <2>6, <2>7, ExecutedFields DEF Ran
  <2>11. Consistent(Batches, m)
    BY <1>1, <2>2 DEF Good
  <2>12. Block(m).root.votes = Cardinality(Votes(m))
    BY <1>1, <1>2, <2>11 DEF Consistent
  <2> QED BY <2>8, <2>9, <2>10, <2>12
<1> QED BY <1>3, <1>6, <1>7 DEF StateFollows

\* Nth whatever write, sync or power cut the node stands, it can start from
\* what is on its disk; the chain there passes its audit; nothing that an
\* audit passed is served changed; the head's state counts the votes.
THEOREM LedgerInvAlways == LedgerSpec => []LedgerInv
<1>1. LedgerIInv => LedgerInv
  BY VerifyHeadHolds, VotesOnBuildableHolds, AuditPassesHolds, AuditFindsHolds, StateFollowsHolds
     DEF LedgerInv
<1>2. LedgerInit => LedgerIInv
  BY LedgerInitInv
<1>3. LedgerIInv /\ [LedgerNext]_ledgerVars => LedgerIInv'
  BY LedgerStep
<1> QED BY <1>1, <1>2, <1>3, PTL DEF LedgerSpec

-----------------------------------------------------------------------------
(* Seals: certificates.                                                    *)

\* A finite set has a subset of every smaller size.
LEMMA SubsetOfSize ==
    ASSUME NEW S, IsFiniteSet(S), NEW k \in 0 .. Cardinality(S)
    PROVE  \E q \in SUBSET S : Cardinality(q) = k
<1>1. Cardinality(S) \in Nat /\ ExistsBijection(1 .. Cardinality(S), S)
  BY FS_CardinalityType
<1>2. PICK f : f \in Bijection(1 .. Cardinality(S), S)
  BY <1>1 DEF ExistsBijection
<1>3. /\ f \in [1 .. Cardinality(S) -> S]
      /\ \A i, j \in 1 .. Cardinality(S) : f[i] = f[j] => i = j
  BY <1>2 DEF Bijection, Injection, Surjection, IsInjective
<1> DEFINE q == {f[i] : i \in 1 .. k}
           g == [i \in 1 .. k |-> f[i]]
<1>4. k \in Nat /\ 1 .. k \subseteq 1 .. Cardinality(S)
  BY <1>1
<1>5. q \in SUBSET S
  BY <1>3, <1>4
<1>6. g \in Bijection(1 .. k, q)
  BY <1>3, <1>4 DEF Bijection, Injection, Surjection, IsInjective
<1>7. ExistsBijection(1 .. k, q)
  BY <1>6 DEF ExistsBijection
<1> QED BY <1>4, <1>5, <1>7, FS_CountingElements, FS_NatBijection

LEMMA CertificateFields ==
    ASSUME NEW c \in Certificates
    PROVE  c # None /\ ToSet(c) \subseteq ValidatorSet /\ Cardinality(ToSet(c)) = Len(c)
<1>1. PICK q \in SUBSET ValidatorSet : Cardinality(q) >= CertQuorum /\ c = SetToSeq(q)
  BY DEF Certificates, Signed
<1>2. IsFiniteSet(q) /\ CertQuorum \in Nat \ {0} /\ Cardinality(q) \in Nat
  BY SealsAssumption, FS_Subset, FS_CardinalityType
<1> DEFINE n == Cardinality(q)
<1>3. \E f \in [1 .. n -> q] : IsInjective(f)
  <2>1. PICK f : f \in Bijection(1 .. n, q)
    BY <1>2, FS_CardinalityType DEF ExistsBijection
  <2>2. f \in [1 .. n -> q] /\ IsInjective(f)
    BY <2>1 DEF Bijection, Injection, Surjection, IsInjective
  <2> QED BY <2>2
<1>4. c \in [1 .. n -> q] /\ IsInjective(c)
  BY <1>1, <1>3 DEF SetToSeq
<1>5. c \in Seq(q) /\ Len(c) = n /\ DOMAIN c = 1 .. n
  BY <1>2, <1>4
<1>6. Cardinality(ToSet(c)) = Len(c)
  BY <1>4, <1>5, InjectiveCount
<1>7. ToSet(c) \subseteq ValidatorSet
  BY <1>4, <1>5 DEF ToSet
<1>8. Len(c) # 0
  BY <1>1, <1>2, <1>5
<1> QED BY <1>6, <1>7, <1>8 DEF None

-----------------------------------------------------------------------------
(* Seals: the writes of one database.                                      *)

Fit(c) == c # None /\ (liars = {} => c \in Certificates)

HasCert(d, n) == \E j \in 1 .. Len(d) : d[j].kind = "cert" /\ d[j].number = n

Numbered(bs) == \A k \in 1 .. Len(bs) : bs[k].number = k

\* Behind each block of the engine's is its certificate.
Certified(d) ==
    /\ \A i \in 1 .. Len(d) : d[i].kind = "cert" => Fit(d[i].cert)
    /\ \A i \in 1 .. Len(d) : d[i].kind = "block" /\ d[i].cert # Pulled =>
          \E j \in 1 .. i - 1 : d[j].kind = "cert" /\ d[j].number = d[i].number

Stored(d) == d \in Seq(Elements(d)) /\ Numbered(OfKind(d, "block")) /\ Certified(d)

LEMMA StoredAppend ==
    ASSUME NEW d, Stored(d), NEW x,
           x.kind = "cert" => Fit(x.cert),
           x.kind = "block" => x.number = Len(OfKind(d, "block")) + 1,
           x.kind = "block" /\ x.cert # Pulled => HasCert(d, x.number)
    PROVE  /\ Stored(Append(d, x)) /\ Len(Append(d, x)) = Len(d) + 1
           /\ Len(OfKind(Append(d, x), "block")) =
                IF x.kind = "block" THEN Len(OfKind(d, "block")) + 1 ELSE Len(OfKind(d, "block"))
           /\ \A n : HasCert(d, n) => HasCert(Append(d, x), n)
           /\ x.kind = "cert" => HasCert(Append(d, x), x.number)
<1> DEFINE E == Elements(d) \cup {x}
           e == Append(d, x)
           B == OfKind(d, "block")
<1>1. d \in Seq(E) /\ x \in E /\ Len(d) \in Nat
  BY DEF Stored
<1>2. e \in Seq(Elements(e))
  <2>1. Append(d, x) \in Seq(Elements(d) \cup {x}) /\ Elements(Append(d, x)) = Elements(d) \cup {x}
    <3> HIDE DEF E
    <3>1. Append(d, x) \in Seq(E) /\ Elements(Append(d, x)) = Elements(d) \cup {x}
      BY <1>1, AppendElements
    <3> QED BY <3>1 DEF E
  <2> QED BY <2>1
<1>3. Len(e) = Len(d) + 1 /\ e[Len(d) + 1] = x /\ \A i \in 1 .. Len(d) : e[i] = d[i]
  BY <1>1
<1>4. OfKind(e, "block") = IF x.kind = "block" THEN Append(B, x) ELSE B
  BY <1>1, OfKindAppend
<1>5. B \in Seq(E) /\ Len(B) \in Nat /\ Numbered(B)
  <2>1. B \in Seq(E)
    <3> HIDE DEF E
    <3> QED BY <1>1, OfKindElements
  <2> QED BY <2>1 DEF Stored
<1> HIDE DEF e, B
<1>6. Numbered(OfKind(e, "block"))
  <2>1. CASE x.kind = "block"
    <3>1. x.number = Len(B) + 1
      BY <2>1 DEF B
    <3>2. /\ Len(Append(B, x)) = Len(B) + 1 /\ Append(B, x)[Len(B) + 1] = x
          /\ \A k \in 1 .. Len(B) : Append(B, x)[k] = B[k]
      BY <1>1, <1>5
    <3>3. Numbered(Append(B, x))
      BY <1>5, <3>1, <3>2 DEF Numbered
    <3> QED BY <1>4, <2>1, <3>3
  <2>2. CASE x.kind # "block"
    BY <1>4, <1>5, <2>2
  <2> QED BY <2>1, <2>2
<1>7. Len(OfKind(e, "block")) = IF x.kind = "block" THEN Len(B) + 1 ELSE Len(B)
  <2>1. Len(Append(B, x)) = Len(B) + 1
    BY <1>1, <1>5
  <2> QED BY <1>4, <2>1
<1>8. ASSUME NEW i \in 1 .. Len(e), e[i].kind = "cert" PROVE Fit(e[i].cert)
  <2>1. CASE i \in 1 .. Len(d)
    BY <1>3, <1>8, <2>1 DEF Stored, Certified
  <2>2. CASE i \notin 1 .. Len(d)
    <3>1. i = Len(d) + 1
      BY <1>1, <1>3, <2>2
    <3> QED BY <1>3, <1>8, <3>1
  <2> QED BY <2>1, <2>2
<1>9. ASSUME NEW i \in 1 .. Len(e), e[i].kind = "block", e[i].cert # Pulled
      PROVE  \E j \in 1 .. i - 1 : e[j].kind = "cert" /\ e[j].number = e[i].number
  <2>1. CASE i \in 1 .. Len(d)
    <3>1. e[i] = d[i] /\ \A j \in 1 .. i - 1 : e[j] = d[j]
      BY <1>1, <1>3, <2>1
    <3> QED BY <1>9, <2>1, <3>1 DEF Stored, Certified
  <2>2. CASE i \notin 1 .. Len(d)
    <3>1. i = Len(d) + 1 /\ i - 1 = Len(d) /\ e[i] = x
      BY <1>1, <1>3, <2>2
    <3>2. HasCert(d, e[i].number)
      BY <1>9, <3>1
    <3> QED BY <1>3, <3>1, <3>2 DEF HasCert
  <2> QED BY <2>1, <2>2
<1>10. \A n : HasCert(d, n) => HasCert(e, n)
  <2>1. 1 .. Len(d) \subseteq 1 .. Len(e)
    BY <1>1, <1>3
  <2> QED BY <1>3, <2>1 DEF HasCert
<1>11. x.kind = "cert" => HasCert(e, x.number)
  <2>1. Len(d) + 1 \in 1 .. Len(e)
    BY <1>1, <1>3
  <2> QED BY <1>3, <2>1 DEF HasCert
<1>12. Certified(e)
  BY <1>8, <1>9 DEF Certified
<1> QED BY <1>2, <1>3, <1>6, <1>7, <1>10, <1>11, <1>12 DEF Stored, e, B

LEMMA StoredPrefix ==
    ASSUME NEW d, Stored(d), NEW k \in 0 .. Len(d)
    PROVE  /\ Stored(SubSeq(d, 1, k)) /\ Len(SubSeq(d, 1, k)) = k
           /\ Len(OfKind(SubSeq(d, 1, k), "block")) \in 0 .. Len(OfKind(d, "block"))
<1> DEFINE p == SubSeq(d, 1, k)
           B == OfKind(d, "block")
<1>1. d \in Seq(Elements(d)) /\ Len(d) \in Nat
  BY DEF Stored
<1>2. /\ p \in Seq(Elements(d)) /\ Len(p) = k /\ \A i \in 1 .. k : p[i] = d[i]
      /\ \E h \in 0 .. Len(B) : OfKind(p, "block") = SubSeq(B, 1, h)
  BY <1>1, OfKindPrefix
<1>3. B \in Seq(Elements(d)) /\ Numbered(B)
  BY <1>1, OfKindElements DEF Stored
<1> HIDE DEF p, B
<1>4. PICK h \in 0 .. Len(B) : OfKind(p, "block") = SubSeq(B, 1, h)
  BY <1>2
<1>5. Len(SubSeq(B, 1, h)) = h /\ \A i \in 1 .. h : SubSeq(B, 1, h)[i] = B[i]
  BY <1>3
<1>6. Len(B) \in Nat
  BY <1>3
<1>7. Numbered(SubSeq(B, 1, h))
  BY <1>3, <1>5, <1>6 DEF Numbered
<1>8. p \in Seq(Elements(p))
  BY <1>2 DEF Elements
<1>9. Certified(p)
  <2>1. ASSUME NEW i \in 1 .. Len(p)
        PROVE  i \in 1 .. Len(d) /\ p[i] = d[i] /\ \A j \in 1 .. i - 1 : p[j] = d[j]
    BY <1>1, <1>2
  <2> QED BY <2>1 DEF Stored, Certified
<1> QED BY <1>2, <1>4, <1>5, <1>7, <1>8, <1>9 DEF Stored, p, B

\* The certificate of a block is there to be served if any was put.
LEMMA StoredCertIs ==
    ASSUME Stored(kept), NEW n
    PROVE  /\ HasCert(kept, n) => Fit(StoredCert(n))
           /\ ~HasCert(kept, n) => StoredCert(n) = None
<1> DEFINE puts == {i \in 1 .. Len(kept) : kept[i].kind = "cert" /\ kept[i].number = n}
<1>1. StoredCert(n) = IF puts = {} THEN None ELSE kept[CHOOSE i \in puts : \A j \in puts : j <= i].cert
  BY DEF StoredCert
<1>2. HasCert(kept, n) <=> puts # {}
  BY DEF HasCert
<1>3. ASSUME puts # {} PROVE \E i \in puts : \A j \in puts : j <= i
  <2>1. Len(kept) \in Nat
    BY DEF Stored
  <2> DEFINE T == {Len(kept) - i : i \in puts}
  <2>2. T \subseteq Nat /\ T # {}
    BY <1>3, <2>1
  <2>3. PICK m \in T : \A k \in T : m <= k
    <3> HIDE DEF T
    <3> QED BY <2>2, LeastNatural
  <2>4. PICK i \in puts : m = Len(kept) - i
    BY <2>3
  <2>5. \A j \in puts : m <= Len(kept) - j
    BY <2>3
  <2> QED BY <2>1, <2>4, <2>5
<1>4. ASSUME puts # {} PROVE Fit(StoredCert(n))
  <2>1. PICK i \in puts : StoredCert(n) = kept[i].cert
    BY <1>1, <1>3, <1>4
  <2> QED BY <2>1 DEF Stored, Certified
<1> HIDE DEF puts
<1> QED BY <1>1, <1>2, <1>4

-----------------------------------------------------------------------------
(* Seals: what peers serve.                                                *)

PeersFit ==
    \A p \in ToSet(Peers) :
        /\ certOf[p] \in Seq(Elements(certOf[p])) /\ Len(certOf[p]) = final
        /\ \A n \in 1 .. final : certOf[p][n] # None => Fit(certOf[p][n])

ServesAll(p, from, to) ==
    \A n \in from .. to : n < from + PageLimit => \E e \in Elements(Served(p, from, to)) : e.number = n

LEMMA ServedFields ==
    ASSUME PeersFit, final \in Nat, NEW p \in ToSet(Peers), NEW from \in Nat \ {0}, NEW to \in Nat, from <= to
    PROVE  /\ Served(p, from, to) \in Seq(Elements(Served(p, from, to)))
           /\ \A e \in Elements(Served(p, from, to)) : e.number \in Nat /\ Fit(e.cert)
           /\ None \notin ToSet(certOf[p]) /\ to <= final => ServesAll(p, from, to)
<1> DEFINE L == Least(to - from + 1, PageLimit)
           Answer(i) == [number |-> from + i - 1,
                        cert |-> IF from + i - 1 <= Len(certOf[p]) THEN certOf[p][from + i - 1] ELSE None]
           range == [i \in 1 .. L |-> Answer(i)]
           E == Elements(range)
           S == {x \in Elements(range) : x.cert # None}
<1>1. L \in Nat /\ PageLimit \in Nat
  BY SealsAssumption DEF Least
<1>2. Served(p, from, to) = Those(range, S)
  BY DEF Served
<1>3. range \in Seq(E) /\ Len(range) = L /\ \A i \in 1 .. L : range[i] = Answer(i)
  <2> HIDE DEF L, Answer
  <2>1. DOMAIN range = 1 .. L /\ Len(range) = L /\ \A i \in 1 .. L : range[i] = Answer(i)
    BY <1>1
  <2>2. range \in [1 .. L -> E]
    BY <2>1 DEF Elements
  <2> HIDE DEF range, E
  <2> QED BY <1>1, <2>1, <2>2
<1> HIDE DEF range, E, L
<1>4. Elements(Those(range, S)) = Elements(range) \cap S /\ Those(range, S) \in Seq(E)
  <2> HIDE DEF S
  <2> QED BY <1>3, ThoseElements
<1>5. Elements(Served(p, from, to)) = S
  BY <1>2, <1>4
<1>6. Served(p, from, to) \in Seq(Elements(Served(p, from, to)))
  <2> DEFINE s == Those(range, S)
  <2>1. s \in Seq(E) /\ Served(p, from, to) = s
    BY <1>2, <1>4
  <2> HIDE DEF s
  <2>2. s \in Seq(Elements(s))
    BY <2>1 DEF Elements
  <2> QED BY <2>1, <2>2
<1>7. ASSUME NEW e \in S PROVE e.number \in Nat /\ Fit(e.cert)
  <2>1. PICK i \in 1 .. L : e = Answer(i) /\ e.cert # None
    BY <1>3 DEF Elements
  <2>2. from + i - 1 \in Nat \ {0}
    BY <1>1
  <2>3. from + i - 1 <= Len(certOf[p]) /\ e.cert = certOf[p][from + i - 1]
    BY <2>1
  <2>4. from + i - 1 \in 1 .. final
    BY <2>2, <2>3 DEF PeersFit
  <2> QED BY <2>1, <2>2, <2>3, <2>4 DEF PeersFit
<1>8. ASSUME None \notin ToSet(certOf[p]), to <= final, NEW n \in from .. to, n < from + PageLimit
      PROVE  \E e \in S : e.number = n
  <2> DEFINE i == n - from + 1
  <2>1. i \in 1 .. L /\ from + i - 1 = n
    BY <1>1, <1>8, SealsAssumption DEF L, Least
  <2>2. n \in 1 .. Len(certOf[p]) /\ n <= Len(certOf[p])
    BY <1>8 DEF PeersFit
  <2>3. certOf[p][n] # None
    <3>1. DOMAIN certOf[p] = 1 .. Len(certOf[p])
      BY DEF PeersFit
    <3> QED BY <1>8, <2>2, <3>1 DEF ToSet
  <2> HIDE DEF i
  <2>4. Answer(i).number = n /\ Answer(i).cert = certOf[p][n]
    BY <2>1, <2>2
  <2>5. Answer(i) \in Elements(range)
    BY <1>3, <2>1 DEF Elements
  <2> HIDE DEF Answer
  <2> QED BY <2>3, <2>4, <2>5
<1> HIDE DEF S
<1>9. None \notin ToSet(certOf[p]) /\ to <= final => ServesAll(p, from, to)
  BY <1>5, <1>8 DEF ServesAll
<1> QED BY <1>5, <1>6, <1>7, <1>9

-----------------------------------------------------------------------------
(* Seals: the invariant.                                                   *)

\* A block that is missing its certificate is one of the page at hand.
OfPage(n) ==
    \/ follower.pc = "blocks" /\ follower.from < n /\ n <= follower.to
    \/ follower.pc = "seals" /\ \E e \in Elements(follower.todo) : e.number = n

Covered ==
    cuts = 0 /\ None \notin ToSet(certOf[Peers[1]]) =>
        \A n \in 1 .. LocalHead : HasCert(kept, n) \/ OfPage(n)

EngineFit ==
    \/ engine = <<>>
    \/ \E n \in 1 .. final : \E c : /\ Fit(c) /\ n <= LocalHead + 1
                                 /\ engine = <<Wrote("cert", n, c), Wrote("block", n, None)>>
    \/ \E n \in 1 .. final : /\ HasCert(kept, n) /\ n <= LocalHead + 1
                          /\ engine = <<Wrote("block", n, None)>>

FollowerFit ==
    /\ DOMAIN follower = {"pc", "from", "to", "todo"}
    /\ follower = [f \in {"pc", "from", "to", "todo"} |-> follower[f]]
    /\ follower.pc \in {"idle", "blocks", "seals"}
    /\ follower.pc = "blocks" =>
          /\ follower.from \in Nat /\ follower.to \in Nat /\ follower.from < follower.to
          /\ follower.to <= final /\ follower.to <= follower.from + PageLimit
          /\ follower.from <= LocalHead
    /\ follower.pc = "seals" =>
          /\ follower.todo \in Seq(Elements(follower.todo))
          /\ \A e \in Elements(follower.todo) : e.number \in Nat /\ Fit(e.cert)

SealsIInv ==
    /\ Stored(kept) /\ flushed \in 0 .. Len(kept) /\ final \in Nat /\ LocalHead <= final
    /\ cuts \in Nat /\ PeersFit /\ EngineFit /\ FollowerFit /\ Covered

LEMMA HeadNumber ==
    ASSUME SealsIInv
    PROVE  LocalHead \in Nat /\ Len(kept) \in Nat
<1>1. kept \in Seq(Elements(kept))
  BY DEF SealsIInv, Stored
<1>2. OfKind(kept, "block") \in Seq(Elements(kept))
  BY <1>1, OfKindElements
<1> QED BY <1>1, <1>2 DEF LocalHead

LEMMA SealsInitInv ==
    ASSUME SealsInit
    PROVE  SealsIInv
<1>1. /\ final = 0 /\ certOf = [p \in ToSet(Peers) |-> <<>>] /\ kept = <<>> /\ flushed = 0
      /\ cuts = 0 /\ engine = <<>>
      /\ follower = [pc |-> "idle", from |-> 0, to |-> 0, todo |-> <<>>]
  BY DEF SealsInit
<1>2. <<>> \in Seq({}) /\ Elements(<<>>) = {} /\ Len(<<>>) = 0
  BY DEF Elements
<1>3. OfKind(<<>>, "block") \in Seq({})
  BY <1>2, OfKindElements
<1>4. OfKind(<<>>, "block") = <<>>
  BY <1>3
<1>5. Stored(<<>>)
  BY <1>2, <1>4 DEF Stored, Numbered, Certified
<1>6. LocalHead = 0
  BY <1>1, <1>2, <1>4 DEF LocalHead
<1>7. FollowerFit
  BY <1>1 DEF FollowerFit
<1>8. PeersFit
  BY <1>1, <1>2 DEF PeersFit
<1>9. Covered
  BY <1>6 DEF Covered
<1> QED BY <1>1, <1>2, <1>5, <1>6, <1>7, <1>8, <1>9 DEF SealsIInv, EngineFit

\* The state the engine and the follower write to, when nothing else moves.
LEMMA SealsPut ==
    ASSUME SealsIInv, NEW x, kept' = Append(kept, x), flushed' \in {flushed, Len(kept')},
           x.kind \in {"cert", "block"},
           x.kind = "cert" => Fit(x.cert),
           x.kind = "block" => x.number = LocalHead + 1 /\ x.number <= final,
           x.kind = "block" /\ x.cert # Pulled => HasCert(kept, x.number),
           UNCHANGED <<final, certOf, liars, cuts>>
    PROVE  /\ Stored(kept)' /\ flushed' \in 0 .. Len(kept') /\ PeersFit'
           /\ final' \in Nat /\ (LocalHead <= final)' /\ cuts' \in Nat
           /\ \A n : HasCert(kept, n) => HasCert(kept, n)'
           /\ x.kind = "cert" => HasCert(kept, x.number)' /\ LocalHead' = LocalHead
           /\ x.kind = "block" => LocalHead' = LocalHead + 1
           /\ \A c : Fit(c)' <=> Fit(c)
<1>1. \A c : Fit(c)' <=> Fit(c)
  BY DEF Fit
<1>2. Stored(kept)' <=> Stored(kept')
  BY <1>1 DEF Stored, Certified
<1>3. /\ Stored(Append(kept, x)) /\ Len(Append(kept, x)) = Len(kept) + 1
      /\ Len(OfKind(Append(kept, x), "block")) =
            IF x.kind = "block" THEN LocalHead + 1 ELSE LocalHead
      /\ \A n : HasCert(kept, n) => HasCert(Append(kept, x), n)
      /\ x.kind = "cert" => HasCert(Append(kept, x), x.number)
  BY StoredAppend DEF SealsIInv, LocalHead
<1>4. LocalHead' = Len(OfKind(kept', "block"))
  BY DEF LocalHead
<1>5. \A n : HasCert(kept, n)' <=> HasCert(kept', n)
  BY DEF HasCert
<1>6. PeersFit'
  BY <1>1 DEF PeersFit, SealsIInv
<1>7. LocalHead \in Nat /\ Len(kept) \in Nat
  BY HeadNumber
<1>8. (LocalHead <= final)'
  BY <1>3, <1>4, <1>7 DEF SealsIInv
<1>9. flushed' \in 0 .. Len(kept')
  BY <1>3, <1>7 DEF SealsIInv
<1> QED BY <1>1, <1>2, <1>3, <1>4, <1>5, <1>6, <1>7, <1>8, <1>9 DEF SealsIInv

LEMMA SealsStill ==
    ASSUME SealsIInv, UNCHANGED <<final, certOf, liars, kept, flushed, cuts>>
    PROVE  /\ Stored(kept)' /\ flushed' \in 0 .. Len(kept') /\ PeersFit'
           /\ final' \in Nat /\ (LocalHead <= final)' /\ cuts' \in Nat
           /\ \A n : HasCert(kept, n)' <=> HasCert(kept, n)
           /\ LocalHead' = LocalHead
           /\ \A c : Fit(c)' <=> Fit(c)
<1>1. \A c : Fit(c)' <=> Fit(c)
  BY DEF Fit
<1>2. Stored(kept)' <=> Stored(kept)
  BY <1>1 DEF Stored, Certified
<1>3. LocalHead' = LocalHead /\ \A n : HasCert(kept, n)' <=> HasCert(kept, n)
  BY DEF LocalHead, HasCert
<1>4. PeersFit'
  BY <1>1 DEF PeersFit, SealsIInv
<1> QED BY <1>1, <1>2, <1>3, <1>4 DEF SealsIInv

LEMMA FinalizeSealedKeeps ==
    ASSUME SealsIInv, FinalizeSealed
    PROVE  SealsIInv'
<1>1. PICK c \in Certificates :
        engine' = <<Wrote("cert", LocalHead + 1, c), Wrote("block", LocalHead + 1, None)>>
  BY DEF FinalizeSealed
<1>2. /\ UNCHANGED <<final, certOf, liars, kept, flushed, cuts>> /\ follower' = follower /\ LocalHead < final
  BY DEF FinalizeSealed
<1>3. Fit(c)
  BY CertificateFields DEF Fit
<1>4. LocalHead \in Nat /\ final \in Nat
  BY HeadNumber DEF SealsIInv
<1>5. EngineFit'
  <2>1. LocalHead + 1 \in 1 .. final
    BY <1>2, <1>4
  <2>2. Fit(c)' /\ LocalHead' = LocalHead /\ final' = final
    BY <1>2, <1>3, SealsStill
  <2> QED BY <1>1, <1>4, <2>1, <2>2 DEF EngineFit
<1>6. FollowerFit'
  BY <1>2, SealsStill DEF SealsIInv, FollowerFit
<1>7. Covered'
  BY <1>2, SealsStill DEF SealsIInv, Covered, OfPage
<1> QED BY <1>2, <1>5, <1>6, <1>7, SealsStill DEF SealsIInv

\* A page is begun, asked for its certificates, and done.
LEMMA FollowerTurns ==
    ASSUME SealsIInv, UNCHANGED <<final, certOf, liars, kept, flushed, engine, cuts>>,
           FollowerFit', \A n \in 1 .. LocalHead : HasCert(kept, n) \/ OfPage(n)' \/ ~OfPage(n)
                            \/ None \in ToSet(certOf[Peers[1]])
    PROVE  SealsIInv'
<1>1. EngineFit'
  BY SealsStill DEF SealsIInv, EngineFit
<1>2. Covered'
  BY SealsStill DEF SealsIInv, Covered
<1> QED BY <1>1, <1>2, SealsStill DEF SealsIInv

LEMMA PullPageKeeps ==
    ASSUME SealsIInv, PullPage
    PROVE  SealsIInv'
<1>1. /\ UNCHANGED <<final, certOf, liars, kept, flushed, engine, cuts>>
      /\ follower.pc = "idle" /\ LocalHead < final
      /\ follower' = [pc |-> "blocks", from |-> LocalHead, to |-> Least(LocalHead + PageLimit, final), todo |-> <<>>]
  BY DEF PullPage
<1>2. LocalHead \in Nat /\ final \in Nat /\ PageLimit \in Nat \ {0}
  BY HeadNumber, SealsAssumption DEF SealsIInv
<1>3. FollowerFit'
  <2>1. /\ Least(LocalHead + PageLimit, final) \in Nat /\ LocalHead < Least(LocalHead + PageLimit, final)
        /\ Least(LocalHead + PageLimit, final) <= final
        /\ Least(LocalHead + PageLimit, final) <= LocalHead + PageLimit
    BY <1>1, <1>2 DEF Least
  <2> DEFINE to == Least(LocalHead + PageLimit, final)
  <2> HIDE DEF to
  <2>2. follower' = [pc |-> "blocks", from |-> LocalHead, to |-> to, todo |-> <<>>]
    BY <1>1 DEF to
  <2>3. /\ DOMAIN follower' = {"pc", "from", "to", "todo"}
        /\ follower' = [f \in {"pc", "from", "to", "todo"} |-> follower'[f]]
        /\ follower'.pc = "blocks" /\ follower'.from = LocalHead /\ follower'.to = to
    BY <2>2
  <2>4. /\ to \in Nat /\ LocalHead < to /\ to <= final /\ to <= LocalHead + PageLimit
    BY <2>1 DEF to
  <2>5. LocalHead' = LocalHead
    BY <1>1, SealsStill
  <2> QED BY <1>1, <1>2, <2>3, <2>4, <2>5 DEF FollowerFit
<1>4. \A n : ~OfPage(n)
  BY <1>1 DEF OfPage
<1> QED BY <1>1, <1>3, <1>4, FollowerTurns

LEMMA AskSealsKeeps ==
    ASSUME SealsIInv, AskSeals
    PROVE  SealsIInv'
<1> DEFINE from == follower.from
           to == follower.to
           todo == FirstServed(from + 1, LocalHead)
<1>1. /\ UNCHANGED <<final, certOf, liars, kept, flushed, engine, cuts>>
      /\ follower.pc = "blocks" /\ LocalHead >= to
      /\ follower' = [follower EXCEPT !.pc = "seals", !.todo = todo]
  BY DEF AskSeals
<1>2. /\ LocalHead \in Nat /\ final \in Nat /\ LocalHead <= final /\ PageLimit \in Nat
      /\ from \in Nat /\ to \in Nat /\ from < to /\ to <= from + PageLimit
      /\ DOMAIN follower = {"pc", "from", "to", "todo"}
  BY <1>1, HeadNumber, SealsAssumption DEF SealsIInv, FollowerFit
<1> HIDE DEF from, to
<1>3. from + 1 \in Nat \ {0} /\ from + 1 <= LocalHead
  BY <1>1, <1>2
<1>4. Peers \in Seq(ToSet(Peers)) /\ Len(Peers) \in Nat /\ Len(Peers) # 0 /\ 1 \in 1 .. Len(Peers)
  BY SealsAssumption
<1>5. \A i \in 1 .. Len(Peers) : Peers[i] \in ToSet(Peers)
  BY <1>4
<1> DEFINE some == {i \in 1 .. Len(Peers) : Served(Peers[i], from + 1, LocalHead) # <<>>}
<1>6. todo = IF some = {} THEN <<>>
             ELSE Served(Peers[CHOOSE i \in some : \A j \in some : i <= j], from + 1, LocalHead)
  BY DEF FirstServed
<1>7. some # {} => \E i \in some : \A j \in some : i <= j
  <2>1. some \subseteq Nat
    BY <1>4
  <2> HIDE DEF some
  <2> QED BY <2>1, LeastNatural
<1> HIDE DEF todo
<1>8. /\ todo \in Seq(Elements(todo)) /\ \A e \in Elements(todo) : e.number \in Nat /\ Fit(e.cert)
  <2>1. CASE some = {}
    <3>1. todo = <<>> /\ Elements(<<>>) = {} /\ <<>> \in Seq({})
      BY <1>6, <2>1 DEF Elements
    <3> QED BY <3>1
  <2>2. CASE some # {}
    <3>1. PICK i \in some : todo = Served(Peers[i], from + 1, LocalHead)
      BY <1>6, <1>7, <2>2
    <3>2. Peers[i] \in ToSet(Peers)
      BY <1>5
    <3> DEFINE p == Peers[i]
    <3> HIDE DEF p
    <3>3. p \in ToSet(Peers) /\ todo = Served(p, from + 1, LocalHead)
      BY <3>1, <3>2 DEF p
    <3> QED BY <1>2, <1>3, <3>3, ServedFields DEF SealsIInv
  <2> QED BY <2>1, <2>2
<1>9. ASSUME None \notin ToSet(certOf[Peers[1]]), NEW n \in from + 1 .. to
      PROVE  \E e \in Elements(todo) : e.number = n
  <2> DEFINE p == Peers[1]
  <2>1. p \in ToSet(Peers) /\ None \notin ToSet(certOf[p])
    BY <1>4, <1>5, <1>9
  <2>2. n \in from + 1 .. LocalHead /\ n < from + 1 + PageLimit
    BY <1>1, <1>2, <1>9
  <2> HIDE DEF p
  <2>3. \E e \in Elements(Served(p, from + 1, LocalHead)) : e.number = n
    <3> DEFINE a == from + 1
               h == LocalHead
    <3>1. a \in Nat \ {0} /\ h \in Nat /\ a <= h /\ h <= final /\ PeersFit /\ final \in Nat
      BY <1>2, <1>3 DEF SealsIInv
    <3>2. n \in a .. h /\ n < a + PageLimit
      BY <2>2
    <3> HIDE DEF a, h
    <3>3. ServesAll(p, a, h)
      BY <2>1, <3>1, ServedFields
    <3>4. \E e \in Elements(Served(p, a, h)) : e.number = n
      BY <3>2, <3>3 DEF ServesAll
    <3> QED BY <3>4 DEF a, h
  <2>4. Served(p, from + 1, LocalHead) # <<>>
    <3>1. Elements(<<>>) = {}
      BY DEF Elements
    <3> QED BY <2>3, <3>1
  <2>5. 1 \in some
    BY <1>4, <2>4 DEF p
  <2>6. \A i \in some : i \in Nat /\ i >= 1
    BY <1>4
  <2>7. (CHOOSE i \in some : \A j \in some : i <= j) = 1
    <3> HIDE DEF some
    <3>1. PICK i \in some : i = (CHOOSE k \in some : \A j \in some : k <= j) /\ \A j \in some : i <= j
      BY <1>7, <2>5
    <3>2. i <= 1 /\ i >= 1 /\ i \in Nat
      BY <2>5, <2>6, <3>1
    <3> QED BY <3>1, <3>2
  <2>8. todo = Served(p, from + 1, LocalHead)
    BY <1>6, <2>5, <2>7 DEF p
  <2> QED BY <2>3, <2>8
<1>10. /\ DOMAIN follower' = {"pc", "from", "to", "todo"}
       /\ follower' = [f \in {"pc", "from", "to", "todo"} |-> follower'[f]]
       /\ follower'.pc = "seals" /\ follower'.todo = todo
  BY <1>1, <1>2
<1>11. FollowerFit'
  BY <1>1, <1>8, <1>10, SealsStill DEF FollowerFit
<1>12. ASSUME NEW n \in 1 .. LocalHead, OfPage(n), None \notin ToSet(certOf[Peers[1]])
       PROVE  OfPage(n)'
  <2>1. n \in from + 1 .. to
    BY <1>1, <1>2, <1>12 DEF OfPage, from, to
  <2> QED BY <1>9, <1>10, <1>12, <2>1 DEF OfPage
<1> QED BY <1>1, <1>11, <1>12, FollowerTurns

LEMMA PageDoneKeeps ==
    ASSUME SealsIInv, PageDone
    PROVE  SealsIInv'
<1>1. /\ UNCHANGED <<final, certOf, liars, kept, flushed, engine, cuts>>
      /\ follower.pc = "seals" /\ follower.todo = <<>>
      /\ follower' = [follower EXCEPT !.pc = "idle"]
  BY DEF PageDone
<1>2. DOMAIN follower = {"pc", "from", "to", "todo"}
  BY DEF SealsIInv, FollowerFit
<1>3. /\ DOMAIN follower' = {"pc", "from", "to", "todo"}
      /\ follower' = [f \in {"pc", "from", "to", "todo"} |-> follower'[f]]
      /\ follower'.pc = "idle"
  BY <1>1, <1>2
<1>4. FollowerFit'
  BY <1>3 DEF FollowerFit
<1>5. \A n : ~OfPage(n)
  BY <1>1 DEF OfPage, Elements
<1> QED BY <1>1, <1>4, <1>5, FollowerTurns

\* What is pending stays so while blocks and certificates come in.
LEMMA SealsPutFit ==
    ASSUME SealsIInv, NEW x, kept' = Append(kept, x), flushed' \in {flushed, Len(kept')},
           x.kind \in {"cert", "block"},
           x.kind = "cert" => Fit(x.cert),
           x.kind = "block" => x.number = LocalHead + 1 /\ x.number <= final,
           x.kind = "block" /\ x.cert # Pulled => HasCert(kept, x.number),
           UNCHANGED <<final, certOf, liars, cuts>>
    PROVE  /\ engine' = engine => EngineFit'
           /\ follower' = follower => FollowerFit'
<1>1. LocalHead \in Nat /\ LocalHead' \in {LocalHead, LocalHead + 1}
  BY SealsPut, HeadNumber
<1>2. \A n : HasCert(kept, n) => HasCert(kept, n)'
  BY SealsPut
<1>3. \A c : Fit(c)' <=> Fit(c)
  BY SealsPut
<1>4. \A n \in Nat : n <= LocalHead + 1 => n <= LocalHead' + 1
  <2>1. PICK a, b : a = LocalHead /\ b = LocalHead'
    OBVIOUS
  <2>2. a \in Nat /\ (b = a \/ b = a + 1)
    BY <1>1, <2>1
  <2>3. \A n \in Nat : n <= a + 1 => n <= b + 1
    BY <2>2
  <2> QED BY <2>1, <2>3
<1>5. ASSUME engine' = engine PROVE EngineFit'
  <2>1. CASE engine = <<>>
    BY <1>5, <2>1 DEF EngineFit
  <2>2. ASSUME NEW n \in 1 .. final, NEW c, Fit(c), n <= LocalHead + 1,
               engine = <<Wrote("cert", n, c), Wrote("block", n, None)>>
        PROVE  EngineFit'
    <3>1. n <= LocalHead' + 1 /\ Fit(c)' /\ n \in 1 .. final'
      BY <1>3, <1>4, <2>2
    <3> QED BY <1>5, <2>2, <3>1 DEF EngineFit
  <2>3. ASSUME NEW n \in 1 .. final, HasCert(kept, n), n <= LocalHead + 1,
               engine = <<Wrote("block", n, None)>>
        PROVE  EngineFit'
    <3>1. n <= LocalHead' + 1 /\ HasCert(kept, n)' /\ n \in 1 .. final'
      BY <1>2, <1>4, <2>3
    <3> QED BY <1>5, <2>3, <3>1 DEF EngineFit
  <2> QED BY <2>1, <2>2, <2>3 DEF SealsIInv, EngineFit
<1>6. ASSUME follower' = follower PROVE FollowerFit'
  <2>1. follower.pc = "blocks" => follower.from <= LocalHead'
    BY <1>1 DEF SealsIInv, FollowerFit
  <2> QED BY <1>3, <1>6, <2>1 DEF SealsIInv, FollowerFit
<1> QED BY <1>5, <1>6

LEMMA EngineWritesKeeps ==
    ASSUME SealsIInv, EngineWrites
    PROVE  SealsIInv'
<1>1. /\ engine # <<>> /\ engine' = Tail(engine)
      /\ UNCHANGED <<final, certOf, liars, cuts>> /\ follower' = follower
      /\ IF IsBlock(Head(engine)) THEN ApplyBlock(Head(engine)) ELSE Put(Head(engine))
  BY DEF EngineWrites
<1>2. LocalHead \in Nat /\ final \in Nat /\ Len(kept) \in Nat
  BY HeadNumber DEF SealsIInv
<1>3. ASSUME NEW n \in 1 .. final, NEW c, Fit(c), n <= LocalHead + 1,
             engine = <<Wrote("cert", n, c), Wrote("block", n, None)>>
      PROVE  SealsIInv'
  <2> DEFINE x == Wrote("cert", n, c)
             y == Wrote("block", n, None)
  <2>1. Head(engine) = x /\ engine' = <<y>> /\ x.kind = "cert" /\ x.number = n /\ x.cert = c
    BY <1>1, <1>3 DEF Wrote
  <2> HIDE DEF x
  <2>2. kept' = Append(kept, x) /\ flushed' = flushed
    BY <1>1, <2>1 DEF IsBlock, Put
  <2>3. /\ Stored(kept)' /\ flushed' \in 0 .. Len(kept') /\ PeersFit'
        /\ final' \in Nat /\ (LocalHead <= final)' /\ cuts' \in Nat
        /\ \A k : HasCert(kept, k) => HasCert(kept, k)'
        /\ HasCert(kept, n)' /\ LocalHead' = LocalHead
    BY <1>1, <1>3, <2>1, <2>2, SealsPut
  <2>4. FollowerFit'
    BY <1>1, <1>3, <2>1, <2>2, SealsPutFit
  <2>5. EngineFit'
    <3>1. n \in 1 .. final' /\ n <= LocalHead' + 1
      BY <1>1, <1>3, <2>3
    <3> QED BY <2>1, <2>3, <3>1 DEF EngineFit
  <2>6. Covered'
    BY <1>1, <2>3 DEF SealsIInv, Covered, OfPage
  <2> QED BY <2>3, <2>4, <2>5, <2>6 DEF SealsIInv
<1>4. ASSUME NEW n \in 1 .. final, HasCert(kept, n), n <= LocalHead + 1, engine = <<Wrote("block", n, None)>>
      PROVE  SealsIInv'
  <2> DEFINE x == Wrote("block", n, None)
  <2>1. Head(engine) = x /\ engine' = <<>> /\ x.kind = "block" /\ x.number = n /\ x.cert = None
    BY <1>1, <1>4 DEF Wrote
  <2> HIDE DEF x
  <2>2. ApplyBlock(x) /\ EngineFit'
    BY <1>1, <2>1 DEF IsBlock, EngineFit
  <2>3. CASE LocalHead < n
    <3>1. kept' = Append(kept, x) /\ flushed' = Len(kept') /\ n = LocalHead + 1 /\ n <= final
      BY <1>2, <1>4, <2>1, <2>2, <2>3 DEF ApplyBlock
    <3>2. /\ Stored(kept)' /\ flushed' \in 0 .. Len(kept') /\ PeersFit'
          /\ final' \in Nat /\ (LocalHead <= final)' /\ cuts' \in Nat
          /\ \A k : HasCert(kept, k) => HasCert(kept, k)'
          /\ LocalHead' = LocalHead + 1
      BY <1>1, <1>4, <2>1, <3>1, SealsPut
    <3>3. FollowerFit'
      BY <1>1, <1>4, <2>1, <3>1, SealsPutFit
    <3>4. Covered'
      <4>2. \A k \in 1 .. LocalHead' : k \in 1 .. LocalHead \/ k = n
        BY <1>2, <3>1, <3>2
      <4>3. HasCert(kept, n)'
        BY <1>4, <3>2
      <4> QED BY <1>1, <3>2, <4>2, <4>3 DEF SealsIInv, Covered, OfPage
    <3> QED BY <2>2, <3>2, <3>3, <3>4 DEF SealsIInv
  <2>4. CASE ~(LocalHead < n)
    <3>1. UNCHANGED <<kept, flushed>>
      BY <2>1, <2>2, <2>4 DEF ApplyBlock
    <3>2. /\ Stored(kept)' /\ flushed' \in 0 .. Len(kept') /\ PeersFit'
          /\ final' \in Nat /\ (LocalHead <= final)' /\ cuts' \in Nat
          /\ \A k : HasCert(kept, k)' <=> HasCert(kept, k)
          /\ LocalHead' = LocalHead
          /\ \A c : Fit(c)' <=> Fit(c)
      BY <1>1, <3>1, SealsStill
    <3>3. FollowerFit'
      BY <1>1, <3>2 DEF SealsIInv, FollowerFit
    <3>4. Covered'
      BY <1>1, <3>2 DEF SealsIInv, Covered, OfPage
    <3> QED BY <2>2, <3>2, <3>3, <3>4 DEF SealsIInv
  <2> QED BY <2>3, <2>4
<1> QED BY <1>1, <1>3, <1>4 DEF SealsIInv, EngineFit

LEMMA ApplyPulledKeeps ==
    ASSUME SealsIInv, ApplyPulled
    PROVE  SealsIInv'
<1> DEFINE x == Wrote("block", LocalHead + 1, Pulled)
<1>1. /\ follower.pc = "blocks" /\ LocalHead < follower.to /\ ApplyBlock(x)
      /\ UNCHANGED <<final, certOf, liars, cuts>> /\ engine' = engine /\ follower' = follower
  BY DEF ApplyPulled
<1>2. LocalHead \in Nat /\ final \in Nat /\ follower.to \in Nat /\ follower.to <= final
      /\ follower.from <= LocalHead /\ follower.from \in Nat
  BY <1>1, HeadNumber DEF SealsIInv, FollowerFit
<1>3. x.kind = "block" /\ x.number = LocalHead + 1 /\ x.cert = Pulled
  BY DEF Wrote
<1> HIDE DEF x
<1>4. kept' = Append(kept, x) /\ flushed' = Len(kept') /\ x.number <= final
  BY <1>1, <1>2, <1>3 DEF ApplyBlock
<1>5. /\ Stored(kept)' /\ flushed' \in 0 .. Len(kept') /\ PeersFit'
      /\ final' \in Nat /\ (LocalHead <= final)' /\ cuts' \in Nat
      /\ \A k : HasCert(kept, k) => HasCert(kept, k)'
      /\ LocalHead' = LocalHead + 1
  BY <1>1, <1>3, <1>4, SealsPut
<1>6. FollowerFit' /\ EngineFit'
  BY <1>1, <1>3, <1>4, SealsPutFit
<1>7. Covered'
  <2>1. \A k \in 1 .. LocalHead' : k \in 1 .. LocalHead \/ k = LocalHead + 1
    BY <1>2, <1>5
  <2>3. \A k : OfPage(k) => OfPage(k)'
    BY <1>1 DEF OfPage
  <2>4. ASSUME (cuts = 0 /\ None \notin ToSet(certOf[Peers[1]]))', NEW k \in 1 .. LocalHead'
        PROVE  HasCert(kept, k)' \/ OfPage(k)'
    <3>1. CASE k \in 1 .. LocalHead
      BY <1>1, <1>5, <2>3, <2>4, <3>1 DEF SealsIInv, Covered
    <3>2. CASE k = LocalHead + 1
      <4>1. follower.from < k /\ k <= follower.to
        BY <1>1, <1>2, <3>2
      <4> QED BY <1>1, <4>1 DEF OfPage
    <3> QED BY <2>1, <3>1, <3>2
  <2> QED BY <2>4 DEF Covered
<1> QED BY <1>5, <1>6, <1>7 DEF SealsIInv

LEMMA PutServedKeeps ==
    ASSUME SealsIInv, PutServed
    PROVE  SealsIInv'
<1>0. PICK todo, e, x : todo = follower.todo /\ e = Head(todo) /\ x = Wrote("cert", e.number, e.cert)
  OBVIOUS
<1>1. /\ follower.pc = "seals" /\ todo # <<>> /\ Put(x)
      /\ follower' = [follower EXCEPT !.todo = Tail(todo)]
      /\ UNCHANGED <<final, certOf, liars, cuts>> /\ engine' = engine
  BY <1>0 DEF PutServed
<1>2. /\ todo \in Seq(Elements(todo)) /\ \A y \in Elements(todo) : y.number \in Nat /\ Fit(y.cert)
      /\ DOMAIN follower = {"pc", "from", "to", "todo"}
  BY <1>0, <1>1 DEF SealsIInv, FollowerFit
<1>3. /\ e \in Elements(todo) /\ Tail(todo) \in Seq(Elements(Tail(todo)))
      /\ Elements(Tail(todo)) \subseteq Elements(todo)
      /\ \A y \in Elements(todo) : y = e \/ y \in Elements(Tail(todo))
  <2>1. Len(todo) \in Nat \ {0} /\ e = todo[1] /\ Len(Tail(todo)) = Len(todo) - 1
        /\ Tail(todo) \in Seq(Elements(todo))
        /\ \A i \in 1 .. Len(todo) - 1 : Tail(todo)[i] = todo[i + 1]
    BY <1>0, <1>1, <1>2
  <2>2. Elements(Tail(todo)) \subseteq Elements(todo)
    BY <2>1 DEF Elements
  <2>3. Tail(todo) \in Seq(Elements(Tail(todo)))
    <3> DEFINE t == Tail(todo)
    <3>1. t \in Seq(Elements(todo))
      BY <2>1
    <3> HIDE DEF t
    <3>2. t \in Seq(Elements(t))
      BY <3>1 DEF Elements
    <3> QED BY <3>2 DEF t
  <2>4. ASSUME NEW y \in Elements(todo) PROVE y = e \/ y \in Elements(Tail(todo))
    <3>1. PICK i \in 1 .. Len(todo) : y = todo[i]
      BY DEF Elements
    <3>2. CASE i = 1
      BY <2>1, <3>1, <3>2
    <3>3. CASE i # 1
      <4>1. i - 1 \in 1 .. Len(todo) - 1 /\ (i - 1) + 1 = i
        BY <2>1, <3>1, <3>3
      <4>2. Tail(todo)[i - 1] = y
        BY <2>1, <3>1, <4>1
      <4> QED BY <2>1, <4>1, <4>2 DEF Elements
    <3> QED BY <3>2, <3>3
  <2>5. e \in Elements(todo)
    BY <2>1 DEF Elements
  <2> QED BY <2>2, <2>3, <2>4, <2>5
<1>4. x.kind = "cert" /\ x.number = e.number /\ x.cert = e.cert
  BY <1>0 DEF Wrote
<1>5. kept' = Append(kept, x) /\ flushed' = flushed /\ Fit(x.cert)
  BY <1>1, <1>2, <1>3, <1>4 DEF Put
<1>6. /\ Stored(kept)' /\ flushed' \in 0 .. Len(kept') /\ PeersFit'
      /\ final' \in Nat /\ (LocalHead <= final)' /\ cuts' \in Nat
      /\ \A k : HasCert(kept, k) => HasCert(kept, k)'
      /\ HasCert(kept, e.number)' /\ LocalHead' = LocalHead
      /\ \A c : Fit(c)' <=> Fit(c)
  BY <1>1, <1>4, <1>5, SealsPut
<1>7. EngineFit'
  BY <1>1, <1>4, <1>5, SealsPutFit
<1>8. /\ DOMAIN follower' = {"pc", "from", "to", "todo"}
      /\ follower' = [f \in {"pc", "from", "to", "todo"} |-> follower'[f]]
      /\ follower'.pc = "seals" /\ follower'.todo = Tail(todo)
  BY <1>1, <1>2
<1>9. FollowerFit'
  BY <1>2, <1>3, <1>6, <1>8 DEF FollowerFit
<1>10. Covered'
  <2>1. \A k : OfPage(k) => k = e.number \/ OfPage(k)'
    <3> SUFFICES ASSUME NEW k, OfPage(k) PROVE k = e.number \/ OfPage(k)'
      OBVIOUS
    <3>1. PICK y \in Elements(todo) : y.number = k
      BY <1>0, <1>1 DEF OfPage
    <3>2. CASE y = e
      BY <3>1, <3>2
    <3>3. CASE y \in Elements(Tail(todo))
      BY <1>8, <3>1, <3>3 DEF OfPage
    <3> QED BY <1>3, <3>2, <3>3
  <2> QED BY <1>1, <1>6, <2>1 DEF SealsIInv, Covered
<1> QED BY <1>6, <1>7, <1>9, <1>10 DEF SealsIInv

LEMMA CutPowerKeeps ==
    ASSUME SealsIInv, NEW k \in flushed .. Len(kept), CutPower(k)
    PROVE  SealsIInv'
<1>1. /\ cuts' = cuts + 1 /\ kept' = SubSeq(kept, 1, k) /\ flushed' = k /\ engine' = <<>>
      /\ follower' = [pc |-> "idle", from |-> 0, to |-> 0, todo |-> <<>>]
      /\ UNCHANGED <<final, certOf, liars>>
  BY DEF CutPower
<1>2. /\ k \in 0 .. Len(kept) /\ k \in Nat /\ cuts \in Nat /\ final \in Nat /\ LocalHead <= final
      /\ LocalHead \in Nat
  BY HeadNumber DEF SealsIInv
<1>3. /\ Stored(SubSeq(kept, 1, k)) /\ Len(SubSeq(kept, 1, k)) = k
      /\ Len(OfKind(SubSeq(kept, 1, k), "block")) \in 0 .. LocalHead
  BY <1>2, StoredPrefix DEF SealsIInv, LocalHead
<1>4. \A c : Fit(c)' <=> Fit(c)
  BY <1>1 DEF Fit
<1>5. Stored(kept)'
  BY <1>1, <1>3, <1>4 DEF Stored, Certified
<1>6. (LocalHead <= final)'
  BY <1>1, <1>2, <1>3 DEF LocalHead
<1>7. PeersFit'
  BY <1>1, <1>4 DEF SealsIInv, PeersFit
<1>8. FollowerFit'
  BY <1>1 DEF FollowerFit
<1>9. EngineFit'
  BY <1>1 DEF EngineFit
<1>10. Covered' /\ cuts' \in Nat
  BY <1>1, <1>2 DEF Covered
<1>11. flushed' \in 0 .. Len(kept')
  BY <1>1, <1>2, <1>3
<1> QED BY <1>1, <1>2, <1>5, <1>6, <1>7, <1>8, <1>9, <1>10, <1>11 DEF SealsIInv

LEMMA ClusterFinalizesKeeps ==
    ASSUME SealsIInv, ClusterFinalizes
    PROVE  SealsIInv'
<1>1. /\ final' = final + 1
      /\ UNCHANGED <<liars, kept, flushed, engine, cuts>> /\ follower' = follower
  BY DEF ClusterFinalizes
<1>2. PICK f \in [ToSet(Peers) -> Certificates \cup Forged \cup {None}] :
        /\ \A p \in ToSet(Peers) \ liars : f[p] \in Certificates \cup {None}
        /\ certOf' = [p \in ToSet(Peers) |-> Append(certOf[p], f[p])]
  BY DEF ClusterFinalizes
<1>3. LocalHead \in Nat /\ final \in Nat
  BY HeadNumber DEF SealsIInv
<1>4. \A c : Fit(c)' <=> Fit(c)
  BY <1>1 DEF Fit
<1>5. ASSUME NEW p \in ToSet(Peers), f[p] # None PROVE Fit(f[p])
  <2>1. CASE p \in liars
    <3>1. liars # {}
      BY <2>1
    <3> QED BY <1>5, <3>1 DEF Fit
  <2>2. CASE p \notin liars
    BY <1>2, <1>5, <2>2 DEF Fit
  <2> QED BY <2>1, <2>2
<1>6. ASSUME NEW p \in ToSet(Peers)
      PROVE  /\ certOf'[p] \in Seq(Elements(certOf'[p])) /\ Len(certOf'[p]) = final + 1
             /\ \A n \in 1 .. final + 1 : certOf'[p][n] # None => Fit(certOf'[p][n])
             /\ None \notin ToSet(certOf'[p]) => None \notin ToSet(certOf[p])
  <2> DEFINE a == certOf[p]
             b == Append(a, f[p])
  <2>1. certOf'[p] = b
    BY <1>2
  <2>2. a \in Seq(Elements(a)) /\ Len(a) = final /\ \A n \in 1 .. final : a[n] # None => Fit(a[n])
    BY DEF SealsIInv, PeersFit
  <2> HIDE DEF a
  <2>3. b \in Seq(Elements(a) \cup {f[p]}) /\ Elements(b) = Elements(a) \cup {f[p]}
    <3> DEFINE E == Elements(a) \cup {f[p]}
    <3>1. a \in Seq(E) /\ f[p] \in E
      BY <2>2
    <3> HIDE DEF E
    <3>2. b \in Seq(E) /\ Elements(b) = Elements(a) \cup {f[p]}
      BY <3>1, AppendElements
    <3> QED BY <3>2 DEF E
  <2>4. Len(b) = final + 1 /\ b[final + 1] = f[p] /\ \A n \in 1 .. final : b[n] = a[n]
    BY <2>2, <2>3
  <2> HIDE DEF b
  <2>5. \A n \in 1 .. final + 1 : b[n] # None => Fit(b[n])
    <3>1. \A n \in 1 .. final + 1 : n \in 1 .. final \/ n = final + 1
      BY <1>3
    <3> QED BY <1>5, <2>2, <2>4, <3>1
  <2>6. b \in Seq(Elements(b))
    BY <2>3
  <2>7. None \notin ToSet(b) => None \notin ToSet(a)
    <3>1. DOMAIN a = 1 .. final /\ DOMAIN b = 1 .. final + 1
      BY <2>2, <2>4, <2>6
    <3>2. 1 .. final \subseteq 1 .. final + 1
      BY <1>3
    <3> QED BY <2>4, <3>1, <3>2 DEF ToSet
  <2> QED BY <2>1, <2>4, <2>5, <2>6, <2>7 DEF a
<1>7. PeersFit'
  BY <1>1, <1>4, <1>6 DEF PeersFit
<1>8. Stored(kept)' /\ LocalHead' = LocalHead /\ \A n : HasCert(kept, n)' <=> HasCert(kept, n)
  BY <1>1, <1>4 DEF SealsIInv, Stored, Certified, LocalHead, HasCert
<1>9. (LocalHead <= final)' /\ final' \in Nat
  BY <1>1, <1>3, <1>8 DEF SealsIInv
<1>10. FollowerFit'
  <2>1. follower.pc = "blocks" => follower.to <= final'
    BY <1>1, <1>3 DEF SealsIInv, FollowerFit
  <2> QED BY <1>1, <1>4, <1>8, <2>1 DEF SealsIInv, FollowerFit
<1>11. EngineFit'
  <2>1. 1 .. final \subseteq 1 .. final'
    BY <1>1, <1>3
  <2> QED BY <1>1, <1>4, <1>8, <2>1 DEF SealsIInv, EngineFit
<1>12. Covered'
  <2>1. Peers[1] \in ToSet(Peers)
    BY SealsAssumption DEF ToSet
  <2> QED BY <1>1, <1>6, <1>8, <2>1 DEF SealsIInv, Covered, OfPage
<1> QED BY <1>1, <1>7, <1>8, <1>9, <1>10, <1>11, <1>12 DEF SealsIInv

LEMMA SealsStep ==
    ASSUME SealsIInv, [SealsNext]_sealVars
    PROVE  SealsIInv'
<1>1. CASE UNCHANGED sealVars
  <2>1. UNCHANGED <<final, certOf, liars, kept, flushed, engine, cuts>> /\ follower' = follower
    BY <1>1 DEF sealVars
  <2>2. FollowerFit'
    BY <2>1, SealsStill DEF SealsIInv, FollowerFit
  <2>3. \A n : OfPage(n)' <=> OfPage(n)
    BY <2>1 DEF OfPage
  <2> QED BY <2>1, <2>2, <2>3, FollowerTurns
<1> QED BY <1>1, ClusterFinalizesKeeps, FinalizeSealedKeeps, EngineWritesKeeps, PullPageKeeps, ApplyPulledKeeps,
           AskSealsKeeps, PutServedKeeps, PageDoneKeeps, CutPowerKeeps DEF SealsNext

-----------------------------------------------------------------------------
(* Seals: what the invariant says of what is served.                       *)

LEMMA OwnSealedHolds ==
    ASSUME SealsIInv
    PROVE  OwnSealed
<1> SUFFICES ASSUME NEW n \in OwnBlocks
             PROVE  /\ StoredCert(n) # None
                    /\ liars = {} => GetCommitSeals(n) \subseteq Certificates /\ GetCommitSeals(n) # {}
  BY DEF OwnSealed
<1>1. Len(kept) \in Nat /\ Stored(kept)
  BY HeadNumber DEF SealsIInv
<1>2. PICK i \in 1 .. Len(kept) : kept[i].kind = "block" /\ kept[i].cert # Pulled /\ n = kept[i].number
  BY DEF OwnBlocks, IsBlock
<1>3. PICK j \in 1 .. i - 1 : kept[j].kind = "cert" /\ kept[j].number = n
  BY <1>1, <1>2 DEF Stored, Certified
<1>4. HasCert(kept, n)
  <2>1. j \in 1 .. Len(kept)
    BY <1>1, <1>2, <1>3
  <2> QED BY <1>3, <2>1 DEF HasCert
<1>5. Fit(StoredCert(n))
  BY <1>1, <1>4, StoredCertIs
<1>6. n <= LocalHead
  <2> DEFINE B == OfKind(kept, "block")
  <2>1. kept \in Seq(Elements(kept)) /\ Numbered(B)
    BY <1>1 DEF Stored
  <2>2. kept[i] \in Elements(kept)
    BY DEF Elements
  <2>3. kept[i] \in Elements(B)
    BY <1>2, <2>1, <2>2, OfKindElements
  <2>4. PICK k \in 1 .. Len(B) : B[k] = kept[i]
    BY <2>3 DEF Elements
  <2>5. n = k /\ Len(B) \in Nat /\ LocalHead = Len(B)
    BY <1>2, <2>1, <2>4, HeadNumber DEF Numbered, LocalHead
  <2> QED BY <2>4, <2>5
<1>7. ASSUME liars = {} PROVE GetCommitSeals(n) \subseteq Certificates /\ GetCommitSeals(n) # {}
  <2>1. StoredCert(n) \in Certificates /\ StoredCert(n) # None
    BY <1>5, <1>7 DEF Fit
  <2>2. n \in Nat /\ LocalHead \in Nat
    <3>1. n \in Nat
      <4> DEFINE B == OfKind(kept, "block")
      <4>1. kept \in Seq(Elements(kept)) /\ Numbered(B) /\ kept[i] \in Elements(kept)
        BY <1>1 DEF Stored, Elements
      <4>2. kept[i] \in Elements(B)
        BY <1>2, <4>1, OfKindElements
      <4>3. PICK k \in 1 .. Len(B) : B[k] = kept[i]
        BY <4>2 DEF Elements
      <4> QED BY <1>2, <4>1, <4>3 DEF Numbered
    <3> QED BY <3>1, HeadNumber
  <2>3. ~(n > LocalHead)
    BY <1>6, <2>2
  <2>4. GetCommitSeals(n) = SealedBy(StoredCert(n))
    BY <2>1, <2>3 DEF GetCommitSeals
  <2>5. SealedBy(StoredCert(n)) = {StoredCert(n)}
    BY <2>1, CertificateFields DEF SealedBy
  <2> QED BY <2>1, <2>4, <2>5
<1> QED BY <1>5, <1>7 DEF Fit

LEMMA CaughtUpSealedHolds ==
    ASSUME SealsIInv
    PROVE  CaughtUpSealed
<1> SUFFICES ASSUME cuts = 0, follower.pc = "idle", None \notin ToSet(certOf[Peers[1]]), NEW n \in 1 .. LocalHead
             PROVE  StoredCert(n) # None
  BY DEF CaughtUpSealed
<1>1. ~OfPage(n)
  BY DEF OfPage
<1>2. HasCert(kept, n)
  BY <1>1 DEF SealsIInv, Covered
<1> QED BY <1>2, StoredCertIs DEF SealsIInv, Fit

LEMMA ServedSealsHolds == ServedSeals
<1> SUFFICES ASSUME NEW n \in 1 .. final, NEW c \in GetCommitSeals(n), Len(c) >= CertQuorum
             PROVE  \E q \in SUBSET ToSet(c) : q \subseteq ValidatorSet /\ Cardinality(q) = CertQuorum
  BY DEF ServedSeals
<1>1. CertQuorum \in Nat \ {0} /\ IsFiniteSet(ValidatorSet)
  BY SealsAssumption, FS_CardinalityType
<1>2. c # None
  <2>1. Len(None) = 0
    BY DEF None
  <2> QED BY <1>1, <2>1
<1>3. c \in SealedBy(StoredCert(n))
  BY <1>2 DEF GetCommitSeals
<1>4. ToSet(c) \subseteq ValidatorSet /\ Cardinality(ToSet(c)) = Len(c)
  BY <1>3 DEF SealedBy
<1>5. IsFiniteSet(ToSet(c)) /\ Cardinality(ToSet(c)) \in Nat
  BY <1>1, <1>4, FS_Subset, FS_CardinalityType
<1>6. CertQuorum \in 0 .. Cardinality(ToSet(c))
  BY <1>1, <1>4, <1>5
<1> QED BY <1>4, <1>5, <1>6, SubsetOfSize

(* Whatever validators, quorum, page and peers: a block that this node     *)
(* committed itself has its certificate wherever the power was cut, a node *)
(* that was never cut off has those of all blocks when it has caught up    *)
(* with an honest peer, and what is served as a quorum's is one.           *)
THEOREM SealsInvAlways == SealsSpec => []SealsInv
<1>1. SealsInit => SealsIInv
  BY SealsInitInv
<1>2. SealsIInv /\ [SealsNext]_sealVars => SealsIInv'
  BY SealsStep
<1>3. SealsIInv => SealsInv
  BY OwnSealedHolds, CaughtUpSealedHolds, ServedSealsHolds DEF SealsInv
<1> QED BY <1>1, <1>2, <1>3, PTL DEF SealsSpec

-----------------------------------------------------------------------------
(* GasEstimate: the search for a limit.                                    *)

\* The limit asked for last is enough, and the one it failed under is less.
GasIInv ==
    /\ lo \in Nat /\ hi \in Nat /\ lo < hi /\ hi <= Ceiling
    /\ hi \in enough /\ lo \notin enough

LEMMA GasInitInv == GasInit => GasIInv
<1> SUFFICES ASSUME GasInit PROVE GasIInv
  OBVIOUS
<1>1. Ceiling \in Nat
  BY GasAssumption DEF GasInit, Ceiling
<1> QED BY <1>1 DEF GasInit, GasIInv

LEMMA GasStep == GasIInv /\ [GasNext]_gasVars => GasIInv'
<1> SUFFICES ASSUME GasIInv, [GasNext]_gasVars PROVE GasIInv'
  OBVIOUS
<1>1. Ceiling \in Nat /\ (UNCHANGED ask => Ceiling' = Ceiling)
  BY GasAssumption DEF GasIInv, Ceiling
<1>2. CASE Probe
  BY <1>1, <1>2 DEF Probe, GasIInv
<1>3. CASE Halve
  <2> DEFINE mid == lo + (hi - lo) \div 2
  <2>1. lo < mid /\ mid < hi /\ mid \in Nat
    BY <1>3 DEF Halve, GasIInv
  <2>2. \/ mid \in enough /\ hi' = mid /\ UNCHANGED lo
        \/ mid \notin enough /\ lo' = mid /\ UNCHANGED hi
    BY <1>3 DEF Halve
  <2>3. UNCHANGED <<enough, ask>>
    BY <1>3 DEF Halve
  <2> HIDE DEF mid
  <2> QED BY <1>1, <2>1, <2>2, <2>3 DEF GasIInv
<1>4. CASE UNCHANGED gasVars
  BY <1>1, <1>4 DEF gasVars, GasIInv
<1> QED BY <1>2, <1>3, <1>4 DEF GasNext

THEOREM GasInvAlways == GasSpec => []GasInv
<1>1. GasIInv => GasInv
  <2> SUFFICES ASSUME GasIInv, Estimated PROVE hi - 1 \notin enough
    BY DEF GasIInv, GasInv
  <2>1. hi - 1 = lo
    BY DEF GasIInv, Estimated
  <2> QED BY <2>1 DEF GasIInv
<1> QED BY <1>1, GasInitInv, GasStep, PTL DEF GasSpec

-----------------------------------------------------------------------------
(* Deployment: the configuration of a cluster.                             *)

Entries == [name : Members \cup {Unset}, address : Members \cup {Unset}]

LEMMA PlanFacts ==
    /\ Len(Plan) \in Nat /\ Len(Plan) >= 4 /\ DOMAIN Plan = 1 .. Len(Plan)
    /\ \A i \in 1 .. Len(Plan) : Plan[i] \in Members
    /\ Cardinality(Members) = Len(Plan) /\ Unset \notin Members
<1>1. Plan \in Seq(ToSet(Plan)) /\ Len(Plan) >= 4 /\ Unset \notin Members
  BY DeploymentAssumption DEF MinValidators, Members
<1>2. Cardinality(Members) = Len(Plan)
  BY DeploymentAssumption, InjectiveCount DEF Members
<1> QED BY <1>1, <1>2 DEF Members, ToSet

LEMMA PlannedSetType ==
    /\ PlannedSet \in Seq(Entries) /\ Len(PlannedSet) = Len(Plan)
    /\ DOMAIN PlannedSet = 1 .. Len(Plan)
    /\ \A i \in 1 .. Len(Plan) : PlannedSet[i] = Entry(Plan[i], Plan[i])
    /\ NamesOf(PlannedSet) = Members
<1>1. \A i \in 1 .. Len(Plan) : Entry(Plan[i], Plan[i]) \in Entries
  BY PlanFacts DEF Entry, Entries
<1>2. /\ PlannedSet \in [1 .. Len(Plan) -> Entries]
      /\ \A i \in 1 .. Len(Plan) : PlannedSet[i] = Entry(Plan[i], Plan[i])
  BY <1>1, PlanFacts DEF PlannedSet
<1>3. PlannedSet \in Seq(Entries) /\ Len(PlannedSet) = Len(Plan) /\ DOMAIN PlannedSet = 1 .. Len(Plan)
  BY <1>2, PlanFacts
<1>4. NamesOf(PlannedSet) = Members
  BY <1>2, <1>3, PlanFacts DEF NamesOf, Members, ToSet, Entry
<1> QED BY <1>2, <1>3, <1>4

LEMMA SetSlipsType == SetSlips \subseteq Seq(Entries)
<1> DEFINE D == 1 .. Len(Plan)
<1>1. /\ PlannedSet \in Seq(Entries) /\ Len(PlannedSet) = Len(Plan) /\ DOMAIN PlannedSet = D
      /\ \A i \in D : PlannedSet[i] \in Entries /\ PlannedSet[i] = Entry(Plan[i], Plan[i])
  BY PlannedSetType
<1>2. Len(Plan) \in Nat /\ DOMAIN Plan = D
  BY PlanFacts
<1>3. ASSUME NEW i \in D PROVE RemoveAt(PlannedSet, i) \in Seq(Entries)
  <2>1. SubSeq(PlannedSet, 1, i - 1) \in Seq(Entries) /\ SubSeq(PlannedSet, i + 1, Len(PlannedSet)) \in Seq(Entries)
    BY <1>1, <1>2
  <2> QED BY <2>1 DEF RemoveAt
<1>4. ASSUME NEW i \in D PROVE Append(PlannedSet, PlannedSet[i]) \in Seq(Entries)
  BY <1>1
<1>5. ASSUME NEW i \in D, NEW x \in Entries PROVE [PlannedSet EXCEPT ![i] = x] \in Seq(Entries)
  BY <1>1
<1>6. ASSUME NEW i \in D, NEW a \in Members \cup {Unset}
      PROVE  /\ [PlannedSet EXCEPT ![i].address = a] \in Seq(Entries)
             /\ [PlannedSet EXCEPT ![i].name = Unset] \in Seq(Entries)
  <2>1. [PlannedSet[i] EXCEPT !.address = a] \in Entries /\ [PlannedSet[i] EXCEPT !.name = Unset] \in Entries
    BY <1>1 DEF Entries
  <2> QED BY <1>5, <2>1
<1>7. ASSUME NEW i \in 1 .. Len(Plan) - 1
      PROVE  [PlannedSet EXCEPT ![i] = PlannedSet[i + 1], ![i + 1] = PlannedSet[i]] \in Seq(Entries)
  <2>1. i \in D /\ i + 1 \in D
    BY <1>2
  <2>2. PlannedSet[i] \in Entries /\ PlannedSet[i + 1] \in Entries
    BY <1>1, <2>1
  <2> QED BY <1>1, <2>1, <2>2
<1>8. ASSUME NEW s \in SetSlips PROVE s \in Seq(Entries)
  <2> DEFINE Lost == {RemoveAt(PlannedSet, i) : i \in DOMAIN Plan}
             Twice == {Append(PlannedSet, PlannedSet[i]) : i \in DOMAIN Plan}
             Readdressed == {[PlannedSet EXCEPT ![i].address = a] : i \in DOMAIN Plan, a \in Members \cup {Unset}}
             Renamed == {[PlannedSet EXCEPT ![i].name = Unset] : i \in DOMAIN Plan}
             Swapped == {[PlannedSet EXCEPT ![i] = PlannedSet[i + 1], ![i + 1] = PlannedSet[i]] : i \in 1 .. Len(Plan) - 1}
  <2>1. CASE s \in Lost
    BY <1>2, <1>3, <2>1
  <2>2. CASE s \in Twice
    BY <1>2, <1>4, <2>2
  <2>3. CASE s \in Readdressed
    <3>1. PICK i \in D, a \in Members \cup {Unset} : s = [PlannedSet EXCEPT ![i].address = a]
      BY <1>2, <2>3
    <3> QED BY <1>6, <3>1
  <2>4. CASE s \in Renamed
    <3>1. Unset \in Members \cup {Unset}
      OBVIOUS
    <3> QED BY <1>2, <1>6, <2>4, <3>1
  <2>5. CASE s \in Swapped
    BY <1>7, <2>5
  <2>6. SetSlips = Lost \cup Twice \cup Readdressed \cup Renamed \cup Swapped
    BY DEF SetSlips
  <2> HIDE DEF Lost, Twice, Readdressed, Renamed, Swapped
  <2> QED BY <2>1, <2>2, <2>3, <2>4, <2>5, <2>6
<1> QED BY <1>8

\* Whoever passes the checks that look at the members knows them all.
Sound(m, c) ==
    /\ WritePath(c) = "engine" /\ c.id = m /\ c.key = m
    /\ \E i \in DOMAIN c.set : c.set[i] = Entry(m, m)
    /\ NamesOf(c.set) = Members /\ c.peers = Members \ {m}
    /\ EffectiveQuorum(c) \in DeriveQuorum(Len(Plan)) .. Len(Plan)

LEMMA BftSound ==
    ASSUME NEW m \in Members, NEW c, c.mode = "bft", ValidateBFT(c), c.set \in Seq(Entries),
           c.id = m, c.key = m, NamesOf(c.set) = Members
    PROVE  Sound(m, c)
<1>1. Len(c.set) = Len(Plan) /\ Len(Plan) \in Nat /\ Len(Plan) >= 4
  BY PlanFacts DEF ValidateBFT
<1>2. DeriveQuorum(Len(Plan)) <= Len(Plan) /\ DeriveQuorum(Len(Plan)) \in Nat \ {0}
  BY <1>1 DEF DeriveQuorum
<1>3. EffectiveQuorum(c) \in DeriveQuorum(Len(Plan)) .. Len(Plan)
  BY <1>1, <1>2 DEF EffectiveQuorum, ValidateBFT, QuorumValid
<1>4. c.peers = Members \ {m}
  BY DEF ValidateBFT, PeersValid
<1>5. PICK i \in DOMAIN c.set : c.set[i].name = m
  BY DEF NamesOf
<1>6. c.set[i].address = m /\ c.set[i] \in Entries
  BY <1>5 DEF ValidateBFT, SigningKeyValid
<1>7. c.set[i] = Entry(m, m)
  BY <1>5, <1>6 DEF Entries, Entry
<1>8. WritePath(c) = "engine"
  BY DEF WritePath
<1> QED BY <1>3, <1>4, <1>5, <1>7, <1>8 DEF Sound

LEMMA ValidSound ==
    ASSUME NEW m \in Members, NEW c \in {Planned(m)} \cup Slips(Planned(m)), Validate(c)
    PROVE  Sound(m, c)
<1> DEFINE p == Planned(m)
<1>1. /\ p.mode = "bft" /\ p.role = "primary" /\ p.id = m /\ p.key = m /\ p.set = PlannedSet
      /\ p.peers = Members \ {m} /\ p.quorum = 0
      /\ DOMAIN p = {"mode", "role", "id", "key", "set", "peers", "rpcURLs", "quorum"}
  BY DEF Planned
<1>2. /\ PlannedSet \in Seq(Entries) /\ NamesOf(PlannedSet) = Members /\ PlannedSet # <<>>
      /\ \E i \in DOMAIN PlannedSet : PlannedSet[i].name = m /\ PlannedSet[i].address = m
  <2>1. PICK i \in 1 .. Len(Plan) : Plan[i] = m
    BY PlanFacts DEF Members, ToSet
  <2>2. PlannedSet[i].name = m /\ PlannedSet[i].address = m
    BY <2>1, PlannedSetType DEF Entry
  <2> QED BY <2>1, <2>2, PlannedSetType, PlanFacts
<1> HIDE DEF p
<1>3. CASE c = p
  BY <1>1, <1>2, <1>3, BftSound DEF Validate
<1>4. CASE c = [p EXCEPT !.mode = "solo"] \/ c = [p EXCEPT !.role = "replica"]
  BY <1>1, <1>2, <1>4 DEF Validate, NoConsensusSettings, ValidateBFT
<1>5. CASE \E x \in Members \cup {Unset} : c = [p EXCEPT !.id = x]
  <2>1. PICK x \in Members \cup {Unset} : c = [p EXCEPT !.id = x]
    BY <1>5
  <2>2. /\ c.mode = "bft" /\ c.id = x /\ c.key = m /\ c.set = PlannedSet /\ c.peers = Members \ {m}
    BY <1>1, <2>1
  <2>3. ValidateBFT(c)
    BY <2>2 DEF Validate
  <2>4. x = m
    BY <1>2, <2>2, <2>3 DEF ValidateBFT, PeersValid
  <2> QED BY <1>2, <2>2, <2>3, <2>4, BftSound
<1>6. CASE \E x \in Members \cup {Unset} : c = [p EXCEPT !.key = x]
  <2>1. PICK x \in Members \cup {Unset} : c = [p EXCEPT !.key = x]
    BY <1>6
  <2>2. /\ c.mode = "bft" /\ c.id = m /\ c.key = x /\ c.set = PlannedSet
    BY <1>1, <2>1
  <2>3. ValidateBFT(c)
    BY <2>2 DEF Validate
  <2>4. x = m
    BY <1>2, <2>2, <2>3 DEF ValidateBFT, SigningKeyValid
  <2> QED BY <1>2, <2>2, <2>3, <2>4, BftSound
<1>7. CASE \E s \in SetSlips \cup {<<>>} : c = [p EXCEPT !.set = s]
  <2>1. PICK s \in SetSlips \cup {<<>>} : c = [p EXCEPT !.set = s]
    BY <1>7
  <2>2. /\ c.mode = "bft" /\ c.id = m /\ c.key = m /\ c.set = s /\ c.peers = Members \ {m}
    BY <1>1, <2>1
  <2>3. ValidateBFT(c)
    BY <2>2 DEF Validate
  <2>4. s \in Seq(Entries)
    <3>1. <<>> \in Seq(Entries)
      OBVIOUS
    <3> QED BY <3>1, SetSlipsType
  <2>5. NamesOf(s) = Members
    <3>1. Members \ {m} \subseteq NamesOf(s) /\ m \in NamesOf(s) /\ NamesOf(s) \ {m} \subseteq Members \ {m}
      BY <2>2, <2>3 DEF ValidateBFT, PeersValid
    <3> QED BY <3>1
  <2> QED BY <2>2, <2>3, <2>4, <2>5, BftSound
<1>8. CASE \/ \E ps : c = [p EXCEPT !.peers = ps]
           \/ \E us : c = [p EXCEPT !.rpcURLs = us]
           \/ \E q : c = [p EXCEPT !.quorum = q]
  <2>1. c.mode = "bft" /\ c.id = m /\ c.key = m /\ c.set = PlannedSet
    BY <1>1, <1>8
  <2>2. ValidateBFT(c)
    BY <2>1 DEF Validate
  <2> QED BY <1>2, <2>1, <2>2, BftSound
<1> QED BY <1>3, <1>4, <1>5, <1>6, <1>7, <1>8 DEF Slips, p

DeploymentIInv ==
    /\ DOMAIN running = Machines
    /\ \A m \in Machines : running[m] # <<>> => Sound(m, running[m][1])

LEMMA DeploymentInitInv == DeploymentInit => DeploymentIInv
  BY DEF DeploymentInit, DeploymentIInv

LEMMA DeploymentStep == DeploymentIInv /\ [DeploymentNext]_deploymentVars => DeploymentIInv'
<1> SUFFICES ASSUME DeploymentIInv, [DeploymentNext]_deploymentVars PROVE DeploymentIInv'
  OBVIOUS
<1>1. CASE UNCHANGED deploymentVars
  BY <1>1 DEF deploymentVars, DeploymentIInv, Up, Given
<1>2. ASSUME NEW m \in Machines, Boot(m) PROVE DeploymentIInv'
  <2>1. PICK c \in {Planned(m)} \cup Slips(Planned(m)) :
            Validate(c) /\ running' = [running EXCEPT ![m] = <<c>>]
    BY <1>2 DEF Boot
  <2>2. m \in Members
    BY DeploymentAssumption DEF Members
  <2>3. Sound(m, c)
    BY <2>1, <2>2, ValidSound
  <2>4. running'[m] = <<c>> /\ DOMAIN running' = Machines /\ \A o \in Machines \ {m} : running'[o] = running[o]
    BY <2>1 DEF DeploymentIInv
  <2> QED BY <2>3, <2>4 DEF DeploymentIInv
<1>3. ASSUME NEW m \in Machines, Stop(m) PROVE DeploymentIInv'
  BY <1>3 DEF Stop, DeploymentIInv
<1> QED BY <1>1, <1>2, <1>3 DEF DeploymentNext

THEOREM DeploymentInvAlways == DeploymentSpec => []DeploymentInv
<1>1. DeploymentIInv => DeploymentInv
  <2> SUFFICES ASSUME DeploymentIInv, NEW m \in Up
               PROVE  /\ WritePath(Given(m)) = "engine"
                      /\ Given(m).id = m /\ Given(m).key = m
                      /\ \E i \in DOMAIN Given(m).set : Given(m).set[i] = Entry(m, m)
                      /\ NamesOf(Given(m).set) = Members /\ Given(m).peers = Members \ {m}
                      /\ \A o \in Up :
                            EffectiveQuorum(Given(m)) + EffectiveQuorum(Given(o)) - Len(Plan) > (Len(Plan) - 1) \div 3
    BY DEF DeploymentInv
  <2>1. \A o \in Up : Sound(o, Given(o))
    BY DEF DeploymentIInv, Up, Given
  <2>2. ASSUME NEW o \in Up
        PROVE  EffectiveQuorum(Given(m)) + EffectiveQuorum(Given(o)) - Len(Plan) > (Len(Plan) - 1) \div 3
    <3> DEFINE n == Len(Plan)
               a == EffectiveQuorum(Given(m))
               b == EffectiveQuorum(Given(o))
    <3>1. n \in Nat /\ n >= 4
      BY PlanFacts
    <3>2. a \in DeriveQuorum(n) .. n /\ b \in DeriveQuorum(n) .. n
      BY <2>1 DEF Sound
    <3> HIDE DEF a, b, n
    <3>3. 3 * DeriveQuorum(n) >= 2 * n /\ DeriveQuorum(n) \in Nat
      BY <3>1 DEF DeriveQuorum
    <3>4. a + b - n > (n - 1) \div 3
      BY <3>1, <3>2, <3>3
    <3> QED BY <3>4 DEF a, b, n
  <2> QED BY <2>1, <2>2 DEF Sound
<1> QED BY <1>1, DeploymentInitInv, DeploymentStep, PTL DEF DeploymentSpec

-----------------------------------------------------------------------------
(* ChainReaders: what a scan of the blocks finds.                          *)

Nullifiers == {b.nullifier : b \in Ballots}
Words == {"NewLeaf", "VoteCast", "ElectionReset", "DivisionAdded", "division", "registry"} \cup Nullifiers
SomeLogs ==
    {NewLeaf(i, c) : i \in Nat, c \in Leaves} \cup {VoteCast(b) : b \in Ballots}
        \cup {ElectionReset, DivisionAdded}
SomeBlocks == [logs : Seq(SomeLogs), bloom : SUBSET Words, leaves : Seq(Leaves), spent : SUBSET Ballots]
LogEntries == [log : SomeLogs, block : Nat, index : {0}]

\* A block holds what its one transaction logged, and its bloom all of it.
OneLogEach(S) ==
    \A i \in 1 .. Len(S) : Len(S[i].logs) \in {0, 1} /\ Items(S[i].logs) \subseteq S[i].bloom

Carries(b, f) == Len(b.logs) = 1 /\ MatchLog(b.logs[1], f)
Entered(b, n) == [log |-> b.logs[1], block |-> n, index |-> 0]
LogsIn(b, n, f) == IF Carries(b, f) THEN <<Entered(b, n)>> ELSE <<>>
Parts(S, from, to, f) == [i \in 1 .. to - from + 1 |-> LogsIn(S[from + i], from + i - 1, f)]
Scan(S, from, to, f) == Joined(Parts(S, from, to, f))

LEMMA LogTypes ==
    /\ \A l \in SomeLogs : l.topics \in Seq(Words) /\ Len(l.topics) >= 1 /\ l.address \in Words
    /\ \A i \in Nat, c \in Leaves : NewLeaf(i, c) \in SomeLogs
    /\ \A b \in Ballots : VoteCast(b) \in SomeLogs
    /\ ElectionReset \in SomeLogs /\ DivisionAdded \in SomeLogs
<1>1. ASSUME NEW i \in Nat, NEW c \in Leaves
      PROVE  /\ NewLeaf(i, c).topics \in Seq(Words) /\ Len(NewLeaf(i, c).topics) >= 1
             /\ NewLeaf(i, c).address \in Words
  BY DEF NewLeaf, Log, Words
<1>2. ASSUME NEW b \in Ballots
      PROVE  /\ VoteCast(b).topics \in Seq(Words) /\ Len(VoteCast(b).topics) >= 1
             /\ VoteCast(b).address \in Words
  BY DEF VoteCast, Log, Words, Nullifiers
<1>3. ElectionReset.topics \in Seq(Words) /\ Len(ElectionReset.topics) >= 1 /\ ElectionReset.address \in Words
  BY DEF ElectionReset, Log, Words
<1>4. DivisionAdded.topics \in Seq(Words) /\ Len(DivisionAdded.topics) >= 1 /\ DivisionAdded.address \in Words
  BY DEF DivisionAdded, Log, Words
<1>5. ASSUME NEW l \in SomeLogs
      PROVE  l.topics \in Seq(Words) /\ Len(l.topics) >= 1 /\ l.address \in Words
  <2>1. \/ \E i \in Nat, c \in Leaves : l = NewLeaf(i, c)
        \/ \E b \in Ballots : l = VoteCast(b)
        \/ l = ElectionReset \/ l = DivisionAdded
    BY DEF SomeLogs
  <2> QED BY <1>1, <1>2, <1>3, <1>4, <2>1
<1> QED BY <1>5 DEF SomeLogs

BlockIs(b, n, f) ==
    /\ b.logs \in Seq(SomeLogs) /\ Len(b.logs) \in {0, 1} /\ Items(b.logs) \subseteq b.bloom
    /\ Len(b.logs) = 1 => b.logs[1] \in SomeLogs
    /\ LogsIn(b, n, f) \in Seq(LogEntries) /\ Len(LogsIn(b, n, f)) \in {0, 1}
    /\ \A x : x \in Elements(LogsIn(b, n, f)) <=> Carries(b, f) /\ x = Entered(b, n)

LEMMA BlockFacts ==
    ASSUME NEW S \in Seq(SomeBlocks), OneLogEach(S), NEW i \in 1 .. Len(S), NEW n \in Nat, NEW f
    PROVE  BlockIs(S[i], n, f)
<1>0. S[i] \in SomeBlocks
  OBVIOUS
<1>1. /\ S[i] \in SomeBlocks /\ S[i].logs \in Seq(SomeLogs) /\ Len(S[i].logs) \in {0, 1}
      /\ Items(S[i].logs) \subseteq S[i].bloom
  <2>1. Len(S[i].logs) \in {0, 1} /\ Items(S[i].logs) \subseteq S[i].bloom
    BY DEF OneLogEach
  <2>2. S[i].logs \in Seq(SomeLogs)
    BY <1>0 DEF SomeBlocks
  <2> QED BY <1>0, <2>1, <2>2
<1>2. Len(S[i].logs) = 1 => S[i].logs[1] \in SomeLogs
  BY <1>1
<1>3. Carries(S[i], f) => Entered(S[i], n) \in LogEntries
  BY <1>2 DEF Carries, Entered, LogEntries
<1>4. CASE Carries(S[i], f)
  <2> DEFINE e == Entered(S[i], n)
  <2>1. e \in LogEntries /\ LogsIn(S[i], n, f) = <<e>>
    BY <1>3, <1>4 DEF LogsIn
  <2> HIDE DEF e
  <2>2. <<e>> \in Seq(LogEntries) /\ Len(<<e>>) = 1 /\ Elements(<<e>>) = {e}
    BY <2>1 DEF Elements
  <2> QED BY <1>1, <1>2, <1>4, <2>1, <2>2 DEF e, BlockIs
<1>5. CASE ~Carries(S[i], f)
  BY <1>1, <1>2, <1>5 DEF LogsIn, Elements, BlockIs
<1> QED BY <1>4, <1>5

PartsAre(S, from, to, f) ==
    /\ Parts(S, from, to, f) \in Seq(Seq(LogEntries)) /\ Len(Parts(S, from, to, f)) = to - from + 1
    /\ \A i \in 1 .. to - from + 1 : Parts(S, from, to, f)[i] = LogsIn(S[from + i], from + i - 1, f)

LEMMA PartsTypes ==
    ASSUME NEW S \in Seq(SomeBlocks), OneLogEach(S), NEW from \in Nat, NEW to \in Int, from <= to + 1,
           to < Len(S), NEW f
    PROVE  PartsAre(S, from, to, f)
<1>1. ASSUME NEW i \in 1 .. to - from + 1
      PROVE  LogsIn(S[from + i], from + i - 1, f) \in Seq(LogEntries)
  <2>1. from + i \in 1 .. Len(S) /\ from + i - 1 \in Nat
    OBVIOUS
  <2> QED BY <2>1, BlockFacts DEF BlockIs
<1>2. to - from + 1 \in Nat
  OBVIOUS
<1> QED BY <1>1, <1>2 DEF Parts, PartsAre

\* What a scan finds: the entries of the blocks of the range that match.
LEMMA ScanElements ==
    ASSUME NEW S \in Seq(SomeBlocks), OneLogEach(S), NEW from \in Nat, NEW to \in Int, from <= to + 1,
           to < Len(S), NEW f
    PROVE  /\ Scan(S, from, to, f) \in Seq(LogEntries)
           /\ \A x : x \in Elements(Scan(S, from, to, f))
                <=> \E n \in from .. to : Carries(S[n + 1], f) /\ x = Entered(S[n + 1], n)
<1> DEFINE ss == Parts(S, from, to, f)
<1>1. /\ ss \in Seq(Seq(LogEntries)) /\ Len(ss) = to - from + 1
      /\ \A i \in 1 .. to - from + 1 : ss[i] = LogsIn(S[from + i], from + i - 1, f)
  <2>1. PartsAre(S, from, to, f)
    BY PartsTypes
  <2> QED BY <2>1 DEF PartsAre
<1>2. Scan(S, from, to, f) = Joined(ss)
  BY DEF Scan
<1> HIDE DEF ss
<1>3. /\ Joined(ss) \in Seq(LogEntries)
      /\ \A x : x \in Elements(Joined(ss)) <=> \E i \in 1 .. Len(ss) : x \in Elements(ss[i])
  BY <1>1, JoinedElements
<1>4. ASSUME NEW x, NEW i \in 1 .. to - from + 1, x \in Elements(ss[i])
      PROVE  \E n \in from .. to : Carries(S[n + 1], f) /\ x = Entered(S[n + 1], n)
  <2>1. /\ from + i \in 1 .. Len(S) /\ from + i - 1 \in Nat /\ from + i - 1 \in from .. to
        /\ (from + i - 1) + 1 = from + i
    OBVIOUS
  <2>2. x \in Elements(LogsIn(S[from + i], from + i - 1, f))
    BY <1>1, <1>4
  <2>3. Carries(S[from + i], f) /\ x = Entered(S[from + i], from + i - 1)
    <3>1. PICK k \in 1 .. Len(S) : k = from + i
      BY <2>1
    <3>2. PICK n \in Nat : n = from + i - 1
      BY <2>1
    <3>3. x \in Elements(LogsIn(S[k], n, f))
      BY <2>2, <3>1, <3>2
    <3>4. Carries(S[k], f) /\ x = Entered(S[k], n)
      <4>1. BlockIs(S[k], n, f)
        BY BlockFacts
      <4> QED BY <3>3, <4>1 DEF BlockIs
    <3> QED BY <3>1, <3>2, <3>4
  <2> QED BY <2>1, <2>3
<1>5. ASSUME NEW x, NEW n \in from .. to, Carries(S[n + 1], f), x = Entered(S[n + 1], n)
      PROVE  \E i \in 1 .. to - from + 1 : x \in Elements(ss[i])
  <2> DEFINE i == n - from + 1
  <2>1. /\ i \in 1 .. to - from + 1 /\ from + i = n + 1 /\ from + i - 1 = n /\ n \in Nat
        /\ n + 1 \in 1 .. Len(S)
    OBVIOUS
  <2>2. x \in Elements(LogsIn(S[n + 1], n, f))
    <3>1. BlockIs(S[n + 1], n, f)
      BY <2>1, BlockFacts
    <3> QED BY <1>5, <3>1 DEF BlockIs
  <2>3. ss[i] = LogsIn(S[n + 1], n, f)
    BY <1>1, <2>1
  <2> QED BY <2>1, <2>2, <2>3
<1> QED BY <1>1, <1>2, <1>3, <1>4, <1>5

\* A scan up to one block and one from the next are a scan of both.
Splits(S, from, mid, to, f) == Scan(S, from, to, f) = Scan(S, from, mid, f) \o Scan(S, mid + 1, to, f)

LEMMA ScanSplit ==
    ASSUME NEW S \in Seq(SomeBlocks), OneLogEach(S), NEW from \in Nat, NEW mid \in Int, NEW to \in Int,
           from <= mid + 1, mid <= to, to < Len(S), NEW f
    PROVE  Splits(S, from, mid, to, f)
<1> DEFINE ss == Parts(S, from, mid, f)
           tt == Parts(S, mid + 1, to, f)
           uu == Parts(S, from, to, f)
<1>1. /\ ss \in Seq(Seq(LogEntries)) /\ Len(ss) = mid - from + 1
      /\ \A i \in 1 .. mid - from + 1 : ss[i] = LogsIn(S[from + i], from + i - 1, f)
  <2>1. PartsAre(S, from, mid, f)
    BY PartsTypes
  <2> QED BY <2>1 DEF PartsAre
<1>2. /\ tt \in Seq(Seq(LogEntries)) /\ Len(tt) = to - mid
      /\ \A i \in 1 .. to - mid : tt[i] = LogsIn(S[(mid + 1) + i], (mid + 1) + i - 1, f)
  <2>1. mid + 1 \in Nat /\ mid + 1 <= to + 1 /\ to - (mid + 1) + 1 = to - mid
    OBVIOUS
  <2> HIDE DEF tt
  <2>2. /\ tt \in Seq(Seq(LogEntries)) /\ Len(tt) = to - (mid + 1) + 1
        /\ \A i \in 1 .. to - (mid + 1) + 1 : tt[i] = LogsIn(S[(mid + 1) + i], (mid + 1) + i - 1, f)
    <3>1. PartsAre(S, mid + 1, to, f)
      BY <2>1, PartsTypes
    <3> QED BY <3>1 DEF PartsAre, tt
  <2> QED BY <2>1, <2>2
<1>3. /\ uu \in Seq(Seq(LogEntries)) /\ Len(uu) = to - from + 1
      /\ \A i \in 1 .. to - from + 1 : uu[i] = LogsIn(S[from + i], from + i - 1, f)
  <2>1. PartsAre(S, from, to, f)
    BY PartsTypes
  <2> QED BY <2>1 DEF PartsAre
<1>4. /\ Scan(S, from, mid, f) = Joined(ss) /\ Scan(S, mid + 1, to, f) = Joined(tt)
      /\ Scan(S, from, to, f) = Joined(uu)
  BY DEF Scan
<1> HIDE DEF ss, tt, uu
<1>5. uu = ss \o tt
  <2>1. /\ ss \o tt \in Seq(Seq(LogEntries)) /\ Len(ss \o tt) = Len(ss) + Len(tt)
        /\ \A i \in 1 .. Len(ss) : (ss \o tt)[i] = ss[i]
        /\ \A i \in 1 .. Len(tt) : (ss \o tt)[Len(ss) + i] = tt[i]
    <3>1. ConcatIs(Seq(LogEntries), ss, tt)
      BY <1>1, <1>2, ConcatFacts
    <3> QED BY <3>1 DEF ConcatIs
  <2>2. ASSUME NEW i \in 1 .. to - from + 1 PROVE uu[i] = (ss \o tt)[i]
    <3>1. CASE i <= mid - from + 1
      <4>1. i \in 1 .. Len(ss)
        BY <1>1, <3>1
      <4>2. (ss \o tt)[i] = ss[i]
        BY <2>1, <4>1
      <4> QED BY <1>1, <1>3, <3>1, <4>1, <4>2
    <3>2. CASE ~(i <= mid - from + 1)
      <4> DEFINE j == i - (mid - from + 1)
      <4>1. j \in 1 .. to - mid /\ i = Len(ss) + j /\ (mid + 1) + j = from + i
        BY <1>1, <3>2
      <4>2. (ss \o tt)[i] = tt[j]
        BY <1>1, <1>2, <2>1, <4>1
      <4>3. tt[j] = LogsIn(S[(mid + 1) + j], (mid + 1) + j - 1, f)
        BY <1>2, <4>1
      <4> HIDE DEF j
      <4>4. uu[i] = LogsIn(S[from + i], from + i - 1, f)
        BY <1>3
      <4>5. (mid + 1) + j - 1 = from + i - 1
        BY <4>1
      <4> QED BY <4>1, <4>2, <4>3, <4>4, <4>5
    <3> QED BY <3>1, <3>2
  <2>3. Len(uu) = Len(ss \o tt) /\ Len(uu) = to - from + 1
    BY <1>1, <1>2, <1>3, <2>1
  <2> DEFINE vv == ss \o tt
  <2>4. /\ vv \in Seq(Seq(LogEntries)) /\ Len(vv) = Len(uu) /\ uu \in Seq(Seq(LogEntries))
        /\ \A i \in 1 .. Len(uu) : uu[i] = vv[i]
    BY <1>3, <2>1, <2>2, <2>3
  <2> HIDE DEF vv
  <2>5. uu = vv
    BY <2>4, SameSequence
  <2> QED BY <2>5 DEF vv
<1> QED BY <1>1, <1>2, <1>4, <1>5, JoinedConcat DEF Splits

\* A scan goes on with what the next block holds.
LEMMA ScanNext ==
    ASSUME NEW S \in Seq(SomeBlocks), OneLogEach(S), NEW from \in Nat, NEW to \in Nat, from <= to,
           to < Len(S), NEW f
    PROVE  Scan(S, from, to, f) = Scan(S, from, to - 1, f) \o LogsIn(S[to + 1], to, f)
<1>1. Scan(S, from, to, f) = Scan(S, from, to - 1, f) \o Scan(S, (to - 1) + 1, to, f)
  <2>1. PICK mid \in Int : mid = to - 1 /\ from <= mid + 1 /\ mid <= to
    OBVIOUS
  <2>2. Scan(S, from, to, f) = Scan(S, from, mid, f) \o Scan(S, mid + 1, to, f)
    <3>1. Splits(S, from, mid, to, f)
      BY <2>1, ScanSplit
    <3> QED BY <3>1 DEF Splits
  <2> QED BY <2>1, <2>2
<1>2. (to - 1) + 1 = to /\ to - to + 1 = 1 /\ to + 1 \in 1 .. Len(S)
  OBVIOUS
<1>3. /\ Len(Parts(S, to, to, f)) = 1 /\ Parts(S, to, to, f) \in Seq(Seq(LogEntries))
      /\ Parts(S, to, to, f)[1] = LogsIn(S[to + 1], to, f)
  <2> DEFINE pp == Parts(S, to, to, f)
  <2>1. to <= to + 1 /\ to \in Int
    OBVIOUS
  <2>2. /\ pp \in Seq(Seq(LogEntries)) /\ Len(pp) = to - to + 1
        /\ \A i \in 1 .. to - to + 1 : pp[i] = LogsIn(S[to + i], to + i - 1, f)
    <3>1. PartsAre(S, to, to, f)
      BY <2>1, PartsTypes
    <3> QED BY <3>1 DEF PartsAre
  <2> HIDE DEF pp
  <2>3. pp[1] = LogsIn(S[to + 1], to + 1 - 1, f) /\ to + 1 - 1 = to
    BY <1>2, <2>2
  <2>4. Len(pp) = 1 /\ pp \in Seq(Seq(LogEntries)) /\ pp[1] = LogsIn(S[to + 1], to, f)
    BY <1>2, <2>2, <2>3
  <2> QED BY <2>4 DEF pp
<1>4. Parts(S, to, to, f) = <<LogsIn(S[to + 1], to, f)>>
  BY <1>3
<1>5. LogsIn(S[to + 1], to, f) \in Seq(LogEntries)
  BY <1>2, BlockFacts DEF BlockIs
<1>6. Scan(S, to, to, f) = LogsIn(S[to + 1], to, f)
  BY <1>4, <1>5, JoinedOne DEF Scan
<1> QED BY <1>1, <1>2, <1>6

\* A scan does not see the blocks after its range.
LEMMA ScanStays ==
    ASSUME NEW S, NEW R, NEW from \in Nat, NEW to \in Int, NEW f,
           \A i \in from + 1 .. to + 1 : S[i] = R[i]
    PROVE  Scan(S, from, to, f) = Scan(R, from, to, f)
<1>1. \A i \in 1 .. to - from + 1 : from + i \in from + 1 .. to + 1
  OBVIOUS
<1>2. Parts(S, from, to, f) = Parts(R, from, to, f)
  BY <1>1 DEF Parts
<1> QED BY <1>2 DEF Scan

\* An entry of a scan is of a later block than those before it.
InOrder(s) == \A i, j \in 1 .. Len(s) : i < j => s[i].block < s[j].block

LEMMA ScanInOrder ==
    ASSUME NEW S \in Seq(SomeBlocks), OneLogEach(S), NEW from \in Nat, NEW to \in Int, from <= to + 1,
           to < Len(S), NEW f
    PROVE  InOrder(Scan(S, from, to, f))
<1> DEFINE T == {k \in 0 .. to - from + 1 : InOrder(Scan(S, from, from + k - 1, f))}
<1>0. to - from + 1 \in Nat /\ from + (to - from + 1) - 1 = to
  OBVIOUS
<1>1. 0 \in T
  <2>1. from - 1 \in Int /\ from <= (from - 1) + 1 /\ from - 1 < Len(S) /\ from + 0 - 1 = from - 1
    OBVIOUS
  <2>2. Scan(S, from, from - 1, f) = <<>>
    <3>1. /\ Parts(S, from, from - 1, f) \in Seq(Seq(LogEntries))
          /\ Len(Parts(S, from, from - 1, f)) = (from - 1) - from + 1
      <4>1. PartsAre(S, from, from - 1, f)
        BY <2>1, PartsTypes
      <4> QED BY <4>1 DEF PartsAre
    <3>2. Parts(S, from, from - 1, f) = <<>>
      BY <3>1
    <3> QED BY <3>2, JoinedOne DEF Scan
  <2>3. InOrder(<<>>)
    BY DEF InOrder
  <2> QED BY <1>0, <2>1, <2>2, <2>3
<1>2. ASSUME NEW k \in 0 .. (to - from + 1) - 1, k \in T PROVE k + 1 \in T
  <2> DEFINE n == from + k
             s == Scan(S, from, n - 1, f)
             t == LogsIn(S[n + 1], n, f)
  <2>0. /\ n \in Nat /\ from <= n /\ n < Len(S) /\ n + 1 \in 1 .. Len(S) /\ k + 1 \in 0 .. to - from + 1
        /\ n - 1 \in Int /\ from <= (n - 1) + 1 /\ n - 1 < Len(S) /\ from + (k + 1) - 1 = n
    OBVIOUS
  <2>1. Scan(S, from, n, f) = s \o t
    BY <2>0, ScanNext
  <2>2. s \in Seq(LogEntries) /\ InOrder(s)
    BY <1>2, <2>0, ScanElements
  <2>3. \A x \in Elements(s) : x.block \in Nat /\ x.block < n
    <3>1. ASSUME NEW x \in Elements(s) PROVE x.block \in Nat /\ x.block < n
      <4>1. PICK m \in from .. n - 1 : x = Entered(S[m + 1], m)
        BY <2>0, ScanElements
      <4> QED BY <2>0, <4>1 DEF Entered
    <3> QED BY <3>1
  <2>4. t \in Seq(LogEntries) /\ Len(t) \in {0, 1} /\ \A x \in Elements(t) : x.block = n
    <3>1. /\ t \in Seq(LogEntries) /\ Len(t) \in {0, 1}
          /\ \A x : x \in Elements(t) <=> Carries(S[n + 1], f) /\ x = Entered(S[n + 1], n)
      <4>1. PICK i \in 1 .. Len(S) : i = n + 1
        BY <2>0
      <4>2. PICK m \in Nat : m = n
        BY <2>0
      <4> DEFINE u == LogsIn(S[i], m, f)
      <4>3. /\ u \in Seq(LogEntries) /\ Len(u) \in {0, 1}
            /\ \A x : x \in Elements(u) <=> Carries(S[i], f) /\ x = Entered(S[i], m)
        <5>1. BlockIs(S[i], m, f)
          BY BlockFacts
        <5> QED BY <5>1 DEF BlockIs
      <4>4. t = u
        BY <4>1, <4>2
      <4> HIDE DEF t, u
      <4> QED BY <4>1, <4>2, <4>3, <4>4
    <3> QED BY <3>1 DEF Entered
  <2>5. InOrder(s \o t)
    <3> HIDE DEF s, t, n
    <3>1. /\ Len(s) \in Nat /\ \A i \in 1 .. Len(s) : s[i] \in Elements(s)
          /\ \A i \in 1 .. Len(t) : t[i] \in Elements(t)
      BY <2>2, <2>4 DEF Elements
    <3>2. /\ Len(s \o t) = Len(s) + Len(t)
          /\ \A i \in 1 .. Len(s) : (s \o t)[i] = s[i]
          /\ Len(t) = 1 => (s \o t)[Len(s) + 1] = t[1]
      BY <2>2, <2>4
    <3>3. \A i \in 1 .. Len(s \o t) : i \in 1 .. Len(s) \/ (Len(t) = 1 /\ i = Len(s) + 1)
      BY <2>4, <3>1, <3>2
    <3>4. ASSUME NEW i \in 1 .. Len(s \o t), NEW j \in 1 .. Len(s \o t), i < j
          PROVE  (s \o t)[i].block < (s \o t)[j].block
      <4>1. i \in 1 .. Len(s)
        BY <3>1, <3>3, <3>4
      <4>2. CASE j \in 1 .. Len(s)
        BY <2>2, <3>2, <3>4, <4>1, <4>2 DEF InOrder
      <4>3. CASE Len(t) = 1 /\ j = Len(s) + 1
        <5>1. (s \o t)[j] = t[1] /\ t[1].block = n /\ (s \o t)[i] = s[i] /\ s[i].block < n
          BY <2>3, <2>4, <3>1, <3>2, <4>1, <4>3
        <5> QED BY <5>1
      <4> QED BY <3>3, <4>2, <4>3
    <3> QED BY <3>4 DEF InOrder
  <2> HIDE DEF s, t
  <2> QED BY <2>0, <2>1, <2>5
<1>3. \A k \in 0 .. to - from + 1 : k \in T
  <2> HIDE DEF T
  <2> QED BY <1>0, <1>1, <1>2, UpTo
<1>4. to - from + 1 \in T
  <2> HIDE DEF T
  <2>1. to - from + 1 \in 0 .. to - from + 1
    BY <1>0
  <2> QED BY <1>3, <2>1
<1> QED BY <1>0, <1>4

-----------------------------------------------------------------------------
(* ChainReaders: eth_getLogs is such a scan.                               *)

SealedOk == sealed \in Seq(SomeBlocks) /\ Len(sealed) >= 1 /\ OneLogEach(sealed)

LEMMA TopFacts ==
    ASSUME SealedOk
    PROVE  /\ Top \in Nat /\ Len(sealed) = Top + 1
           /\ \A n \in 0 .. Top : At(n) = sealed[n + 1] /\ n + 1 \in 1 .. Len(sealed) /\ n \in Nat
BY DEF SealedOk, Top, At

LEMMA BlockThere ==
    ASSUME SealedOk, NEW n \in 0 .. Top, NEW f
    PROVE  BlockIs(At(n), n, f)
<1>1. At(n) = sealed[n + 1] /\ n + 1 \in 1 .. Len(sealed) /\ n \in Nat
  BY TopFacts
<1>2. BlockIs(sealed[n + 1], n, f)
  BY <1>1, BlockFacts DEF SealedOk
<1> QED BY <1>1, <1>2

LEMMA BlockLogsAre ==
    ASSUME SealedOk, NEW n \in 0 .. Top, NEW f
    PROVE  BlockLogs(n, f) = LogsIn(At(n), n, f)
<1> DEFINE logs == At(n).logs
           numbered == [i \in DOMAIN logs |-> [log |-> logs[i], block |-> n, index |-> i - 1]]
           S == {x \in Elements(numbered) : MatchLog(x.log, f)}
           e == Entered(At(n), n)
<1>1. logs \in Seq(SomeLogs) /\ Len(logs) \in {0, 1}
  BY BlockThere DEF BlockIs
<1>2. BlockLogs(n, f) = Those(numbered, S)
  BY DEF BlockLogs
<1>3. CASE Len(logs) = 0
  <2>1. numbered = <<>>
    BY <1>1, <1>3
  <2>2. Those(numbered, S) = <<>>
    <3> HIDE DEF numbered, S
    <3> QED BY <2>1, ThoseOne
  <2>3. LogsIn(At(n), n, f) = <<>>
    BY <1>3 DEF LogsIn, Carries
  <2> QED BY <1>2, <2>2, <2>3
<1>4. CASE Len(logs) = 1
  <2>1. e = [log |-> logs[1], block |-> n, index |-> 0]
    BY DEF Entered
  <2>2. numbered = <<e>>
    <3> HIDE DEF e
    <3> HIDE DEF logs
    <3>1. DOMAIN logs = 1 .. 1 /\ 1 - 1 = 0
      BY <1>1, <1>4
    <3>2. DOMAIN numbered = 1 .. 1 /\ numbered[1] = e
      BY <2>1, <3>1
    <3>3. numbered = [i \in 1 .. 1 |-> e]
      BY <3>2
    <3>4. <<e>> = [i \in 1 .. 1 |-> e]
      OBVIOUS
    <3> QED BY <3>3, <3>4
  <2>3. e \in S <=> MatchLog(logs[1], f)
    <3>1. Elements(<<e>>) = {e}
      <4> HIDE DEF e
      <4> QED BY DEF Elements
    <3>2. e.log = logs[1]
      BY <2>1
    <3> QED BY <2>2, <3>1, <3>2
  <2>4. Those(numbered, S) = IF e \in S THEN <<e>> ELSE <<>>
    <3> HIDE DEF numbered, S, e
    <3> QED BY <2>2, ThoseOne
  <2>5. LogsIn(At(n), n, f) = IF MatchLog(logs[1], f) THEN <<e>> ELSE <<>>
    BY <1>4 DEF LogsIn, Carries
  <2> QED BY <1>2, <2>3, <2>4, <2>5
<1> QED BY <1>1, <1>3, <1>4

\* A block whose bloom does not match holds nothing that does.
LEMMA BloomTells ==
    ASSUME SealedOk, NEW n \in 0 .. Top, NEW f, NEW T, f.topics \in Seq(T), Carries(At(n), f)
    PROVE  BloomMatches(At(n).bloom, f)
<1> DEFINE logs == At(n).logs
           l == logs[1]
<1>1. logs \in Seq(SomeLogs) /\ Items(logs) \subseteq At(n).bloom /\ Len(logs) = 1 /\ l \in SomeLogs
      /\ MatchLog(l, f)
  BY BlockThere DEF BlockIs, Carries
<1>2. l \in ToSet(logs)
  <2> HIDE DEF logs
  <2> QED BY <1>1 DEF ToSet
<1>3. {l.address} \cup ToSet(l.topics) \subseteq Items(logs)
  <2> HIDE DEF logs, l
  <2> QED BY <1>2 DEF Items
<1>4. l.topics \in Seq(Words)
  BY <1>1, LogTypes
<1> HIDE DEF l, logs
<1>5. f.addresses # {} => f.addresses \cap At(n).bloom # {}
  BY <1>1, <1>3 DEF MatchLog
<1>6. ASSUME NEW i \in DOMAIN f.topics, f.topics[i] # Wildcard
      PROVE  f.topics[i] \cap At(n).bloom # {}
  <2>1. l.topics[i] \in f.topics[i] /\ Len(f.topics) <= Len(l.topics)
    BY <1>1, <1>6 DEF MatchLog
  <2>2. i \in DOMAIN l.topics
    BY <1>4, <2>1
  <2>3. l.topics[i] \in ToSet(l.topics)
    BY <2>2 DEF ToSet
  <2> QED BY <1>1, <1>3, <2>1, <2>3
<1> QED BY <1>5, <1>6 DEF BloomMatches

LEMMA GetLogsScan ==
    ASSUME SealedOk, NEW f, NEW T, f.topics \in Seq(T), f.blockHash = {},
           NEW from \in Nat, NEW to \in Nat, LogRange(f).from = from, LogRange(f).to = to,
           from <= to, to <= Top
    PROVE  GetLogs(f) = IF LogRangeLimit > 0 /\ to - from + 1 > LogRangeLimit THEN Failure("range")
                        ELSE Found(Scan(sealed, from, to, f))
<1>1. ASSUME NEW i \in 1 .. to - from + 1
      PROVE  (IF BloomMatches(At(from + i - 1).bloom, f) THEN BlockLogs(from + i - 1, f) ELSE <<>>)
                = LogsIn(sealed[from + i], from + i - 1, f)
  <2>1. PICK n \in 0 .. Top : n = from + i - 1 /\ n + 1 = from + i
    <3>1. from + i - 1 \in 0 .. Top /\ (from + i - 1) + 1 = from + i
      BY TopFacts
    <3> QED BY <3>1
  <2>2. At(n) = sealed[from + i] /\ BlockLogs(n, f) = LogsIn(At(n), n, f)
    BY <2>1, TopFacts, BlockLogsAre
  <2>3. ~BloomMatches(At(n).bloom, f) => LogsIn(At(n), n, f) = <<>>
    <3>1. ~BloomMatches(At(n).bloom, f) => ~Carries(At(n), f)
      BY BloomTells
    <3> QED BY <3>1 DEF LogsIn
  <2> QED BY <2>1, <2>2, <2>3
<1> DEFINE found == [i \in 1 .. to - from + 1 |->
                        LET n == from + i - 1
                        IN  IF BloomMatches(At(n).bloom, f) THEN BlockLogs(n, f) ELSE <<>>]
<1>2. found = Parts(sealed, from, to, f)
  BY <1>1 DEF Parts
<1>3. ~(from > to)
  OBVIOUS
<1>4. GetLogs(f) = IF LogRangeLimit > 0 /\ to - from + 1 > LogRangeLimit THEN Failure("range")
                   ELSE Found(Joined(found))
  BY <1>3 DEF GetLogs
<1> HIDE DEF found
<1> QED BY <1>2, <1>4 DEF Scan

\* MatchLog is what is wanted, for a log that has topics.
LEMMA MatchIsWanted ==
    ASSUME NEW l \in SomeLogs, NEW f, NEW T, f.topics \in Seq(T)
    PROVE  MatchLog(l, f) <=> Wanted(l, f)
<1>1. l.topics \in Seq(Words)
  BY LogTypes
<1>2. Len(f.topics) <= Len(l.topics) <=> \A i \in DOMAIN f.topics : i \in DOMAIN l.topics
  <2>1. Len(f.topics) \in Nat /\ DOMAIN f.topics = 1 .. Len(f.topics)
        /\ Len(l.topics) \in Nat /\ DOMAIN l.topics = 1 .. Len(l.topics)
    BY <1>1
  <2>2. ASSUME \A i \in 1 .. Len(f.topics) : i \in 1 .. Len(l.topics) PROVE Len(f.topics) <= Len(l.topics)
    <3>1. CASE Len(f.topics) = 0
      BY <2>1, <3>1
    <3>2. CASE Len(f.topics) # 0
      <4>1. Len(f.topics) \in 1 .. Len(f.topics)
        BY <2>1, <3>2
      <4> QED BY <2>1, <2>2, <4>1
    <3> QED BY <3>1, <3>2
  <2> QED BY <2>1, <2>2
<1> QED BY <1>2 DEF MatchLog, Wanted

\* The entries of the blocks of a range that match are what a scan of every
\* log would give.
ScanOf(logs, range, f) ==
    \A x : x \in Elements(logs) <=> \E n \in range : Carries(At(n), f) /\ x = Entered(At(n), n)

LogsOf(logs, range, f) ==
    {<<x.block, x.log>> : x \in ToSet(logs)}
        = UNION {{<<n, l>> : l \in {x \in ToSet(At(n).logs) : Wanted(x, f)}} : n \in range}

LEMMA ScanIsExact ==
    ASSUME SealedOk, NEW f, NEW T, f.topics \in Seq(T), NEW range, range \subseteq 0 .. Top,
           NEW logs \in Seq(LogEntries), ScanOf(logs, range, f)
    PROVE  LogsOf(logs, range, f)
<1> DEFINE B == UNION {{<<n, l>> : l \in {x \in ToSet(At(n).logs) : Wanted(x, f)}} : n \in range}
<1>1. ToSet(logs) = Elements(logs)
  BY DEF ToSet, Elements
<1>2. ASSUME NEW n \in range
      PROVE  \A l : l \in ToSet(At(n).logs) /\ Wanted(l, f) <=> Carries(At(n), f) /\ l = At(n).logs[1]
  <2> DEFINE held == At(n).logs
  <2>1. n \in 0 .. Top
    OBVIOUS
  <2>2. held \in Seq(SomeLogs) /\ Len(held) \in {0, 1} /\ (Len(held) = 1 => held[1] \in SomeLogs)
    BY <2>1, BlockThere DEF BlockIs
  <2>3. Carries(At(n), f) <=> Len(held) = 1 /\ MatchLog(held[1], f)
    BY DEF Carries
  <2>4. Len(held) = 1 => (MatchLog(held[1], f) <=> Wanted(held[1], f))
    <3> HIDE DEF held
    <3> QED BY <2>2, MatchIsWanted
  <2>5. ToSet(held) = IF Len(held) = 1 THEN {held[1]} ELSE {}
    <3> HIDE DEF held
    <3> QED BY <2>2 DEF ToSet
  <2> HIDE DEF held
  <2>6. \A l : l \in ToSet(held) /\ Wanted(l, f) <=> Carries(At(n), f) /\ l = held[1]
    BY <2>2, <2>3, <2>4, <2>5
  <2> QED BY <2>6 DEF held
<1>3. ASSUME NEW x \in ToSet(logs) PROVE <<x.block, x.log>> \in B
  <2>1. PICK n \in range : Carries(At(n), f) /\ x = Entered(At(n), n)
    BY <1>1 DEF ScanOf
  <2>2. x.block = n /\ x.log = At(n).logs[1]
    BY <2>1 DEF Entered
  <2>3. x.log \in ToSet(At(n).logs) /\ Wanted(x.log, f)
    BY <1>2, <2>1, <2>2
  <2> QED BY <2>2, <2>3
<1>4. ASSUME NEW n \in range, NEW l, l \in ToSet(At(n).logs), Wanted(l, f)
      PROVE  <<n, l>> \in {<<x.block, x.log>> : x \in ToSet(logs)}
  <2>1. Carries(At(n), f) /\ l = At(n).logs[1]
    BY <1>2, <1>4
  <2>2. Entered(At(n), n) \in ToSet(logs)
    BY <1>1, <2>1 DEF ScanOf
  <2>3. Entered(At(n), n).block = n /\ Entered(At(n), n).log = l
    BY <2>1 DEF Entered
  <2> QED BY <2>2, <2>3
<1>5. {<<x.block, x.log>> : x \in ToSet(logs)} = B
  BY <1>3, <1>4
<1> QED BY <1>5 DEF LogsOf

\* A scan finds the entries of its range.
LEMMA ScanFinds ==
    ASSUME SealedOk, NEW from \in Nat, NEW to \in Int, from <= to + 1, to <= Top, NEW f
    PROVE  /\ Scan(sealed, from, to, f) \in Seq(LogEntries) /\ InOrder(Scan(sealed, from, to, f))
           /\ ScanOf(Scan(sealed, from, to, f), from .. to, f)
<1>1. /\ sealed \in Seq(SomeBlocks) /\ OneLogEach(sealed) /\ to < Len(sealed)
      /\ \A n \in from .. to : At(n) = sealed[n + 1]
  <2>1. \A n \in from .. to : n \in 0 .. Top
    BY TopFacts
  <2> QED BY <2>1, TopFacts DEF SealedOk
<1>2. PICK logs : logs = Scan(sealed, from, to, f)
  OBVIOUS
<1>3. /\ logs \in Seq(LogEntries)
      /\ \A x : x \in Elements(logs)
            <=> \E n \in from .. to : Carries(sealed[n + 1], f) /\ x = Entered(sealed[n + 1], n)
  BY <1>1, <1>2, ScanElements
<1>4. InOrder(logs)
  BY <1>1, <1>2, ScanInOrder
<1> QED BY <1>1, <1>2, <1>3, <1>4 DEF ScanOf

LEMMA ExactWhenFound ==
    ASSUME SealedOk, NEW f, NEW T, f.topics \in Seq(T), NEW range, range \subseteq 0 .. Top,
           range = (IF f.blockHash # {} THEN f.blockHash
                    ELSE {n \in 0 .. Top : Resolve(f.from) <= n /\ n <= Resolve(f.to)}),
           NEW logs \in Seq(LogEntries), ScanOf(logs, range, f), InOrder(logs), GetLogs(f).logs = logs
    PROVE  Exact(f)
<1>1. LogsOf(logs, range, f)
  BY ScanIsExact
<1>2. ASSUME NEW i \in DOMAIN logs, NEW j \in DOMAIN logs, i < j
      PROVE  logs[i].block < logs[j].block /\ logs[i].block \in Nat /\ logs[j].block \in Nat
  <2>1. i \in 1 .. Len(logs) /\ j \in 1 .. Len(logs)
    OBVIOUS
  <2>2. logs[i] \in LogEntries /\ logs[j] \in LogEntries
    BY <2>1
  <2> QED BY <1>2, <2>1, <2>2 DEF InOrder, LogEntries
<1>3. /\ \A i, j \in DOMAIN logs : i < j /\ logs[i].block = logs[j].block => logs[i].index < logs[j].index
      /\ \A i, j \in DOMAIN logs : i < j => logs[i].block <= logs[j].block
  <2>1. ASSUME NEW i \in DOMAIN logs, NEW j \in DOMAIN logs, i < j
        PROVE  logs[i].block # logs[j].block /\ logs[i].block <= logs[j].block
    BY <1>2, <2>1
  <2> QED BY <2>1
<1> QED BY <1>1, <1>3 DEF Exact, LogsOf

LEMMA HashExact ==
    ASSUME SealedOk, NEW n \in Nat, NEW addresses, NEW T, NEW topics \in Seq(T)
    PROVE  Exact(OfBlock(n, addresses, topics))
<1> DEFINE f == OfBlock(n, addresses, topics)
<1>1. /\ f.blockHash = {n} /\ f.from = NoTag /\ f.to = NoTag /\ f.topics = topics
      /\ (CHOOSE m \in f.blockHash : TRUE) = n
  BY DEF OfBlock, Filter
<1>2. GetLogs(f) = IF n > Top THEN Failure("blockNotFound") ELSE Found(BlockLogs(n, f))
  <2> HIDE DEF f
  <2> QED BY <1>1 DEF GetLogs
<1>3. CASE n > Top
  <2>1. GetLogs(f).error # "none"
    BY <1>2, <1>3 DEF Failure
  <2> QED BY <2>1 DEF Exact
<1>4. CASE ~(n > Top)
  <2>1. n \in 0 .. Top /\ n \in Nat
    BY <1>4, TopFacts
  <2> DEFINE logs == LogsIn(At(n), n, f)
  <2> HIDE DEF f
  <2>2. GetLogs(f).logs = logs
    BY <1>2, <1>4, <2>1, BlockLogsAre DEF Found
  <2>3. BlockIs(At(n), n, f)
    BY <2>1, BlockThere
  <2> HIDE DEF logs
  <2>4. /\ logs \in Seq(LogEntries) /\ Len(logs) \in {0, 1}
        /\ \A x : x \in Elements(logs) <=> Carries(At(n), f) /\ x = Entered(At(n), n)
    BY <2>3 DEF BlockIs, logs
  <2>5. ScanOf(logs, {n}, f) /\ InOrder(logs)
    BY <2>4 DEF ScanOf, InOrder
  <2>6. f.topics \in Seq(T) /\ {n} \subseteq 0 .. Top
        /\ {n} = IF f.blockHash # {} THEN f.blockHash
                 ELSE {m \in 0 .. Top : Resolve(f.from) <= m /\ m <= Resolve(f.to)}
    BY <1>1, <2>1
  <2>7. Exact(f)
    BY <2>2, <2>4, <2>5, <2>6, ExactWhenFound
  <2> QED BY <2>7 DEF f
<1> QED BY <1>3, <1>4

Tags == {NoTag, Earliest, Safe, Finalized, Latest, Pending}

LEMMA RangeExact ==
    ASSUME SealedOk, NEW from \in Nat \cup Tags, NEW to \in Nat \cup Tags,
           NEW addresses, NEW T, NEW topics \in Seq(T)
    PROVE  Exact(Filter(from, to, addresses, topics))
<1> DEFINE f == Filter(from, to, addresses, topics)
<1>1. f.blockHash = {} /\ f.from = from /\ f.to = to /\ f.topics = topics
  BY DEF Filter
<1>2. PICK top \in Nat : top = Top
  BY TopFacts
<1>3. PICK first \in Nat, last \in Nat : first = Resolve(from) /\ last = Resolve(to)
  <2>1. Resolve(from) \in Nat /\ Resolve(to) \in Nat
    BY <1>2 DEF Resolve, Tags, Earliest, Safe, Finalized, Latest, Pending, NoTag
  <2> QED BY <2>1
<1>4. PICK end \in Nat : end = IF last > top THEN top ELSE last
  OBVIOUS
<1> DEFINE R == {n \in 0 .. Top : Resolve(f.from) <= n /\ n <= Resolve(f.to)}
<1>5. LogRange(f).from = first /\ LogRange(f).to = end
  BY <1>1, <1>2, <1>3, <1>4 DEF LogRange
<1>6. R = first .. end
  <2>1. R = {n \in 0 .. top : first <= n /\ n <= last}
    BY <1>1, <1>2, <1>3
  <2> HIDE DEF R
  <2> QED BY <1>4, <2>1
<1>7. R = IF f.blockHash # {} THEN f.blockHash
          ELSE {n \in 0 .. Top : Resolve(f.from) <= n /\ n <= Resolve(f.to)}
  BY <1>1
<1>8. R \subseteq 0 .. Top
  OBVIOUS
<1> HIDE DEF f, R
<1>9. CASE first > end
  <2>1. GetLogs(f) = Found(<<>>)
    BY <1>1, <1>5, <1>9 DEF GetLogs
  <2>2. R = {}
    BY <1>6, <1>9
  <2>3. /\ <<>> \in Seq(LogEntries) /\ ScanOf(<<>>, R, f) /\ InOrder(<<>>) /\ GetLogs(f).logs = <<>>
    BY <2>1, <2>2 DEF ScanOf, InOrder, Found, Elements
  <2>4. Exact(f)
    BY <1>1, <1>7, <1>8, <2>3, ExactWhenFound
  <2> QED BY <2>4 DEF f
<1>10. CASE first <= end
  <2>1. end <= Top
    BY <1>2, <1>4
  <2>2. GetLogs(f) = IF LogRangeLimit > 0 /\ end - first + 1 > LogRangeLimit THEN Failure("range")
                     ELSE Found(Scan(sealed, first, end, f))
    BY <1>1, <1>5, <1>10, <2>1, GetLogsScan
  <2>3. CASE GetLogs(f).error # "none"
    BY <1>1, <2>3 DEF Exact, f
  <2>4. CASE GetLogs(f).error = "none"
    <3>1. GetLogs(f) = Found(Scan(sealed, first, end, f))
      BY <2>2, <2>4 DEF Failure
    <3>2. PICK logs : logs = Scan(sealed, first, end, f)
      OBVIOUS
    <3>3. logs \in Seq(LogEntries) /\ InOrder(logs) /\ ScanOf(logs, first .. end, f)
      <4>1. first <= end + 1 /\ end \in Int
        BY <1>10
      <4> QED BY <2>1, <3>2, <4>1, ScanFinds
    <3>4. GetLogs(f).logs = logs
      BY <3>1, <3>2 DEF Found
    <3>5. ScanOf(logs, R, f)
      BY <1>6, <3>3
    <3>6. Exact(f)
      BY <1>1, <1>7, <1>8, <3>3, <3>4, <3>5, ExactWhenFound
    <3> QED BY <3>6 DEF f
  <2> QED BY <2>3, <2>4
<1> QED BY <1>9, <1>10

\* Every filter a caller can form, not only those the runs try.
EveryFilter ==
    {Filter(from, to, addresses, topics) :
        from \in Nat \cup Tags, to \in Nat \cup Tags,
        addresses \in SUBSET Words, topics \in Seq(SUBSET Words)}
    \cup {OfBlock(n, addresses, topics) :
        n \in Nat, addresses \in SUBSET Words, topics \in Seq(SUBSET Words)}

LEMMA EveryExact ==
    ASSUME SealedOk, NEW f \in EveryFilter
    PROVE  Exact(f)
<1>1. CASE \E from \in Nat \cup Tags, to \in Nat \cup Tags, addresses \in SUBSET Words, topics \in Seq(SUBSET Words) :
                f = Filter(from, to, addresses, topics)
  <2>1. PICK from \in Nat \cup Tags, to \in Nat \cup Tags, addresses \in SUBSET Words, topics \in Seq(SUBSET Words) :
                f = Filter(from, to, addresses, topics)
    BY <1>1
  <2>2. Exact(Filter(from, to, addresses, topics))
    BY RangeExact
  <2> QED BY <2>1, <2>2
<1>2. CASE \E n \in Nat, addresses \in SUBSET Words, topics \in Seq(SUBSET Words) :
                f = OfBlock(n, addresses, topics)
  <2>1. PICK n \in Nat, addresses \in SUBSET Words, topics \in Seq(SUBSET Words) :
                f = OfBlock(n, addresses, topics)
    BY <1>2
  <2>2. Exact(OfBlock(n, addresses, topics))
    BY HashExact
  <2> QED BY <2>1, <2>2
<1> QED BY <1>1, <1>2 DEF EveryFilter

LEMMA SealedExact ==
    ASSUME SealedOk
    PROVE  LogsExact
<1>1. Top \in Nat /\ Top + 1 \in Nat
  BY TopFacts
<1>2. {Earliest, Top} \subseteq Nat \cup Tags /\ {0, NoTag, Top + 1} \subseteq Nat \cup Tags
  BY <1>1 DEF Tags
<1>4. /\ <<{"NewLeaf", "VoteCast"}>> \in Seq(SUBSET Words)
      /\ <<Decoded({"NewLeaf", "null"}), Wildcard>> \in Seq(SUBSET Words) /\ <<>> \in Seq(SUBSET Words)
  <2>1. {"NewLeaf", "VoteCast"} \in SUBSET Words
    BY DEF Words
  <2>2. Decoded({"NewLeaf", "null"}) \in SUBSET Words /\ Wildcard \in SUBSET Words
    BY DEF Decoded, Wildcard
  <2> QED BY <2>1, <2>2
<1> DEFINE Some == {<<{"NewLeaf", "VoteCast"}>>, <<Decoded({"NewLeaf", "null"}), Wildcard>>}
<1>5. Some \subseteq Seq(SUBSET Words)
  BY <1>4
<1> HIDE DEF Some
<1>6. ASSUME NEW from \in {Earliest, Top}, NEW to \in {0, NoTag, Top + 1}, NEW addresses \in {{}, {"division"}},
             NEW topics \in Some
      PROVE  Exact(Filter(from, to, addresses, topics))
  <2>1. from \in Nat \cup Tags /\ to \in Nat \cup Tags /\ topics \in Seq(SUBSET Words)
    BY <1>2, <1>5
  <2> QED BY <2>1, RangeExact
<1>7. ASSUME NEW n \in {Top, Top + 1} PROVE Exact(OfBlock(n, {}, <<>>))
  <2>1. n \in Nat
    BY <1>1
  <2> QED BY <1>4, <2>1, HashExact
<1>8. ASSUME NEW f \in SomeFilters PROVE Exact(f)
  <2>1. \/ \E range \in SomeRanges, shape \in SomeShapes :
                f = Filter(range[1], range[2], shape[1], shape[2])
        \/ \E n \in {Top, Top + 1} : f = OfBlock(n, {}, <<>>)
    BY <1>8 DEF SomeFilters
  <2>2. ASSUME NEW range \in SomeRanges, NEW shape \in SomeShapes
        PROVE  Exact(Filter(range[1], range[2], shape[1], shape[2]))
    <3>1. range[1] \in {Earliest, Top} /\ range[2] \in {0, NoTag, Top + 1}
      BY <2>2 DEF SomeRanges
    <3>2. shape[1] \in {{}, {"division"}} /\ shape[2] \in Some
      BY <2>2 DEF SomeShapes, Some
    <3> QED BY <1>6, <3>1, <3>2
  <2> QED BY <1>7, <2>1, <2>2
<1> QED BY <1>8 DEF LogsExact

-----------------------------------------------------------------------------
(* ChainReaders: what the blocks say of the election.                      *)

LeafFilter == Filter(0, Latest, {"division"}, <<{"NewLeaf"}>>)
VoteFilter(x) == Filter(0, Latest, {"division"}, <<{"VoteCast"}, {x}>>)
AllOf(a) == Filter(0, 0, {a}, <<>>)

LEMMA KindOfLog ==
    /\ \A i, c : NewLeaf(i, c).topics = <<"NewLeaf">> /\ NewLeaf(i, c).address = "division"
                /\ NewLeaf(i, c).data = [index |-> i, value |-> c]
    /\ \A b : VoteCast(b).topics = <<"VoteCast", b.nullifier>> /\ VoteCast(b).address = "division"
                /\ VoteCast(b).data = b.candidate
    /\ ElectionReset.topics = <<"ElectionReset">> /\ ElectionReset.address = "division"
    /\ DivisionAdded.topics = <<"DivisionAdded">> /\ DivisionAdded.address = "registry"
BY DEF NewLeaf, VoteCast, ElectionReset, DivisionAdded, Log

LEMMA LeafMatches ==
    ASSUME NEW l \in SomeLogs
    PROVE  MatchLog(l, LeafFilter) <=> \E i \in Nat, c \in Leaves : l = NewLeaf(i, c)
<1>1. LeafFilter.addresses = {"division"} /\ LeafFilter.topics = <<{"NewLeaf"}>>
  BY DEF LeafFilter, Filter
<1>2. MatchLog(l, LeafFilter)
        <=> l.address = "division" /\ 1 <= Len(l.topics) /\ l.topics[1] = "NewLeaf"
  BY <1>1 DEF MatchLog, Wildcard
<1>3. \/ \E i \in Nat, c \in Leaves : l = NewLeaf(i, c)
      \/ \E b \in Ballots : l = VoteCast(b)
      \/ l = ElectionReset \/ l = DivisionAdded
  BY DEF SomeLogs
<1>4. ASSUME NEW i \in Nat, NEW c \in Leaves, l = NewLeaf(i, c) PROVE MatchLog(l, LeafFilter)
  <2>1. l.address = "division" /\ l.topics = <<"NewLeaf">>
    BY <1>4, KindOfLog
  <2> QED BY <1>2, <2>1
<1>5. ASSUME MatchLog(l, LeafFilter) PROVE \E i \in Nat, c \in Leaves : l = NewLeaf(i, c)
  <2>1. l.topics[1] = "NewLeaf"
    BY <1>2, <1>5
  <2>2. ASSUME NEW b \in Ballots, l = VoteCast(b) PROVE FALSE
    <3>1. l.topics[1] = "VoteCast"
      BY <2>2, KindOfLog
    <3> QED BY <2>1, <3>1
  <2>3. ASSUME l = ElectionReset PROVE FALSE
    <3>1. l.topics[1] = "ElectionReset"
      BY <2>3, KindOfLog
    <3> QED BY <2>1, <3>1
  <2>4. ASSUME l = DivisionAdded PROVE FALSE
    <3>1. l.topics[1] = "DivisionAdded"
      BY <2>4, KindOfLog
    <3> QED BY <2>1, <3>1
  <2> QED BY <1>3, <2>2, <2>3, <2>4
<1> QED BY <1>4, <1>5

LEMMA VoteMatches ==
    ASSUME NEW l \in SomeLogs, NEW x
    PROVE  MatchLog(l, VoteFilter(x)) <=> \E b \in Ballots : l = VoteCast(b) /\ b.nullifier = x
<1> DEFINE f == VoteFilter(x)
<1>1. f.addresses = {"division"} /\ f.topics = <<{"VoteCast"}, {x}>>
  BY DEF VoteFilter, Filter
<1> HIDE DEF f
<1>2. /\ Len(f.topics) = 2 /\ f.topics[1] = {"VoteCast"} /\ f.topics[2] = {x} /\ DOMAIN f.topics = 1 .. 2
      /\ l.topics \in Seq(Words)
  BY <1>1, LogTypes
<1>3. MatchLog(l, f) <=> /\ l.address = "division" /\ 2 <= Len(l.topics)
                         /\ l.topics[1] = "VoteCast" /\ l.topics[2] = x
  <2>1. \A i : i \in 1 .. 2 <=> i = 1 \/ i = 2
    OBVIOUS
  <2>2. (\A i \in DOMAIN f.topics : f.topics[i] # Wildcard => l.topics[i] \in f.topics[i])
            <=> l.topics[1] = "VoteCast" /\ l.topics[2] = x
    BY <1>2, <2>1 DEF Wildcard
  <2>3. (f.addresses # {} => l.address \in f.addresses) <=> l.address = "division"
    BY <1>1
  <2> QED BY <1>2, <2>2, <2>3 DEF MatchLog
<1>4. \/ \E i \in Nat, c \in Leaves : l = NewLeaf(i, c)
      \/ \E b \in Ballots : l = VoteCast(b)
      \/ l = ElectionReset \/ l = DivisionAdded
  BY DEF SomeLogs
<1>5. ASSUME NEW b \in Ballots, l = VoteCast(b) PROVE MatchLog(l, f) <=> b.nullifier = x
  <2>1. l.address = "division" /\ l.topics = <<"VoteCast", b.nullifier>>
    BY <1>5, KindOfLog
  <2>2. Len(l.topics) = 2 /\ l.topics[1] = "VoteCast" /\ l.topics[2] = b.nullifier
    BY <2>1
  <2> QED BY <1>3, <2>1, <2>2
<1>6. ASSUME MatchLog(l, f) PROVE \E b \in Ballots : l = VoteCast(b)
  <2>1. l.topics[1] = "VoteCast"
    BY <1>3, <1>6
  <2>2. ASSUME NEW i \in Nat, NEW c \in Leaves, l = NewLeaf(i, c) PROVE FALSE
    <3>1. l.topics[1] = "NewLeaf"
      BY <2>2, KindOfLog
    <3> QED BY <2>1, <3>1
  <2>3. ASSUME l = ElectionReset PROVE FALSE
    <3>1. l.topics[1] = "ElectionReset"
      BY <2>3, KindOfLog
    <3> QED BY <2>1, <3>1
  <2>4. ASSUME l = DivisionAdded PROVE FALSE
    <3>1. l.topics[1] = "DivisionAdded"
      BY <2>4, KindOfLog
    <3> QED BY <2>1, <3>1
  <2> QED BY <1>4, <2>2, <2>3, <2>4
<1>7. MatchLog(l, f) <=> \E b \in Ballots : l = VoteCast(b) /\ b.nullifier = x
  BY <1>5, <1>6
<1> QED BY <1>7 DEF f

LEMMA AllMatches ==
    ASSUME NEW l \in SomeLogs, NEW from, NEW to, NEW a
    PROVE  MatchLog(l, Filter(from, to, {a}, <<>>)) <=> l.address = a
<1> DEFINE f == Filter(from, to, {a}, <<>>)
<1>1. f.addresses = {a} /\ f.topics = <<>>
  BY DEF Filter
<1> HIDE DEF f
<1>2. l.topics \in Seq(Words)
  BY LogTypes
<1>3. MatchLog(l, f) <=> l.address = a
  BY <1>1, <1>2 DEF MatchLog
<1> QED BY <1>3 DEF f

\* Whether a block's election has spent a nullifier, and on whom.
Spends(b, x) == \E y \in b.spent : y.nullifier = x
Voted(b, x) == {y.candidate : y \in {z \in b.spent : z.nullifier = x}}

\* A ballot that is logged is spent from then on, until a reset; an election
\* spends a nullifier on one ballot; and the first to spend it logs it.
CastIsSpent(S) ==
    \A i \in 1 .. Len(S), b \in Ballots : S[i].logs = <<VoteCast(b)>> => Spends(S[i], b.nullifier)
FirstIsCast(S) ==
    \A i \in 1 .. Len(S) : \A x \in S[i].spent :
        (\A j \in 1 .. i - 1 : ~Spends(S[j], x.nullifier)) => S[i].logs = <<VoteCast(x)>>
SpentOnce(S) ==
    \A i \in 1 .. Len(S) : \A x, y \in S[i].spent : x.nullifier = y.nullifier => x = y
KeptUntilReset(S) ==
    \A i, j \in 1 .. Len(S) : \A x \in S[i].spent :
        i <= j /\ (\A k \in i .. j : Spends(S[k], x.nullifier)) => x \in S[j].spent
VotesKept(S) == CastIsSpent(S) /\ FirstIsCast(S) /\ SpentOnce(S) /\ KeptUntilReset(S)

\* The contract's leaves are the last that were logged, and in their places.
OwnedBy(logs, leaves) ==
    /\ Len(leaves) <= Len(logs)
    /\ \A i \in 1 .. Len(leaves) :
            logs[Len(logs) - Len(leaves) + i].log.data = [index |-> i - 1, value |-> leaves[i]]
LeavesLast(S) == \A n \in 0 .. Len(S) - 1 : OwnedBy(Scan(S, 0, n, LeafFilter), S[n + 1].leaves)

ChainOk(S) ==
    S \in Seq(SomeBlocks) /\ Len(S) >= 1 /\ OneLogEach(S) /\ VotesKept(S) /\ LeavesLast(S)

\* What a block does to the votes, and to the leaves, of the one before.
VoteStep(S, b) ==
    \/ (\A v \in Ballots : b.logs # <<VoteCast(v)>>) /\ b.spent \in {{}, S[Len(S)].spent}
    \/ \E v \in Ballots : /\ b.logs = <<VoteCast(v)>> /\ b.spent = S[Len(S)].spent \cup {v}
                          /\ \A x \in S[Len(S)].spent : x.nullifier # v.nullifier
LeafStep(S, b) ==
    \/ b.leaves = <<>>
    \/ ~Carries(b, LeafFilter) /\ b.leaves = S[Len(S)].leaves
    \/ \E c \in Leaves : /\ b.logs = <<NewLeaf(Len(S[Len(S)].leaves), c)>>
                         /\ b.leaves = Append(S[Len(S)].leaves, c)

GrowsTo(S, b, R) ==
    /\ R \in Seq(SomeBlocks) /\ Len(R) = Len(S) + 1 /\ R[Len(S) + 1] = b
    /\ \A i \in 1 .. Len(S) : R[i] = S[i]

LEMMA GrowsFacts ==
    ASSUME NEW S \in Seq(SomeBlocks), NEW b \in SomeBlocks
    PROVE  GrowsTo(S, b, Append(S, b))
BY DEF GrowsTo

LEMMA VotesStep ==
    ASSUME NEW S \in Seq(SomeBlocks), NEW b \in SomeBlocks, NEW R, GrowsTo(S, b, R),
           Len(S) >= 1, VotesKept(S), VoteStep(S, b)
    PROVE  VotesKept(R)
<1> DEFINE n == Len(S)
           old == S[n].spent
<1>1. /\ n \in Nat /\ n >= 1 /\ Len(R) = n + 1 /\ R[n + 1] = b /\ \A i \in 1 .. n : R[i] = S[i]
      /\ \A i : i \in 1 .. n + 1 <=> i \in 1 .. n \/ i = n + 1
  BY DEF GrowsTo
<1>2. n \in 1 .. n /\ R[n].spent = old
  BY <1>1
<1>3. PICK new \in SUBSET Ballots :
        /\ (b.spent = {} /\ new = {}) \/ b.spent = old \cup new
        /\ \A v \in Ballots : b.logs = <<VoteCast(v)>> => \E x \in new : x.nullifier = v.nullifier
        /\ \A x \in new : /\ b.logs = <<VoteCast(x)>>
                          /\ \A y \in new : y = x
                          /\ \A y \in old : y.nullifier # x.nullifier
  <2>1. CASE (\A v \in Ballots : b.logs # <<VoteCast(v)>>) /\ b.spent \in {{}, old}
    <3>1. {} \in SUBSET Ballots
      OBVIOUS
    <3> HIDE DEF old
    <3> QED BY <2>1, <3>1
  <2>2. ASSUME NEW v \in Ballots, b.logs = <<VoteCast(v)>>, b.spent = old \cup {v},
               \A x \in old : x.nullifier # v.nullifier
        PROVE  /\ b.spent = old \cup {v}
               /\ \A w \in Ballots : b.logs = <<VoteCast(w)>> => \E x \in {v} : x.nullifier = w.nullifier
               /\ \A x \in {v} : /\ b.logs = <<VoteCast(x)>>
                                 /\ \A y \in {v} : y = x
                                 /\ \A y \in old : y.nullifier # x.nullifier
    <3>1. ASSUME NEW w \in Ballots, b.logs = <<VoteCast(w)>> PROVE v.nullifier = w.nullifier
      <4>1. VoteCast(v) = VoteCast(w)
        BY <2>2, <3>1
      <4>2. <<"VoteCast", v.nullifier>> = <<"VoteCast", w.nullifier>>
        BY <4>1, KindOfLog
      <4> QED BY <4>2
    <3> HIDE DEF old
    <3> QED BY <2>2, <3>1
  <2>3. \A v \in Ballots : {v} \in SUBSET Ballots
    OBVIOUS
  <2> QED BY <2>1, <2>2, <2>3 DEF VoteStep
<1> HIDE DEF n
<1>4. ASSUME NEW x, \A k \in {n, n + 1} : Spends(R[k], x.nullifier), x \in old PROVE x \in b.spent
  <2>1. Spends(b, x.nullifier)
    BY <1>1, <1>4
  <2>2. b.spent # {}
    BY <2>1 DEF Spends
  <2> QED BY <1>3, <1>4, <2>2
<1>5. CastIsSpent(R)
  <2>1. ASSUME NEW i \in 1 .. n + 1, NEW v \in Ballots, R[i].logs = <<VoteCast(v)>>
        PROVE  Spends(R[i], v.nullifier)
    <3>1. CASE i \in 1 .. n
      BY <1>1, <2>1, <3>1 DEF VotesKept, CastIsSpent, n
    <3>2. CASE i = n + 1
      BY <1>1, <1>3, <2>1, <3>2 DEF Spends
    <3> QED BY <1>1, <3>1, <3>2
  <2> QED BY <1>1, <2>1 DEF CastIsSpent
<1>6. FirstIsCast(R)
  <2>1. ASSUME NEW i \in 1 .. n + 1, NEW x \in R[i].spent, \A j \in 1 .. i - 1 : ~Spends(R[j], x.nullifier)
        PROVE  R[i].logs = <<VoteCast(x)>>
    <3>1. CASE i \in 1 .. n
      <4>1. \A j \in 1 .. i - 1 : j \in 1 .. n
        BY <1>1, <3>1
      <4> QED BY <1>1, <2>1, <3>1, <4>1 DEF VotesKept, FirstIsCast, n
    <3>2. CASE i = n + 1
      <4>1. n \in 1 .. i - 1
        BY <1>1, <3>2
      <4>2. x \notin old
        BY <1>2, <2>1, <4>1 DEF Spends
      <4> QED BY <1>1, <1>3, <3>2, <4>2
    <3> QED BY <1>1, <3>1, <3>2
  <2> QED BY <1>1, <2>1 DEF FirstIsCast
<1>7. SpentOnce(R)
  <2>1. ASSUME NEW i \in 1 .. n + 1, NEW x \in R[i].spent, NEW y \in R[i].spent, x.nullifier = y.nullifier
        PROVE  x = y
    <3>1. CASE i \in 1 .. n
      BY <1>1, <2>1, <3>1 DEF VotesKept, SpentOnce, n
    <3>2. CASE i = n + 1
      <4>1. \A u, w \in old : u.nullifier = w.nullifier => u = w
        BY <1>2 DEF VotesKept, SpentOnce, n
      <4>2. x \in old \cup new /\ y \in old \cup new
        BY <1>1, <1>3, <3>2
      <4> HIDE DEF old
      <4> QED BY <1>3, <2>1, <4>1, <4>2
    <3> QED BY <1>1, <3>1, <3>2
  <2> QED BY <1>1, <2>1 DEF SpentOnce
<1>8. KeptUntilReset(R)
  <2>1. ASSUME NEW i \in 1 .. n + 1, NEW j \in 1 .. n + 1, NEW x \in R[i].spent, i <= j,
               \A k \in i .. j : Spends(R[k], x.nullifier)
        PROVE  x \in R[j].spent
    <3>1. CASE j \in 1 .. n
      <4>1. i \in 1 .. n /\ \A k \in i .. j : k \in 1 .. n
        BY <1>1, <2>1, <3>1
      <4> QED BY <1>1, <2>1, <3>1, <4>1 DEF VotesKept, KeptUntilReset, n
    <3>2. CASE j = n + 1 /\ i \in 1 .. n
      <4>1. /\ n \in i .. j /\ n + 1 \in i .. j /\ \A k \in i .. n : k \in i .. j /\ k \in 1 .. n
            /\ i <= n
        BY <1>1, <3>2
      <4>2. x \in S[i].spent /\ \A k \in i .. n : Spends(S[k], x.nullifier)
        BY <1>1, <2>1, <3>2, <4>1
      <4>3. x \in old
        BY <1>2, <3>2, <4>1, <4>2 DEF VotesKept, KeptUntilReset, n
      <4> QED BY <1>1, <1>4, <2>1, <3>2, <4>1, <4>3
    <3>3. CASE j = n + 1 /\ i = n + 1
      BY <2>1, <3>3
    <3> QED BY <1>1, <3>1, <3>2, <3>3
  <2> QED BY <1>1, <2>1 DEF KeptUntilReset
<1> QED BY <1>5, <1>6, <1>7, <1>8 DEF VotesKept

LEMMA OwnedAppend ==
    ASSUME NEW logs \in Seq(LogEntries), NEW leaves \in Seq(Leaves), NEW c \in Leaves, NEW e \in LogEntries,
           e.log.data = [index |-> Len(leaves), value |-> c], OwnedBy(logs, leaves)
    PROVE  OwnedBy(logs \o <<e>>, Append(leaves, c))
<1> DEFINE n == Len(logs)  m == Len(leaves)
<1>1. n \in Nat /\ m \in Nat /\ m <= n
  BY DEF OwnedBy
<1>2. <<e>> \in Seq(LogEntries) /\ Len(<<e>>) = 1 /\ <<e>>[1] = e
  OBVIOUS
<1>3. ConcatIs(LogEntries, logs, <<e>>)
  BY <1>2, ConcatFacts
<1>4. AppendIs(leaves, c, m)
  BY <1>1, AppendFacts
<1>5. /\ Len(logs \o <<e>>) = n + 1 /\ (logs \o <<e>>)[n + 1] = e
      /\ \A i \in 1 .. n : (logs \o <<e>>)[i] = logs[i]
  BY <1>1, <1>2, <1>3 DEF ConcatIs
<1>6. /\ Len(Append(leaves, c)) = m + 1 /\ Append(leaves, c)[m + 1] = c
      /\ \A i \in 1 .. m : Append(leaves, c)[i] = leaves[i]
  BY <1>4 DEF AppendIs
<1> DEFINE more == logs \o <<e>>  grown == Append(leaves, c)
<1>7. ASSUME NEW i \in 1 .. m + 1 PROVE more[(n + 1) - (m + 1) + i].log.data = [index |-> i - 1, value |-> grown[i]]
  <2>1. CASE i \in 1 .. m
    <3>1. (n + 1) - (m + 1) + i = n - m + i /\ n - m + i \in 1 .. n
      BY <1>1, <2>1
    <3>2. logs[n - m + i].log.data = [index |-> i - 1, value |-> leaves[i]]
      BY <2>1 DEF OwnedBy
    <3>3. more[n - m + i] = logs[n - m + i] /\ grown[i] = leaves[i]
      BY <1>5, <1>6, <2>1, <3>1
    <3> QED BY <3>1, <3>2, <3>3
  <2>2. CASE i = m + 1
    <3>1. (n + 1) - (m + 1) + i = n + 1 /\ i - 1 = m
      BY <1>1, <2>2
    <3>2. more[n + 1] = e /\ grown[i] = c
      BY <1>5, <1>6, <2>2
    <3> QED BY <3>1, <3>2
  <2> QED BY <1>1, <2>1, <2>2
<1>8. Len(more) = n + 1 /\ Len(grown) = m + 1 /\ m + 1 <= n + 1
  BY <1>1, <1>5, <1>6
<1> HIDE DEF more, grown, n, m
<1>9. OwnedBy(more, grown)
  BY <1>7, <1>8 DEF OwnedBy
<1> QED BY <1>9 DEF more, grown

LEMMA OneLogStep ==
    ASSUME NEW S \in Seq(SomeBlocks), NEW b \in SomeBlocks, NEW R, GrowsTo(S, b, R), OneLogEach(S),
           Len(b.logs) \in {0, 1}, Items(b.logs) \subseteq b.bloom
    PROVE  OneLogEach(R)
<1>1. \A i : i \in 1 .. Len(R) <=> i \in 1 .. Len(S) \/ i = Len(S) + 1
  BY DEF GrowsTo
<1> QED BY <1>1 DEF GrowsTo, OneLogEach

LEMMA LeavesStep ==
    ASSUME NEW S \in Seq(SomeBlocks), NEW b \in SomeBlocks, NEW R, GrowsTo(S, b, R), Len(S) >= 1,
           OneLogEach(S), OneLogEach(R), LeavesLast(S), LeafStep(S, b)
    PROVE  LeavesLast(R)
<1> DEFINE n == Len(S)
           old == Scan(S, 0, n - 1, LeafFilter)
           new == LogsIn(b, n, LeafFilter)
           had == S[n].leaves
<1>1. /\ n \in Nat /\ n >= 1 /\ n \in 1 .. n /\ Len(R) = n + 1 /\ R[n + 1] = b /\ R \in Seq(SomeBlocks)
      /\ \A i \in 1 .. n : R[i] = S[i]
  BY DEF GrowsTo
<1>2. ASSUME NEW k \in 0 .. n - 1 PROVE OwnedBy(Scan(R, 0, k, LeafFilter), R[k + 1].leaves)
  <2>1. OwnedBy(Scan(S, 0, k, LeafFilter), S[k + 1].leaves)
    BY DEF LeavesLast
  <2>2. k \in Int /\ 0 \in Nat /\ \A i \in 0 + 1 .. k + 1 : R[i] = S[i]
    BY <1>1
  <2>3. Scan(R, 0, k, LeafFilter) = Scan(S, 0, k, LeafFilter)
    BY <2>2, ScanStays
  <2>4. R[k + 1] = S[k + 1]
    BY <1>1
  <2> QED BY <2>1, <2>3, <2>4
<1>3. Scan(R, 0, n, LeafFilter) = old \o new
  <2>1. 0 \in Nat /\ 0 <= n /\ n < Len(R)
    BY <1>1
  <2>2. Scan(R, 0, n, LeafFilter) = Scan(R, 0, n - 1, LeafFilter) \o LogsIn(R[n + 1], n, LeafFilter)
    BY <1>1, <2>1, ScanNext
  <2>3. n - 1 \in Int /\ \A i \in 0 + 1 .. (n - 1) + 1 : R[i] = S[i]
    BY <1>1
  <2>4. Scan(R, 0, n - 1, LeafFilter) = old
    BY <2>1, <2>3, ScanStays
  <2> QED BY <1>1, <2>2, <2>4
<1>4. old \in Seq(LogEntries)
  <2>1. 0 \in Nat /\ n - 1 \in Int /\ 0 <= (n - 1) + 1 /\ n - 1 < Len(S)
    BY <1>1
  <2> QED BY <2>1, ScanElements
<1>5. OwnedBy(old, had)
  <2>1. n - 1 \in 0 .. Len(S) - 1 /\ (n - 1) + 1 = n
    BY <1>1
  <2> QED BY <2>1 DEF LeavesLast
<1>6. BlockIs(b, n, LeafFilter) /\ had \in Seq(Leaves)
  <2>1. n + 1 \in 1 .. Len(R)
    BY <1>1
  <2>2. BlockIs(R[n + 1], n, LeafFilter)
    BY <1>1, <2>1, BlockFacts
  <2>3. S[n] \in SomeBlocks
    BY <1>1
  <2> QED BY <1>1, <2>2, <2>3 DEF SomeBlocks
<1> HIDE DEF old, new, had
<1>7. new \in Seq(LogEntries)
  BY <1>6 DEF BlockIs, new
<1>8. OwnedBy(old \o new, b.leaves)
  <2>1. CASE b.leaves = <<>>
    <3>1. old \o new \in Seq(LogEntries)
      BY <1>4, <1>7
    <3> HIDE DEF n
    <3> QED BY <2>1, <3>1 DEF OwnedBy
  <2>2. CASE ~Carries(b, LeafFilter) /\ b.leaves = had
    <3>1. new = <<>>
      BY <2>2 DEF new, LogsIn
    <3>2. old \o new = old
      BY <1>4, <3>1
    <3> QED BY <1>5, <2>2, <3>2
  <2>3. ASSUME NEW c \in Leaves, b.logs = <<NewLeaf(Len(had), c)>>, b.leaves = Append(had, c)
        PROVE  OwnedBy(old \o new, b.leaves)
    <3> DEFINE l == NewLeaf(Len(had), c)
               e == Entered(b, n)
    <3>1. Len(had) \in Nat
      BY <1>6
    <3>2. l \in SomeLogs /\ MatchLog(l, LeafFilter)
      BY <3>1, LogTypes, LeafMatches
    <3>3. l.data = [index |-> Len(had), value |-> c]
      BY KindOfLog
    <3> HIDE DEF l
    <3>4. Len(b.logs) = 1 /\ b.logs[1] = l
      BY <2>3 DEF l
    <3>5. Carries(b, LeafFilter)
      BY <3>2, <3>4 DEF Carries
    <3>6. e.log = l /\ e \in LogEntries
      BY <1>1, <3>2, <3>4 DEF Entered, LogEntries
    <3>7. new = <<e>>
      BY <3>5 DEF new, LogsIn
    <3> HIDE DEF e
    <3>8. OwnedBy(old \o <<e>>, Append(had, c))
      <4>1. e.log.data = [index |-> Len(had), value |-> c]
        BY <3>3, <3>6
      <4> QED BY <1>4, <1>5, <1>6, <3>6, <4>1, OwnedAppend
    <3> QED BY <2>3, <3>7, <3>8
  <2>4. \/ b.leaves = <<>>
        \/ ~Carries(b, LeafFilter) /\ b.leaves = had
        \/ \E c \in Leaves : b.logs = <<NewLeaf(Len(had), c)>> /\ b.leaves = Append(had, c)
    BY DEF LeafStep, had
  <2> QED BY <2>1, <2>2, <2>3, <2>4
<1>9. ASSUME NEW k \in 0 .. Len(R) - 1 PROVE OwnedBy(Scan(R, 0, k, LeafFilter), R[k + 1].leaves)
  <2>1. CASE k \in 0 .. n - 1
    BY <1>2, <2>1
  <2>2. CASE k = n
    BY <1>1, <1>3, <1>8, <2>2
  <2> QED BY <1>1, <2>1, <2>2
<1> QED BY <1>9 DEF LeavesLast

LEMMA ChainGrows ==
    ASSUME NEW S, ChainOk(S), NEW b \in SomeBlocks, Len(b.logs) \in {0, 1}, Items(b.logs) \subseteq b.bloom,
           VoteStep(S, b), LeafStep(S, b)
    PROVE  ChainOk(Append(S, b)) /\ GrowsTo(S, b, Append(S, b))
<1>1. S \in Seq(SomeBlocks) /\ Len(S) >= 1 /\ OneLogEach(S) /\ VotesKept(S) /\ LeavesLast(S)
  BY DEF ChainOk
<1>2. PICK R : R = Append(S, b)
  OBVIOUS
<1>3. GrowsTo(S, b, R)
  BY <1>1, <1>2, GrowsFacts
<1>4. OneLogEach(R)
  BY <1>1, <1>3, OneLogStep
<1>5. VotesKept(R)
  BY <1>1, <1>3, VotesStep
<1>6. LeavesLast(R)
  BY <1>1, <1>3, <1>4, LeavesStep
<1>7. R \in Seq(SomeBlocks) /\ Len(R) >= 1
  BY <1>1, <1>3 DEF GrowsTo
<1> QED BY <1>2, <1>3, <1>4, <1>5, <1>6, <1>7 DEF ChainOk

Grown(b) ==
    /\ b \in SomeBlocks /\ GrowsTo(sealed, b, sealed') /\ ChainOk(sealed') /\ request' = request

LEMMA GenesisOk == ChainOk(<<GenesisBlock>>)
<1> DEFINE b == GenesisBlock  S == <<b>>
<1>1. b \in SomeBlocks /\ b.logs = <<>> /\ b.leaves = <<>> /\ b.spent = {} /\ Items(b.logs) = {}
  BY DEF GenesisBlock, SomeBlocks, Items, ToSet
<1> HIDE DEF b
<1>2. S \in Seq(SomeBlocks) /\ Len(S) = 1 /\ S[1] = b
  BY <1>1
<1> HIDE DEF S
<1>3. \A i : i \in 1 .. Len(S) <=> i = 1
  BY <1>2
<1>4. OneLogEach(S)
  BY <1>1, <1>2, <1>3 DEF OneLogEach
<1>5. VotesKept(S)
  <2>1. \A v \in Ballots : b.logs # <<VoteCast(v)>>
    BY <1>1
  <2>2. CastIsSpent(S)
    BY <1>2, <1>3, <2>1 DEF CastIsSpent
  <2>3. FirstIsCast(S) /\ SpentOnce(S) /\ KeptUntilReset(S)
    BY <1>1, <1>2, <1>3 DEF FirstIsCast, SpentOnce, KeptUntilReset
  <2> QED BY <2>2, <2>3 DEF VotesKept
<1>6. LeavesLast(S)
  <2>1. 0 \in Nat /\ 0 \in Int /\ 0 <= 0 + 1 /\ 0 < Len(S)
    BY <1>2
  <2>2. Scan(S, 0, 0, LeafFilter) \in Seq(LogEntries)
    BY <1>2, <1>4, <2>1, ScanElements
  <2>3. OwnedBy(Scan(S, 0, 0, LeafFilter), <<>>)
    BY <2>2 DEF OwnedBy
  <2>4. \A n \in 0 .. Len(S) - 1 : n = 0 /\ n + 1 = 1
    BY <1>2
  <2> QED BY <1>1, <1>2, <2>3, <2>4 DEF LeavesLast
<1>7. ChainOk(S)
  BY <1>2, <1>4, <1>5, <1>6 DEF ChainOk
<1> QED BY <1>7 DEF S, b

LEMMA HeadFacts ==
    ASSUME ChainOk(sealed)
    PROVE  /\ SealedOk /\ Head0 = sealed[Len(sealed)] /\ Head0 \in SomeBlocks
           /\ Head0.leaves \in Seq(Leaves) /\ Head0.spent \subseteq Ballots
<1>1. SealedOk
  BY DEF ChainOk, SealedOk
<1>2. Top \in 0 .. Top /\ Top + 1 = Len(sealed) /\ At(Top) = sealed[Top + 1] /\ Top + 1 \in 1 .. Len(sealed)
  BY <1>1, TopFacts
<1>3. Head0 = sealed[Len(sealed)] /\ Head0 \in SomeBlocks
  BY <1>1, <1>2 DEF Head0, SealedOk
<1> QED BY <1>1, <1>3 DEF SomeBlocks

LEMMA ItemsTyped ==
    ASSUME NEW logs \in Seq(SomeLogs)
    PROVE  Items(logs) \subseteq Words
<1>1. ASSUME NEW l \in ToSet(logs) PROVE {l.address} \cup ToSet(l.topics) \subseteq Words
  <2>1. l \in SomeLogs
    BY DEF ToSet
  <2>2. l.topics \in Seq(Words) /\ l.address \in Words
    BY <2>1, LogTypes
  <2>3. ToSet(l.topics) \subseteq Words
    BY <2>2 DEF ToSet
  <2> QED BY <2>2, <2>3
<1> QED BY <1>1 DEF Items

LEMMA SealedStep ==
    ASSUME ChainOk(sealed), NEW logs \in Seq(SomeLogs), Len(logs) \in {0, 1}, NEW chance \in SUBSET Words,
           NEW leaves \in Seq(Leaves), NEW spent \in SUBSET Ballots,
           Sealed(logs, chance, leaves, spent),
           \/ (\A v \in Ballots : logs # <<VoteCast(v)>>) /\ spent \in {{}, Head0.spent}
           \/ \E v \in Ballots : /\ logs = <<VoteCast(v)>> /\ spent = Head0.spent \cup {v}
                                /\ \A x \in Head0.spent : x.nullifier # v.nullifier,
           \/ leaves = <<>>
           \/ (\A i \in Nat, c \in Leaves : logs # <<NewLeaf(i, c)>>) /\ leaves = Head0.leaves
           \/ \E c \in Leaves : logs = <<NewLeaf(Len(Head0.leaves), c)>> /\ leaves = Append(Head0.leaves, c)
    PROVE  \E b : Grown(b)
<1> DEFINE b == [logs |-> logs, bloom |-> Items(logs) \cup chance, leaves |-> leaves, spent |-> spent]
<1>1. Head0 = sealed[Len(sealed)]
  BY HeadFacts
<1>2. /\ b.logs = logs /\ b.bloom = Items(logs) \cup chance /\ b.leaves = leaves /\ b.spent = spent
      /\ b \in SomeBlocks
  BY ItemsTyped DEF SomeBlocks
<1>3. sealed' = Append(sealed, b) /\ request' = request
  BY DEF Sealed
<1> HIDE DEF b
<1>4. VoteStep(sealed, b)
  BY <1>1, <1>2 DEF VoteStep
<1>5. (\A i \in Nat, c \in Leaves : logs # <<NewLeaf(i, c)>>) => ~Carries(b, LeafFilter)
  <2> SUFFICES ASSUME Carries(b, LeafFilter) PROVE \E i \in Nat, c \in Leaves : logs = <<NewLeaf(i, c)>>
    OBVIOUS
  <2>1. Len(logs) = 1 /\ logs[1] \in SomeLogs /\ MatchLog(logs[1], LeafFilter) /\ logs = <<logs[1]>>
    <3>1. Len(logs) = 1 /\ MatchLog(logs[1], LeafFilter)
      BY <1>2 DEF Carries
    <3> QED BY <3>1, SingleSequence
  <2> QED BY <2>1, LeafMatches
<1>6. LeafStep(sealed, b)
  BY <1>1, <1>2, <1>5 DEF LeafStep
<1>7. Len(b.logs) \in {0, 1} /\ Items(b.logs) \subseteq b.bloom
  BY <1>2
<1>8. ChainOk(Append(sealed, b)) /\ GrowsTo(sealed, b, Append(sealed, b))
  BY <1>2, <1>4, <1>6, <1>7, ChainGrows
<1>9. Grown(b)
  BY <1>2, <1>3, <1>8 DEF Grown
<1> QED BY <1>9

LEMMA OtherLogs ==
    /\ \A i, c, b : NewLeaf(i, c) # VoteCast(b)
    /\ \A i, c : NewLeaf(i, c) # ElectionReset /\ NewLeaf(i, c) # DivisionAdded
    /\ \A b : VoteCast(b) # ElectionReset /\ VoteCast(b) # DivisionAdded
<1>1. \A i, c : NewLeaf(i, c).topics[1] = "NewLeaf"
  BY KindOfLog
<1>2. \A b : VoteCast(b).topics[1] = "VoteCast"
  BY KindOfLog
<1>3. ElectionReset.topics[1] = "ElectionReset" /\ DivisionAdded.topics[1] = "DivisionAdded"
  BY KindOfLog
<1> QED BY <1>1, <1>2, <1>3

LEMMA BlockSteps ==
    ASSUME ChainOk(sealed), Registers \/ Casts \/ Resets \/ Adds \/ Empty
    PROVE  \E b : Grown(b)
<1>1. Head0.leaves \in Seq(Leaves) /\ Head0.spent \subseteq Ballots
  BY HeadFacts
<1>2. \A l \in SomeLogs : /\ <<l>> \in Seq(SomeLogs) /\ Len(<<l>>) \in {0, 1} /\ <<l>>[1] = l
                         /\ \A k : <<l>> = <<k>> => l = k
  OBVIOUS
<1>3. ASSUME NEW c \in Leaves, Head0.spent = {},
             Sealed(<<NewLeaf(Len(Head0.leaves), c)>>, {}, Append(Head0.leaves, c), {})
      PROVE  \E b : Grown(b)
  <2>1. Len(Head0.leaves) \in Nat /\ Append(Head0.leaves, c) \in Seq(Leaves)
    BY <1>1
  <2> DEFINE l == NewLeaf(Len(Head0.leaves), c)  more == Append(Head0.leaves, c)
  <2>2. l \in SomeLogs /\ \A v : l # VoteCast(v)
    BY <2>1, LogTypes, OtherLogs
  <2>3. Sealed(<<l>>, {}, more, {})
    BY <1>3
  <2>4. \E x \in Leaves : <<l>> = <<NewLeaf(Len(Head0.leaves), x)>> /\ more = Append(Head0.leaves, x)
    OBVIOUS
  <2> HIDE DEF l, more
  <2>5. \A v \in Ballots : <<l>> # <<VoteCast(v)>>
    BY <1>2, <2>2
  <2>6. more \in Seq(Leaves)
    BY <2>1 DEF more
  <2> QED BY <1>2, <2>2, <2>3, <2>4, <2>5, <2>6, SealedStep
<1>4. ASSUME NEW v \in Ballots, \A x \in Head0.spent : x.nullifier # v.nullifier,
             Sealed(<<VoteCast(v)>>, {}, Head0.leaves, Head0.spent \cup {v})
      PROVE  \E b : Grown(b)
  <2> DEFINE l == VoteCast(v)
  <2>1. l \in SomeLogs /\ \A i, c : l # NewLeaf(i, c)
    BY LogTypes, OtherLogs
  <2>3. Sealed(<<l>>, {}, Head0.leaves, Head0.spent \cup {v})
    BY <1>4
  <2>4. \E u \in Ballots : /\ <<l>> = <<VoteCast(u)>> /\ Head0.spent \cup {v} = Head0.spent \cup {u}
                         /\ \A x \in Head0.spent : x.nullifier # u.nullifier
    BY <1>4
  <2> HIDE DEF l
  <2>5. \A i \in Nat, c \in Leaves : <<l>> # <<NewLeaf(i, c)>>
    BY <1>2, <2>1
  <2>6. Head0.spent \cup {v} \in SUBSET Ballots
    BY <1>1
  <2> QED BY <1>1, <1>2, <2>1, <2>3, <2>4, <2>5, <2>6, SealedStep
<1>5. ASSUME Sealed(<<ElectionReset>>, {}, <<>>, {}) PROVE \E b : Grown(b)
  <2>1. ElectionReset \in SomeLogs /\ \A v \in Ballots : <<ElectionReset>> # <<VoteCast(v)>>
    BY LogTypes, OtherLogs
  <2>2. <<>> \in Seq(Leaves) /\ {} \in {{}, Head0.spent}
    OBVIOUS
  <2> QED BY <1>2, <1>5, <2>1, <2>2, SealedStep
<1>6. ASSUME Sealed(<<DivisionAdded>>, {"division"}, Head0.leaves, Head0.spent) PROVE \E b : Grown(b)
  <2>1. /\ DivisionAdded \in SomeLogs /\ \A v \in Ballots : <<DivisionAdded>> # <<VoteCast(v)>>
        /\ \A i \in Nat, c \in Leaves : <<DivisionAdded>> # <<NewLeaf(i, c)>>
    BY LogTypes, OtherLogs
  <2>2. {"division"} \in SUBSET Words
    BY DEF Words
  <2> QED BY <1>1, <1>2, <1>6, <2>1, <2>2, SealedStep
<1>7. ASSUME Sealed(<<>>, {}, Head0.leaves, Head0.spent) PROVE \E b : Grown(b)
  <2>1. /\ <<>> \in Seq(SomeLogs) /\ Len(<<>>) \in {0, 1} /\ {} \in SUBSET Words
        /\ \A v \in Ballots : <<>> # <<VoteCast(v)>>
        /\ \A i \in Nat, c \in Leaves : <<>> # <<NewLeaf(i, c)>>
    OBVIOUS
  <2> QED BY <1>1, <1>7, <2>1, SealedStep
<1> QED BY <1>3, <1>4, <1>5, <1>6, <1>7 DEF Registers, Casts, Resets, Adds, Empty

-----------------------------------------------------------------------------
(* ChainReaders: what a route has read.                                    *)

Stages == {"idle", "path", "verify", "registry", "division", "failed",
           "pathAnswered", "verifyAnswered", "historyAnswered"}

\* The candidate that is shown for a nullifier up to a block: that of the
\* first election to spend it, and of the block's own unless a reset is
\* between the two.
ToldVote(S, last, x, shown) ==
    /\ \E i \in 1 .. last : /\ Voted(S[i], x) = shown /\ shown # {}
                           /\ \A j \in 1 .. i - 1 : Voted(S[j], x) = {}
    /\ \/ Voted(S[last], x) = shown
       \/ \E i, j \in 1 .. last : i < j /\ Voted(S[i], x) # {} /\ Voted(S[j], x) = {}

\* What was read, of blocks that are in S and stay there.
Stage(S, q) ==
    /\ q.pc \in Stages
    /\ q.pc # "idle" => q.at \in 0 .. Len(S) - 1 /\ q.begun \in 0 .. Len(S) - 1
    /\ q.pc = "verify" => \E b \in S[q.begun + 1].spent : b.nullifier = q.asked
    /\ q.pc = "registry" =>
            q.asked \in 0 .. q.begun /\ q.answer.logs = Scan(S, 0, q.asked - 1, AllOf("registry"))
    /\ q.pc = "division" =>
            /\ q.asked \in 0 .. q.begun
            /\ q.answer.logs = Scan(S, 0, q.begun, AllOf("registry")) \o Scan(S, 0, q.asked - 1, AllOf("division"))
    /\ q.pc = "historyAnswered" =>
            q.answer.logs = Scan(S, 0, q.begun, AllOf("registry")) \o Scan(S, 0, q.begun, AllOf("division"))
    /\ q.pc = "pathAnswered" /\ S[q.begun + 1].leaves = S[q.at + 1].leaves
            => q.answer.leaves = S[q.at + 1].leaves
    /\ q.pc = "verifyAnswered" => ToldVote(S, q.begun + 1, q.asked, q.answer.candidate)
    /\ q.pc = "failed" => LogRangeLimit > 0 /\ Len(S) - 1 >= LogRangeLimit

ReadersIInv == ChainOk(sealed) /\ Stage(sealed, request)

\* A block that is added changes nothing of what was read.
LEMMA StageStays ==
    ASSUME NEW S \in Seq(SomeBlocks), NEW b, NEW R, GrowsTo(S, b, R), NEW q, Stage(S, q), {LogRangeLimit} \subseteq Nat
    PROVE  Stage(R, q)
<1>1. /\ Len(S) \in Nat /\ Len(R) = Len(S) + 1 /\ \A i \in 1 .. Len(S) : R[i] = S[i]
  BY DEF GrowsTo
<1>2. /\ q.pc \in Stages
      /\ q.pc # "idle" => q.at \in 0 .. Len(S) - 1 /\ q.begun \in 0 .. Len(S) - 1
  BY DEF Stage
<1>3. ASSUME NEW n \in 0 .. Len(S) - 1 PROVE R[n + 1] = S[n + 1]
  BY <1>1
<1>4. ASSUME NEW n \in 0 .. Len(S), NEW f PROVE Scan(R, 0, n - 1, f) = Scan(S, 0, n - 1, f)
  <2>1. n - 1 \in Int /\ 0 \in Nat /\ \A i \in 0 + 1 .. (n - 1) + 1 : R[i] = S[i]
    BY <1>1
  <2> QED BY <2>1, ScanStays
<1>5. ASSUME NEW n \in 0 .. Len(S) - 1, NEW f PROVE Scan(R, 0, n, f) = Scan(S, 0, n, f)
  <2>1. n \in Int /\ 0 \in Nat /\ \A i \in 0 + 1 .. n + 1 : R[i] = S[i]
    BY <1>1
  <2> QED BY <2>1, ScanStays
<1>6. q.pc # "idle" => q.at \in 0 .. Len(R) - 1 /\ q.begun \in 0 .. Len(R) - 1
  BY <1>1, <1>2
<1>7. q.pc = "verify" => \E x \in R[q.begun + 1].spent : x.nullifier = q.asked
  BY <1>2, <1>3 DEF Stage
<1>8. q.pc = "registry" =>
        q.asked \in 0 .. q.begun /\ q.answer.logs = Scan(R, 0, q.asked - 1, AllOf("registry"))
  <2> SUFFICES ASSUME q.pc = "registry"
               PROVE  q.asked \in 0 .. q.begun /\ q.answer.logs = Scan(R, 0, q.asked - 1, AllOf("registry"))
    OBVIOUS
  <2>1. q.asked \in 0 .. q.begun /\ q.answer.logs = Scan(S, 0, q.asked - 1, AllOf("registry"))
    BY DEF Stage
  <2>2. q.asked \in 0 .. Len(S)
    BY <1>1, <1>2, <2>1
  <2> QED BY <1>4, <2>1, <2>2
<1>9. q.pc = "division" =>
        /\ q.asked \in 0 .. q.begun
        /\ q.answer.logs = Scan(R, 0, q.begun, AllOf("registry")) \o Scan(R, 0, q.asked - 1, AllOf("division"))
  <2> SUFFICES ASSUME q.pc = "division"
               PROVE  /\ q.asked \in 0 .. q.begun
                      /\ q.answer.logs = Scan(R, 0, q.begun, AllOf("registry")) \o Scan(R, 0, q.asked - 1, AllOf("division"))
    OBVIOUS
  <2>1. /\ q.asked \in 0 .. q.begun
        /\ q.answer.logs = Scan(S, 0, q.begun, AllOf("registry")) \o Scan(S, 0, q.asked - 1, AllOf("division"))
    BY DEF Stage
  <2>2. q.asked \in 0 .. Len(S) /\ q.begun \in 0 .. Len(S) - 1
    BY <1>1, <1>2, <2>1
  <2>3. /\ Scan(R, 0, q.begun, AllOf("registry")) = Scan(S, 0, q.begun, AllOf("registry"))
        /\ Scan(R, 0, q.asked - 1, AllOf("division")) = Scan(S, 0, q.asked - 1, AllOf("division"))
    BY <1>4, <1>5, <2>2
  <2> QED BY <2>1, <2>3
<1>10. q.pc = "historyAnswered" =>
        q.answer.logs = Scan(R, 0, q.begun, AllOf("registry")) \o Scan(R, 0, q.begun, AllOf("division"))
  <2> SUFFICES ASSUME q.pc = "historyAnswered"
               PROVE  q.answer.logs = Scan(R, 0, q.begun, AllOf("registry")) \o Scan(R, 0, q.begun, AllOf("division"))
    OBVIOUS
  <2>1. q.answer.logs = Scan(S, 0, q.begun, AllOf("registry")) \o Scan(S, 0, q.begun, AllOf("division"))
    BY DEF Stage
  <2>2. q.begun \in 0 .. Len(S) - 1
    BY <1>2
  <2> QED BY <1>5, <2>1, <2>2
<1>11. q.pc = "pathAnswered" /\ R[q.begun + 1].leaves = R[q.at + 1].leaves
        => q.answer.leaves = R[q.at + 1].leaves
  BY <1>2, <1>3 DEF Stage
<1>12. q.pc = "verifyAnswered" => ToldVote(R, q.begun + 1, q.asked, q.answer.candidate)
  <2> SUFFICES ASSUME q.pc = "verifyAnswered"
               PROVE  ToldVote(R, q.begun + 1, q.asked, q.answer.candidate)
    OBVIOUS
  <2>1. PICK last \in 1 .. Len(S) : last = q.begun + 1
    BY <1>1, <1>2
  <2>2. ToldVote(S, last, q.asked, q.answer.candidate)
    BY <2>1 DEF Stage
  <2>3. last \in 1 .. last /\ \A i \in 1 .. last : R[i] = S[i] /\ \A j \in 1 .. i - 1 : R[j] = S[j]
    BY <1>1
  <2> DEFINE x == q.asked  shown == q.answer.candidate
  <2>4. PICK i \in 1 .. last : /\ Voted(S[i], x) = shown /\ shown # {}
                              /\ \A j \in 1 .. i - 1 : Voted(S[j], x) = {}
    BY <2>2 DEF ToldVote
  <2>5. \/ Voted(S[last], x) = shown
        \/ \E k, l \in 1 .. last : k < l /\ Voted(S[k], x) # {} /\ Voted(S[l], x) = {}
    BY <2>2 DEF ToldVote
  <2> HIDE DEF x, shown
  <2>6. \E k \in 1 .. last : /\ Voted(R[k], x) = shown /\ shown # {}
                            /\ \A j \in 1 .. k - 1 : Voted(R[j], x) = {}
    BY <2>3, <2>4
  <2>7. \/ Voted(R[last], x) = shown
        \/ \E k, l \in 1 .. last : k < l /\ Voted(R[k], x) # {} /\ Voted(R[l], x) = {}
    BY <2>3, <2>5
  <2>8. ToldVote(R, last, x, shown)
    BY <2>6, <2>7 DEF ToldVote
  <2> QED BY <2>1, <2>8 DEF x, shown
<1>13. q.pc = "failed" => LogRangeLimit > 0 /\ Len(R) - 1 >= LogRangeLimit
  BY <1>1 DEF Stage
<1> QED BY <1>2, <1>6, <1>7, <1>8, <1>9, <1>10, <1>11, <1>12, <1>13 DEF Stage

\* Routes look for their filter from the first block to the head.
LEMMA FromFirst ==
    ASSUME SealedOk, ReadersAssumption, NEW f, NEW T, f.topics \in Seq(T),
           f.blockHash = {}, f.from = 0, f.to = Latest
    PROVE  \/ GetLogs(f).error = "none" /\ GetLogs(f).logs = Scan(sealed, 0, Top, f)
           \/ GetLogs(f).error # "none" /\ LogRangeLimit > 0 /\ Top >= LogRangeLimit
<1>1. Top \in Nat /\ LogRangeLimit \in Nat
  BY TopFacts DEF ReadersAssumption
<1>2. LogRange(f).from = 0 /\ LogRange(f).to = Top
  BY <1>1 DEF LogRange, Resolve, Earliest, Safe, Finalized, Latest, Pending, NoTag
<1>3. 0 \in Nat /\ 0 <= Top /\ Top <= Top
  BY <1>1
<1>4. GetLogs(f) = IF LogRangeLimit > 0 /\ Top - 0 + 1 > LogRangeLimit THEN Failure("range")
                   ELSE Found(Scan(sealed, 0, Top, f))
  BY <1>1, <1>2, <1>3, GetLogsScan
<1> QED BY <1>1, <1>4 DEF Failure, Found

\* A filter's range does not change what of a block matches.
LEMMA SameWindow ==
    ASSUME SealedOk, NEW from \in Nat, NEW to \in Int, from <= to + 1, to <= Top, NEW a, NEW x, NEW y
    PROVE  Scan(sealed, from, to, Filter(x, y, {a}, <<>>)) = Scan(sealed, from, to, AllOf(a))
<1> DEFINE f == Filter(x, y, {a}, <<>>)  g == AllOf(a)
<1>1. ASSUME NEW i \in 1 .. to - from + 1
      PROVE  LogsIn(sealed[from + i], from + i - 1, f) = LogsIn(sealed[from + i], from + i - 1, g)
  <2>1. PICK k \in 1 .. Len(sealed) : k = from + i
    <3>1. from + i \in 1 .. Len(sealed)
      BY TopFacts
    <3> QED BY <3>1
  <2>2. 0 \in Nat
    OBVIOUS
  <2>3. BlockIs(sealed[k], 0, f)
    BY <2>2, BlockFacts DEF SealedOk
  <2>4. Len(sealed[k].logs) = 1 => sealed[k].logs[1] \in SomeLogs
    BY <2>3 DEF BlockIs
  <2>5. Len(sealed[k].logs) = 1 => (MatchLog(sealed[k].logs[1], f) <=> MatchLog(sealed[k].logs[1], g))
    BY <2>4, AllMatches DEF AllOf
  <2>6. Carries(sealed[k], f) <=> Carries(sealed[k], g)
    BY <2>5 DEF Carries
  <2> QED BY <2>1, <2>6 DEF LogsIn
<1>2. Parts(sealed, from, to, f) = Parts(sealed, from, to, g)
  <2> HIDE DEF f, g
  <2> QED BY <1>1 DEF Parts
<1> HIDE DEF f, g
<1>3. Scan(sealed, from, to, f) = Scan(sealed, from, to, g)
  BY <1>2 DEF Scan
<1> QED BY <1>3 DEF f, g

\* Leaves that are in their places are where sorting puts them.
LEMMA AlreadyByIndex ==
    ASSUME NEW s \in Seq(LogEntries), \A i \in 1 .. Len(s) : s[i].log.data.index = i - 1
    PROVE  ByIndex(s) = s
<1> DEFINE n == Len(s)
<1>1. n \in Nat /\ DOMAIN s = 1 .. n
  OBVIOUS
<1>2. ASSUME NEW i \in 1 .. n PROVE Place(s, i) = i
  <2> DEFINE before == {j \in DOMAIN s :
                \/ s[j].log.data.index < s[i].log.data.index
                \/ s[j].log.data.index = s[i].log.data.index /\ j < i}
  <2>1. before = 1 .. i - 1
    <3>1. ASSUME NEW j \in 1 .. n PROVE j \in before <=> j < i
      <4>1. s[j].log.data.index = j - 1 /\ s[i].log.data.index = i - 1
        OBVIOUS
      <4> QED BY <1>1, <4>1
    <3>2. \A j : j \in before => j \in 1 .. n
      BY <1>1
    <3>3. \A j : j \in 1 .. i - 1 <=> j \in 1 .. n /\ j < i
      BY <1>1
    <3> HIDE DEF before, n
    <3> QED BY <3>1, <3>2, <3>3
  <2>2. Cardinality(1 .. i - 1) = i - 1
    <3>1. i - 1 \in Int /\ 1 \in Int
      BY <1>1
    <3>2. Cardinality(1 .. i - 1) = IF 1 > i - 1 THEN 0 ELSE (i - 1) - 1 + 1
      BY <3>1, FS_Interval
    <3> QED BY <1>1, <3>2
  <2>3. Place(s, i) = Cardinality(before) + 1
    BY DEF Place
  <2> HIDE DEF before
  <2> QED BY <1>1, <2>1, <2>2, <2>3
<1>3. ASSUME NEW k \in DOMAIN s PROVE (CHOOSE i \in DOMAIN s : Place(s, i) = k) = k
  <2>1. \A i \in DOMAIN s : Place(s, i) = k <=> i = k
    BY <1>1, <1>2
  <2> QED BY <2>1
<1>4. ByIndex(s) = [k \in DOMAIN s |-> s[k]]
  <2> DEFINE c(k) == CHOOSE i \in DOMAIN s : Place(s, i) = k
  <2>1. ByIndex(s) = [k \in DOMAIN s |-> s[c(k)]]
    BY Zenon DEF ByIndex
  <2>2. \A k \in DOMAIN s : c(k) = k
    BY <1>3
  <2> HIDE DEF c
  <2> QED BY <2>1, <2>2
<1>5. s = [k \in DOMAIN s |-> s[k]]
  BY <1>1
<1> QED BY <1>4, <1>5

\* The last leaves that were logged, if they are the contract's.
LEMMA LastAreOwn ==
    ASSUME NEW logs \in Seq(LogEntries), NEW leaves \in Seq(Leaves), OwnedBy(logs, leaves)
    PROVE  [i \in 1 .. Len(leaves) |-> OwnLeaves(logs, Len(leaves))[i].log.data.value] = leaves
<1> DEFINE n == Len(logs)  m == Len(leaves)  last == LastOf(logs, m)
<1>1. n \in Nat /\ m \in Nat /\ m <= n
  BY DEF OwnedBy
<1>2. /\ last \in Seq(LogEntries) /\ Len(last) = m
      /\ \A i \in 1 .. m : last[i] = logs[n - m + i]
  <2>1. last = SubSeq(logs, n - m + 1, n)
    BY DEF LastOf
  <2>2. n - m + 1 \in 1 .. n + 1 /\ n - (n - m + 1) + 1 = m
        /\ \A i \in 1 .. m : n - m + 1 + i - 1 = n - m + i
    BY <1>1
  <2>3. PICK k \in 1 .. n + 1 : k = n - m + 1
    BY <2>2
  <2> DEFINE cut == SubSeq(logs, k, n)
  <2>4. /\ cut \in Seq(LogEntries) /\ Len(cut) = n - k + 1
        /\ \A i \in 1 .. n - k + 1 : cut[i] = logs[k + i - 1]
    BY <1>1
  <2>5. last = cut
    BY <2>1, <2>3
  <2> HIDE DEF last, cut
  <2>6. n - k + 1 = m /\ \A i \in 1 .. m : k + i - 1 = n - m + i
    BY <1>1, <2>3
  <2> QED BY <2>4, <2>5, <2>6
<1> HIDE DEF last
<1>3. \A i \in 1 .. m : last[i].log.data = [index |-> i - 1, value |-> leaves[i]]
  BY <1>2 DEF OwnedBy
<1>4. \A i \in 1 .. m : last[i].log.data.index = i - 1 /\ last[i].log.data.value = leaves[i]
  <2>1. ASSUME NEW i \in 1 .. m PROVE last[i].log.data.index = i - 1 /\ last[i].log.data.value = leaves[i]
    <3>1. last[i].log.data = [index |-> i - 1, value |-> leaves[i]]
      BY <1>3
    <3> QED BY <3>1
  <2> QED BY <2>1
<1>5. OwnLeaves(logs, m) = last
  <2>1. ByIndex(last) = last
    BY <1>2, <1>4, AlreadyByIndex
  <2> QED BY <2>1 DEF OwnLeaves, last
<1>6. [i \in 1 .. m |-> OwnLeaves(logs, m)[i].log.data.value] = [i \in 1 .. m |-> leaves[i]]
  BY <1>4, <1>5
<1>7. leaves = [i \in 1 .. m |-> leaves[i]]
  OBVIOUS
<1> QED BY <1>6, <1>7

\* No leaf that was logged up to a block is missing from a later scan.
LEMMA LeavesFound ==
    ASSUME ChainOk(sealed), NEW n \in 0 .. Top
    PROVE  /\ At(n).leaves \in Seq(Leaves) /\ Scan(sealed, 0, Top, LeafFilter) \in Seq(LogEntries)
           /\ Len(At(n).leaves) <= Len(Scan(sealed, 0, Top, LeafFilter))
           /\ OwnedBy(Scan(sealed, 0, Top, LeafFilter), At(Top).leaves)
<1>1. SealedOk
  BY HeadFacts
<1>2. Top \in Nat /\ Len(sealed) = Top + 1 /\ n \in Nat /\ n <= Top
  BY <1>1, TopFacts
<1>3. At(n) = sealed[n + 1] /\ n + 1 \in 1 .. Len(sealed) /\ At(Top) = sealed[Top + 1]
  BY <1>1, <1>2, TopFacts
<1>4. At(n).leaves \in Seq(Leaves)
  <2>1. PICK k \in 1 .. Len(sealed) : k = n + 1
    BY <1>3
  <2>2. sealed[k] \in SomeBlocks
    BY <1>1 DEF SealedOk
  <2> QED BY <1>3, <2>1, <2>2 DEF SomeBlocks
<1> DEFINE first == Scan(sealed, 0, n, LeafFilter)
           rest == Scan(sealed, n + 1, Top, LeafFilter)
           all == Scan(sealed, 0, Top, LeafFilter)
<1>5. first \in Seq(LogEntries) /\ all \in Seq(LogEntries)
  <2>1. 0 \in Nat /\ 0 <= n + 1 /\ 0 <= Top + 1 /\ n \in Int /\ Top \in Int
    BY <1>2
  <2> QED BY <1>1, <1>2, <2>1, ScanFinds
<1>6. rest \in Seq(LogEntries)
  <2>1. PICK k \in Nat : k = n + 1 /\ k <= Top + 1
    BY <1>2
  <2>2. Top \in Int /\ Top <= Top
    BY <1>2
  <2>3. Scan(sealed, k, Top, LeafFilter) \in Seq(LogEntries)
    BY <1>1, <2>1, <2>2, ScanFinds
  <2> QED BY <2>1, <2>3
<1>7. all = first \o rest
  <2>1. 0 \in Nat /\ 0 <= n + 1 /\ n \in Int /\ Top \in Int /\ Top < Len(sealed)
    BY <1>2
  <2>2. Splits(sealed, 0, n, Top, LeafFilter)
    BY <1>1, <1>2, <2>1, ScanSplit DEF SealedOk
  <2> QED BY <2>2 DEF Splits
<1>8. OwnedBy(first, At(n).leaves) /\ OwnedBy(all, At(Top).leaves)
  <2>1. n \in 0 .. Len(sealed) - 1 /\ Top \in 0 .. Len(sealed) - 1
    BY <1>2
  <2> QED BY <1>3, <2>1 DEF ChainOk, LeavesLast
<1> HIDE DEF first, rest, all
<1>9. Len(first) <= Len(all)
  BY <1>5, <1>6, <1>7
<1>10. Len(At(n).leaves) <= Len(first) /\ Len(At(n).leaves) \in Nat
  BY <1>4, <1>8 DEF OwnedBy
<1>11. Len(At(n).leaves) <= Len(all)
  <2>1. Len(first) \in Nat /\ Len(all) \in Nat
    BY <1>5
  <2> QED BY <1>9, <1>10, <2>1
<1> QED BY <1>4, <1>5, <1>8, <1>11 DEF all

LEMMA ScanNone ==
    ASSUME SealedOk, NEW f
    PROVE  Scan(sealed, 0, 0 - 1, f) = <<>>
<1>1. 0 \in Nat /\ 0 - 1 \in Int /\ 0 <= (0 - 1) + 1 /\ 0 - 1 < Len(sealed) /\ (0 - 1) - 0 + 1 = 0
  BY TopFacts
<1>2. /\ Parts(sealed, 0, 0 - 1, f) \in Seq(Seq(LogEntries))
      /\ Len(Parts(sealed, 0, 0 - 1, f)) = (0 - 1) - 0 + 1
  <2>1. PartsAre(sealed, 0, 0 - 1, f)
    BY <1>1, PartsTypes DEF SealedOk
  <2> QED BY <2>1 DEF PartsAre
<1>3. Parts(sealed, 0, 0 - 1, f) = <<>>
  BY <1>1, <1>2
<1> QED BY <1>3, JoinedNone DEF Scan

\* A nullifier's first vote is the first a scan for the nullifier finds.
LEMMA VoteFound ==
    ASSUME ChainOk(sealed), NEW n \in 0 .. Top, NEW b \in At(n).spent, NEW logs \in Seq(LogEntries),
           ScanOf(logs, 0 .. Top, VoteFilter(b.nullifier)), InOrder(logs)
    PROVE  logs # <<>> /\ ToldVote(sealed, n + 1, b.nullifier, {logs[1].log.data})
<1> DEFINE v == b.nullifier  f == VoteFilter(v)
<1>0. SealedOk /\ VotesKept(sealed)
  BY HeadFacts DEF ChainOk
<1>1. /\ Top \in Nat /\ Len(sealed) = Top + 1
      /\ \A k \in 0 .. Top : At(k) = sealed[k + 1] /\ k + 1 \in 1 .. Len(sealed)
      /\ n + 1 \in 1 .. Len(sealed) /\ At(n) = sealed[n + 1]
  BY <1>0, TopFacts
<1>2. \A i \in 1 .. Len(sealed) : sealed[i].spent \subseteq Ballots
  <2>1. \A i \in 1 .. Len(sealed) : sealed[i] \in SomeBlocks
    BY <1>0 DEF SealedOk
  <2> QED BY <2>1 DEF SomeBlocks
<1>3. ASSUME NEW k \in 0 .. Top
      PROVE  Carries(At(k), f) <=> \E c \in Ballots : At(k).logs = <<VoteCast(c)>> /\ c.nullifier = v
  <2> DEFINE held == At(k).logs
  <2>1. held \in Seq(SomeLogs) /\ (Len(held) = 1 => held[1] \in SomeLogs)
    BY <1>0, BlockThere DEF BlockIs
  <2>2. Carries(At(k), f) <=> Len(held) = 1 /\ MatchLog(held[1], f)
    BY DEF Carries
  <2> HIDE DEF held, f, v
  <2>3. Len(held) = 1 => (MatchLog(held[1], f) <=> \E c \in Ballots : held[1] = VoteCast(c) /\ c.nullifier = v)
    BY <2>1, VoteMatches DEF f
  <2>4. Len(held) = 1 => held = <<held[1]>>
    BY <2>1, SingleSequence
  <2>5. \A c : held = <<VoteCast(c)>> => Len(held) = 1 /\ held[1] = VoteCast(c)
    OBVIOUS
  <2>6. Carries(At(k), f) <=> \E c \in Ballots : held = <<VoteCast(c)>> /\ c.nullifier = v
    BY <2>2, <2>3, <2>4, <2>5
  <2> QED BY <2>6 DEF held
<1> HIDE DEF f
<1>4. ScanOf(logs, 0 .. Top, f)
  BY DEF f
<1> DEFINE T == {i \in 1 .. n + 1 : Spends(sealed[i], v)}
<1>5. PICK i \in T : \A j \in T : i <= j
  <2>1. T \subseteq Nat
    OBVIOUS
  <2>2. n + 1 \in T
    BY <1>1 DEF Spends
  <2> HIDE DEF T
  <2> QED BY <2>1, <2>2, LeastNatural
<1>6. i \in 1 .. n + 1 /\ i \in 1 .. Len(sealed) /\ \A j \in 1 .. i - 1 : j \in 1 .. Len(sealed) /\ ~Spends(sealed[j], v)
  BY <1>1, <1>5
<1>7. PICK x \in sealed[i].spent : x.nullifier = v
  BY <1>5 DEF Spends
<1>8. sealed[i].logs = <<VoteCast(x)>> /\ x \in Ballots
  BY <1>0, <1>2, <1>6, <1>7 DEF VotesKept, FirstIsCast
<1> HIDE DEF T, v
<1>9. PICK m \in 0 .. Top : m = i - 1 /\ At(m) = sealed[i]
  <2>1. i - 1 \in 0 .. Top /\ (i - 1) + 1 = i
    BY <1>1, <1>6
  <2> QED BY <1>1, <2>1
<1>10. Carries(At(m), f)
  BY <1>3, <1>7, <1>8, <1>9
<1>11. PICK e \in 1 .. Len(logs) : logs[e] = Entered(At(m), m)
  BY <1>4, <1>10 DEF ScanOf, Elements
<1>12. logs # <<>> /\ 1 \in 1 .. Len(logs) /\ Len(logs) \in Nat
  BY <1>11
<1>13. PICK k \in 0 .. Top : Carries(At(k), f) /\ logs[1] = Entered(At(k), k)
  BY <1>4, <1>12 DEF ScanOf, Elements
<1>14. PICK c \in Ballots : At(k).logs = <<VoteCast(c)>> /\ c.nullifier = v
  BY <1>3, <1>13
<1>15. ~(k < m)
  <2> SUFFICES ASSUME k < m PROVE FALSE
    OBVIOUS
  <2>1. k + 1 \in 1 .. i - 1 /\ k + 1 \in 1 .. Len(sealed)
    BY <1>1, <1>6, <1>9
  <2>2. Spends(sealed[k + 1], v)
    BY <1>0, <1>1, <1>14, <2>1 DEF VotesKept, CastIsSpent
  <2> QED BY <1>6, <2>1, <2>2
<1>16. ~(m < k)
  <2> SUFFICES ASSUME m < k PROVE FALSE
    OBVIOUS
  <2>1. logs[1].block = k /\ logs[e].block = m
    BY <1>11, <1>13 DEF Entered
  <2>2. e # 1
    BY <2>1
  <2>3. 1 < e
    BY <1>12, <2>2
  <2>4. k < m
    BY <1>12, <2>1, <2>3 DEF InOrder
  <2> QED BY <2>4
<1>17. logs[1].log.data = x.candidate
  <2>1. k = m
    BY <1>15, <1>16
  <2>2. logs[1].log = VoteCast(x)
    BY <1>8, <1>9, <1>13, <2>1 DEF Entered
  <2> QED BY <2>2, KindOfLog
<1>18. ASSUME NEW j \in 1 .. Len(sealed), x \in sealed[j].spent PROVE Voted(sealed[j], v) = {x.candidate}
  <2>1. \A y \in sealed[j].spent : y.nullifier = v => y = x
    BY <1>0, <1>7, <1>18 DEF VotesKept, SpentOnce
  <2>2. {z \in sealed[j].spent : z.nullifier = v} = {x}
    BY <1>7, <1>18, <2>1
  <2> QED BY <2>2 DEF Voted
<1>19. \A j \in 1 .. Len(sealed) : Voted(sealed[j], v) = {} <=> ~Spends(sealed[j], v)
  BY DEF Voted, Spends
<1>20. \A j \in 1 .. i - 1 : Voted(sealed[j], v) = {}
  BY <1>6, <1>19
<1>21. Voted(sealed[i], v) = {x.candidate} /\ {x.candidate} # {}
  BY <1>6, <1>18
<1>22. \/ Voted(sealed[n + 1], v) = {x.candidate}
       \/ \E j, l \in 1 .. n + 1 : j < l /\ Voted(sealed[j], v) # {} /\ Voted(sealed[l], v) = {}
  <2>1. CASE \A l \in i .. n + 1 : Spends(sealed[l], v)
    <3>1. x \in sealed[n + 1].spent
      <4>1. i <= n + 1
        BY <1>6
      <4> QED BY <1>0, <1>1, <1>6, <1>7, <2>1, <4>1 DEF VotesKept, KeptUntilReset
    <3> QED BY <1>1, <1>18, <3>1
  <2>2. ASSUME NEW l \in i .. n + 1, ~Spends(sealed[l], v)
        PROVE  i < l /\ l \in 1 .. n + 1 /\ Voted(sealed[l], v) = {}
    <3>1. l \in 1 .. n + 1 /\ l \in 1 .. Len(sealed)
      BY <1>1, <1>6
    <3>2. l # i
      BY <1>7, <2>2 DEF Spends
    <3>3. i < l
      BY <1>6, <3>1, <3>2
    <3>4. Voted(sealed[l], v) = {}
      BY <1>19, <2>2, <3>1
    <3> QED BY <3>1, <3>3, <3>4
  <2> QED BY <1>6, <1>21, <2>1, <2>2
<1>23. ToldVote(sealed, n + 1, v, {x.candidate})
  BY <1>6, <1>20, <1>21, <1>22 DEF ToldVote
<1> QED BY <1>12, <1>17, <1>23 DEF v

LEMMA IdleStage ==
    ASSUME NEW q, q.pc = "idle"
    PROVE  Stage(sealed, q)
BY DEF Stage, Stages

\* A request that begins, and one that ends.
LEMMA AskSteps ==
    ASSUME ReadersIInv, AskPath \/ AskVerify \/ AskHistory \/ Done
    PROVE  sealed' = sealed /\ Stage(sealed, request')
<1>0. SealedOk
  BY HeadFacts DEF ReadersIInv
<1>1. Top \in Nat /\ Len(sealed) = Top + 1 /\ Top \in 0 .. Len(sealed) - 1 /\ Head0 = sealed[Top + 1]
  BY <1>0, TopFacts DEF Head0
<1>2. PICK q : q = request'
  OBVIOUS
<1>3. CASE AskPath
  <2>1. q.pc = "path" /\ q.at = Top /\ q.begun = Top
    BY <1>2, <1>3 DEF AskPath, Start
  <2>2. Stage(sealed, q)
    BY <1>1, <2>1 DEF Stage, Stages
  <2> QED BY <1>2, <1>3, <2>2 DEF AskPath, Start
<1>4. CASE AskVerify
  <2>1. q.pc = "verify" /\ q.at = Top /\ q.begun = Top /\ sealed' = sealed
        /\ \E b \in Head0.spent : b.nullifier = q.asked
    BY <1>2, <1>4 DEF AskVerify
  <2>2. Stage(sealed, q)
    BY <1>1, <2>1 DEF Stage, Stages
  <2> QED BY <1>2, <2>1, <2>2
<1>5. CASE AskHistory
  <2>1. /\ q.pc = "registry" /\ q.at = Top /\ q.begun = Top /\ q.asked = 0 /\ q.answer = Nothing
        /\ sealed' = sealed
    BY <1>2, <1>5 DEF AskHistory
  <2>2. q.answer.logs = Scan(sealed, 0, q.asked - 1, AllOf("registry"))
    BY <1>0, <2>1, ScanNone DEF Nothing
  <2>3. Stage(sealed, q)
    BY <1>1, <2>1, <2>2 DEF Stage, Stages
  <2> QED BY <1>2, <2>1, <2>3
<1>6. CASE Done
  <2>1. q.pc = "idle" /\ sealed' = sealed
    BY <1>2, <1>6 DEF Done, Idle
  <2> QED BY <1>2, <2>1, IdleStage
<1> QED BY <1>3, <1>4, <1>5, <1>6

LEMMA BegunFacts ==
    ASSUME ReadersIInv, request.pc # "idle"
    PROVE  /\ SealedOk /\ Top \in Nat /\ Len(sealed) = Top + 1 /\ Top \in 0 .. Len(sealed) - 1 /\ Top \in 0 .. Top
           /\ request.begun \in 0 .. Top /\ request.begun \in 0 .. Len(sealed) - 1
           /\ At(request.begun) = sealed[request.begun + 1] /\ At(Top) = sealed[Top + 1]
<1>1. SealedOk
  BY HeadFacts DEF ReadersIInv
<1>2. Top \in Nat /\ Len(sealed) = Top + 1 /\ Top \in 0 .. Len(sealed) - 1 /\ Top \in 0 .. Top
  BY <1>1, TopFacts
<1>3. request.begun \in 0 .. Len(sealed) - 1
  BY DEF ReadersIInv, Stage
<1>4. request.begun \in 0 .. Top
  BY <1>2, <1>3
<1> QED BY <1>1, <1>2, <1>3, <1>4, TopFacts

LEMMA LeavesRead ==
    ASSUME ReadersAssumption, ReadersIInv, ReadLeaves
    PROVE  sealed' = sealed /\ Stage(sealed, request')
<1> DEFINE logs == GetLogs(LeafFilter).logs
           own == At(request.begun).leaves
           size == Len(own)
           read == [Nothing EXCEPT !.leaves = [i \in 1 .. size |-> OwnLeaves(logs, size)[i].log.data.value]]
<1>1. /\ request.pc = "path"
      /\ IF GetLogs(LeafFilter).error # "none" \/ Len(logs) < size THEN Answered("failed", Nothing)
         ELSE Answered("pathAnswered", read)
  BY DEF ReadLeaves, LeafFilter
<1>2. /\ SealedOk /\ Top \in Nat /\ Len(sealed) = Top + 1 /\ Top \in 0 .. Len(sealed) - 1
      /\ request.begun \in 0 .. Top /\ request.begun \in 0 .. Len(sealed) - 1
      /\ own = sealed[request.begun + 1].leaves /\ At(Top).leaves = sealed[Top + 1].leaves
  BY <1>1, BegunFacts
<1>3. /\ LeafFilter.topics \in Seq({{"NewLeaf"}}) /\ LeafFilter.blockHash = {}
      /\ LeafFilter.from = 0 /\ LeafFilter.to = Latest
  BY DEF LeafFilter, Filter
<1>4. \/ GetLogs(LeafFilter).error = "none" /\ logs = Scan(sealed, 0, Top, LeafFilter)
      \/ GetLogs(LeafFilter).error # "none" /\ LogRangeLimit > 0 /\ Top >= LogRangeLimit
  BY <1>2, <1>3, FromFirst
<1>5. /\ own \in Seq(Leaves) /\ Scan(sealed, 0, Top, LeafFilter) \in Seq(LogEntries)
      /\ size <= Len(Scan(sealed, 0, Top, LeafFilter))
      /\ OwnedBy(Scan(sealed, 0, Top, LeafFilter), At(Top).leaves)
  BY <1>2, LeavesFound DEF ReadersIInv
<1>6. PICK q : q = request'
  OBVIOUS
<1>7. CASE GetLogs(LeafFilter).error # "none"
  <2>1. q.pc = "failed" /\ q.at = Top /\ q.begun = request.begun /\ sealed' = sealed
    BY <1>1, <1>6, <1>7 DEF Answered, Goes
  <2>2. LogRangeLimit > 0 /\ Len(sealed) - 1 >= LogRangeLimit
    BY <1>2, <1>4, <1>7
  <2>3. Stage(sealed, q)
    BY <1>2, <2>1, <2>2 DEF Stage, Stages
  <2> QED BY <1>6, <2>1, <2>3
<1>8. CASE GetLogs(LeafFilter).error = "none"
  <2>1. logs = Scan(sealed, 0, Top, LeafFilter)
    BY <1>4, <1>8
  <2> HIDE DEF logs, own
  <2>2. ~(Len(logs) < size)
    <3>1. size \in Nat /\ Len(logs) \in Nat /\ size <= Len(logs)
      BY <1>5, <2>1
    <3> QED BY <3>1
  <2>3. Answered("pathAnswered", read)
    BY <1>1, <1>8, <2>2
  <2>4. read.leaves = [i \in 1 .. size |-> OwnLeaves(logs, size)[i].log.data.value]
    BY DEF Nothing
  <2> HIDE DEF read
  <2>5. /\ q.pc = "pathAnswered" /\ q.at = Top /\ q.begun = request.begun /\ q.answer = read
        /\ sealed' = sealed
    BY <1>6, <2>3 DEF Answered, Goes
  <2>6. ASSUME own = At(Top).leaves PROVE read.leaves = At(Top).leaves
    <3>1. OwnedBy(logs, own) /\ logs \in Seq(LogEntries)
      BY <1>5, <2>1, <2>6
    <3>2. [i \in 1 .. size |-> OwnLeaves(logs, size)[i].log.data.value] = own
      BY <1>5, <3>1, LastAreOwn
    <3> QED BY <2>4, <2>6, <3>2
  <2>7. sealed[q.begun + 1].leaves = sealed[q.at + 1].leaves => q.answer.leaves = sealed[q.at + 1].leaves
    BY <1>2, <2>5, <2>6
  <2>8. Stage(sealed, q)
    BY <1>2, <2>5, <2>7 DEF Stage, Stages
  <2> QED BY <1>6, <2>5, <2>8
<1> QED BY <1>7, <1>8

LEMMA VoteRead ==
    ASSUME ReadersAssumption, ReadersIInv, ReadVote
    PROVE  sealed' = sealed /\ Stage(sealed, request')
<1> DEFINE f == VoteFilter(request.asked)
           logs == GetLogs(f).logs
           read == [Nothing EXCEPT !.candidate = IF logs = <<>> THEN {} ELSE {logs[1].log.data}]
<1>1. /\ request.pc = "verify"
      /\ IF GetLogs(f).error # "none" THEN Answered("failed", Nothing) ELSE Answered("verifyAnswered", read)
  BY DEF ReadVote, VoteFilter
<1>2. /\ SealedOk /\ Top \in Nat /\ Len(sealed) = Top + 1 /\ Top \in 0 .. Len(sealed) - 1
      /\ request.begun \in 0 .. Top /\ request.begun \in 0 .. Len(sealed) - 1
      /\ At(request.begun) = sealed[request.begun + 1]
  BY <1>1, BegunFacts
<1>3. f.topics \in Seq({{"VoteCast"}, {request.asked}}) /\ f.blockHash = {} /\ f.from = 0 /\ f.to = Latest
  BY DEF VoteFilter, Filter
<1> HIDE DEF f
<1>4. \/ GetLogs(f).error = "none" /\ logs = Scan(sealed, 0, Top, f)
      \/ GetLogs(f).error # "none" /\ LogRangeLimit > 0 /\ Top >= LogRangeLimit
  BY <1>2, <1>3, FromFirst
<1>5. PICK b \in At(request.begun).spent : b.nullifier = request.asked
  BY <1>1, <1>2 DEF ReadersIInv, Stage
<1>6. PICK q : q = request'
  OBVIOUS
<1>7. CASE GetLogs(f).error # "none"
  <2>1. q.pc = "failed" /\ q.at = Top /\ q.begun = request.begun /\ sealed' = sealed
    BY <1>1, <1>6, <1>7 DEF Answered, Goes
  <2>2. LogRangeLimit > 0 /\ Len(sealed) - 1 >= LogRangeLimit
    BY <1>2, <1>4, <1>7
  <2>3. Stage(sealed, q)
    BY <1>2, <2>1, <2>2 DEF Stage, Stages
  <2> QED BY <1>6, <2>1, <2>3
<1>8. CASE GetLogs(f).error = "none"
  <2>1. logs = Scan(sealed, 0, Top, f) /\ f = VoteFilter(b.nullifier)
    BY <1>4, <1>5, <1>8 DEF f
  <2>2. Answered("verifyAnswered", read)
    BY <1>1, <1>8
  <2>3. read.candidate = IF logs = <<>> THEN {} ELSE {logs[1].log.data}
    BY DEF Nothing
  <2> HIDE DEF logs, read
  <2>4. logs \in Seq(LogEntries) /\ ScanOf(logs, 0 .. Top, f) /\ InOrder(logs)
    <3>1. 0 \in Nat /\ Top \in Int /\ 0 <= Top + 1 /\ Top <= Top
      BY <1>2
    <3>2. PICK found : found = Scan(sealed, 0, Top, f)
      OBVIOUS
    <3>3. found \in Seq(LogEntries) /\ ScanOf(found, 0 .. Top, f) /\ InOrder(found)
      BY <1>2, <3>1, <3>2, ScanFinds
    <3> QED BY <2>1, <3>2, <3>3
  <2>5. logs # <<>> /\ ToldVote(sealed, request.begun + 1, b.nullifier, {logs[1].log.data})
    BY <1>2, <2>1, <2>4, VoteFound DEF ReadersIInv
  <2>6. /\ q.pc = "verifyAnswered" /\ q.at = Top /\ q.begun = request.begun /\ q.answer = read
        /\ q.asked = request.asked /\ sealed' = sealed
    BY <1>6, <2>2 DEF Answered, Goes
  <2>7. ToldVote(sealed, q.begun + 1, q.asked, q.answer.candidate)
    BY <1>5, <2>3, <2>5, <2>6
  <2>8. Stage(sealed, q)
    BY <1>2, <2>6, <2>7 DEF Stage, Stages
  <2> QED BY <1>6, <2>6, <2>8
<1> QED BY <1>7, <1>8

\* A window of the history is within the head that was read and the limit.
LEMMA WindowFacts ==
    ASSUME ReadersAssumption, ReadersIInv, request.pc \in Windows
    PROVE  /\ SealedOk /\ Top \in Nat /\ Len(sealed) = Top + 1 /\ request.begun \in 0 .. Top
           /\ request.asked \in Nat /\ WindowEnd \in Nat /\ request.asked <= WindowEnd /\ WindowEnd <= request.begun
           /\ WindowEnd = IF request.asked + BlockChunk > request.begun THEN request.begun
                          ELSE request.asked + BlockChunk - 1
           /\ GetLogs(Filter(request.asked, WindowEnd, {request.pc}, <<>>))
                = Found(Scan(sealed, request.asked, WindowEnd, AllOf(request.pc)))
<1>1. SealedOk /\ Top \in Nat /\ Len(sealed) = Top + 1 /\ request.begun \in 0 .. Top
  BY BegunFacts DEF Windows
<1>2. request.asked \in 0 .. request.begun
  BY DEF ReadersIInv, Stage, Windows
<1>3. /\ LogRangeLimit \in Nat /\ BlockChunk \in Nat /\ BlockChunk >= 1
      /\ LogRangeLimit = 0 \/ BlockChunk <= LogRangeLimit
  BY DEF ReadersAssumption
<1>4. PICK a \in Nat : a = request.asked
  BY <1>2
<1>5. PICK e \in Nat : e = IF a + BlockChunk > request.begun THEN request.begun ELSE a + BlockChunk - 1
  BY <1>1, <1>2, <1>3, <1>4
<1>6. e = WindowEnd
  BY <1>1, <1>3, <1>4, <1>5 DEF WindowEnd
<1>7. a <= e /\ e <= request.begun /\ e <= Top /\ e - a + 1 <= BlockChunk
  <2>1. PICK b \in Nat : b = request.begun /\ b <= Top
    BY <1>1
  <2>2. a <= b /\ e = IF a + BlockChunk > b THEN b ELSE a + BlockChunk - 1
    BY <1>2, <1>4, <1>5, <2>1
  <2>3. a <= e /\ e <= b /\ e - a + 1 <= BlockChunk
    BY <1>3, <2>2
  <2> QED BY <1>1, <2>1, <2>3
<1> DEFINE f == Filter(a, e, {request.pc}, <<>>)
<1>8. f.topics \in Seq(Nat) /\ f.blockHash = {} /\ f.from = a /\ f.to = e
  BY DEF Filter
<1>9. LogRange(f).from = a /\ LogRange(f).to = e
  BY <1>1, <1>7, <1>8 DEF LogRange, Resolve, Earliest, Safe, Finalized, Latest, Pending, NoTag
<1> HIDE DEF f
<1>10. GetLogs(f) = IF LogRangeLimit > 0 /\ e - a + 1 > LogRangeLimit THEN Failure("range")
                    ELSE Found(Scan(sealed, a, e, f))
  BY <1>1, <1>7, <1>8, <1>9, GetLogsScan
<1>11. GetLogs(f) = Found(Scan(sealed, a, e, f))
  BY <1>3, <1>7, <1>10
<1>12. Scan(sealed, a, e, f) = Scan(sealed, a, e, AllOf(request.pc))
  <2>1. a <= e + 1 /\ e \in Int
    BY <1>7
  <2>2. PICK p : p = request.pc
    OBVIOUS
  <2>3. Scan(sealed, a, e, Filter(a, e, {p}, <<>>)) = Scan(sealed, a, e, AllOf(p))
    BY <1>1, <1>7, <2>1, SameWindow
  <2> QED BY <2>2, <2>3 DEF f
<1> QED BY <1>1, <1>4, <1>5, <1>6, <1>7, <1>11, <1>12 DEF f

LEMMA WindowRead ==
    ASSUME ReadersAssumption, ReadersIInv, ReadWindow
    PROVE  sealed' = sealed /\ Stage(sealed, request')
<1> DEFINE begun == request.begun
           found == GetLogs(Filter(request.asked, WindowEnd, {request.pc}, <<>>))
           read == [Nothing EXCEPT !.logs = request.answer.logs \o found.logs]
           AtEnd == request.asked + BlockChunk > begun
<1>1. /\ request.pc \in Windows
      /\ \/ found.error # "none" /\ Answered("failed", Nothing)
         \/ found.error = "none" /\ ~AtEnd /\ Goes(request.pc, request.asked + BlockChunk, read)
         \/ found.error = "none" /\ AtEnd
            /\ Goes(IF request.pc = "registry" THEN "division" ELSE "historyAnswered", 0, read)
  BY DEF ReadWindow
<1>2. /\ SealedOk /\ Top \in Nat /\ Len(sealed) = Top + 1 /\ begun \in 0 .. Top
      /\ request.asked \in Nat /\ WindowEnd \in Nat /\ request.asked <= WindowEnd /\ WindowEnd <= begun
      /\ WindowEnd = IF request.asked + BlockChunk > begun THEN begun ELSE request.asked + BlockChunk - 1
      /\ found = Found(Scan(sealed, request.asked, WindowEnd, AllOf(request.pc)))
  BY <1>1, WindowFacts
<1>3. PICK a \in Nat : a = request.asked
  BY <1>2
<1>4. PICK e \in Nat : e = WindowEnd
  BY <1>2
<1>5. found.error = "none" /\ found.logs = Scan(sealed, a, e, AllOf(request.pc))
  BY <1>2, <1>3, <1>4 DEF Found
<1>6. read.logs = request.answer.logs \o Scan(sealed, a, e, AllOf(request.pc))
  BY <1>5 DEF Nothing
<1> DEFINE before(p) == Scan(sealed, 0, a - 1, AllOf(p))
           window(p) == Scan(sealed, a, e, AllOf(p))
           upto(p) == Scan(sealed, 0, e, AllOf(p))
           reg == Scan(sealed, 0, begun, AllOf("registry"))
<1>7. ASSUME NEW p PROVE before(p) \in Seq(LogEntries) /\ window(p) \in Seq(LogEntries) /\ upto(p) = before(p) \o window(p)
  <2>1. PICK k \in Int : k = a - 1
    OBVIOUS
  <2>2. 0 \in Nat /\ 0 <= k + 1 /\ k <= e /\ k <= Top /\ e <= Top /\ e < Len(sealed) /\ a <= e + 1 /\ k + 1 = a
        /\ e \in Int
    <3>1. PICK b \in Nat : b = begun /\ b <= Top
      BY <1>2
    <3>2. a <= e /\ e <= b
      BY <1>2, <1>3, <1>4, <3>1
    <3> HIDE DEF begun
    <3> QED BY <1>2, <2>1, <3>1, <3>2
  <2>3. PICK f : f = AllOf(p)
    OBVIOUS
  <2>4. Splits(sealed, 0, k, e, f)
    BY <1>2, <2>2, ScanSplit DEF SealedOk
  <2>5. Scan(sealed, 0, k, f) \in Seq(LogEntries)
    BY <1>2, <2>2, ScanFinds
  <2>6. Scan(sealed, a, e, f) \in Seq(LogEntries)
    BY <1>2, <2>2, ScanFinds
  <2> QED BY <2>1, <2>2, <2>3, <2>4, <2>5, <2>6 DEF Splits
<1>8. reg \in Seq(LogEntries)
  <2>1. PICK f : f = AllOf("registry")
    OBVIOUS
  <2>2. 0 \in Nat /\ begun \in Int /\ 0 <= begun + 1 /\ begun <= Top
    BY <1>2
  <2> QED BY <1>2, <2>1, <2>2, ScanFinds
<1>9. PICK q : q = request'
  OBVIOUS
<1>10. PICK pc, asked : /\ Goes(pc, asked, read)
                        /\ \/ ~AtEnd /\ pc = request.pc /\ asked = a + BlockChunk
                           \/ AtEnd /\ asked = 0 /\ pc = IF request.pc = "registry" THEN "division" ELSE "historyAnswered"
  BY <1>1, <1>3, <1>5
<1>11. /\ sealed' = sealed /\ q.pc = pc /\ q.at = Top /\ q.asked = asked /\ q.answer = read /\ q.begun = begun
  BY <1>9, <1>10 DEF Goes
<1>12. ~AtEnd => e = asked - 1 /\ asked \in 0 .. begun
  BY <1>2, <1>3, <1>4, <1>10 DEF ReadersAssumption
<1>13. AtEnd => e = begun
  BY <1>2, <1>4
<1>14. /\ request.pc = "registry" => request.answer.logs = before("registry")
       /\ request.pc = "division" => request.answer.logs = reg \o before("division")
  BY <1>3 DEF ReadersIInv, Stage
<1>15. begun \in 0 .. Len(sealed) - 1 /\ Top \in 0 .. Len(sealed) - 1 /\ 0 \in 0 .. begun
  BY <1>2
<1> HIDE DEF begun, found, AtEnd, before, window, upto, reg
<1>16. CASE request.pc = "registry"
  <2>1. read.logs = upto("registry")
    BY <1>6, <1>7, <1>14, <1>16 DEF window
  <2>2. CASE ~AtEnd
    <3>1. q.pc = "registry" /\ q.asked \in 0 .. q.begun /\ q.answer.logs = Scan(sealed, 0, q.asked - 1, AllOf("registry"))
      BY <1>10, <1>11, <1>12, <1>16, <2>1, <2>2 DEF upto
    <3>2. Stage(sealed, q)
      BY <1>11, <1>15, <3>1 DEF Stage, Stages
    <3> QED BY <1>9, <1>11, <3>2
  <2>3. CASE AtEnd
    <3>1. q.pc = "division" /\ q.asked = 0 /\ read.logs = reg
      BY <1>10, <1>11, <1>13, <1>16, <2>1, <2>3 DEF upto, reg
    <3>2. Scan(sealed, 0, q.asked - 1, AllOf("division")) = <<>>
      BY <1>2, <3>1, ScanNone
    <3>3. q.answer.logs = reg \o Scan(sealed, 0, q.asked - 1, AllOf("division"))
      <4>1. reg \o <<>> = reg
        BY <1>8
      <4> QED BY <1>11, <3>1, <3>2, <4>1
    <3>4. Stage(sealed, q)
      BY <1>11, <1>15, <3>1, <3>3 DEF Stage, Stages, reg
    <3> QED BY <1>9, <1>11, <3>4
  <2> QED BY <2>2, <2>3
<1>17. CASE request.pc = "division"
  <2>1. read.logs = reg \o upto("division")
    <3>1. read.logs = Cat(Cat(reg, before("division")), window("division"))
      BY <1>6, <1>14, <1>17 DEF Cat, window
    <3>2. Cat(Cat(reg, before("division")), window("division")) = Cat(reg, Cat(before("division"), window("division")))
      <4>1. before("division") \in Seq(LogEntries) /\ window("division") \in Seq(LogEntries)
        BY <1>7
      <4> QED BY <1>8, <4>1, CatAssociative
    <3>3. Cat(before("division"), window("division")) = upto("division")
      BY <1>7 DEF Cat
    <3> QED BY <3>1, <3>2, <3>3 DEF Cat
  <2>2. CASE ~AtEnd
    <3>1. /\ q.pc = "division" /\ q.asked \in 0 .. q.begun
          /\ q.answer.logs = reg \o Scan(sealed, 0, q.asked - 1, AllOf("division"))
      BY <1>10, <1>11, <1>12, <1>17, <2>1, <2>2 DEF upto
    <3>2. Stage(sealed, q)
      BY <1>11, <1>15, <3>1 DEF Stage, Stages, reg
    <3> QED BY <1>9, <1>11, <3>2
  <2>3. CASE AtEnd
    <3>1. /\ q.pc = "historyAnswered"
          /\ q.answer.logs = reg \o Scan(sealed, 0, q.begun, AllOf("division"))
      BY <1>10, <1>11, <1>13, <1>17, <2>1, <2>3 DEF upto
    <3>2. Stage(sealed, q)
      BY <1>11, <1>15, <3>1 DEF Stage, Stages, reg
    <3> QED BY <1>9, <1>11, <3>2
  <2> QED BY <2>2, <2>3
<1> QED BY <1>1, <1>16, <1>17 DEF Windows

\* What was logged at an address is from there.
LEMMA AtAddress ==
    ASSUME SealedOk, NEW n \in 0 .. Top, NEW a
    PROVE  /\ Scan(sealed, 0, n, AllOf(a)) \in Seq(LogEntries)
           /\ \A i \in 1 .. Len(Scan(sealed, 0, n, AllOf(a))) : Scan(sealed, 0, n, AllOf(a))[i].log.address = a
<1>1. PICK f : f = AllOf(a)
  OBVIOUS
<1>2. PICK logs : logs = Scan(sealed, 0, n, f)
  OBVIOUS
<1>3. 0 \in Nat /\ n \in Int /\ 0 <= n + 1 /\ n <= Top /\ 0 .. n \subseteq 0 .. Top
  BY TopFacts
<1>4. logs \in Seq(LogEntries) /\ ScanOf(logs, 0 .. n, f)
  BY <1>2, <1>3, ScanFinds
<1>5. ASSUME NEW i \in 1 .. Len(logs) PROVE logs[i].log.address = a
  <2>1. logs[i] \in Elements(logs)
    BY DEF Elements
  <2>2. PICK k \in 0 .. n : Carries(At(k), f) /\ logs[i] = Entered(At(k), k)
    BY <1>4, <2>1 DEF ScanOf
  <2>3. k \in 0 .. Top
    BY <1>3
  <2>4. BlockIs(At(k), k, f)
    BY <2>3, BlockThere
  <2>5. Len(At(k).logs) = 1 /\ At(k).logs[1] \in SomeLogs /\ MatchLog(At(k).logs[1], f)
    BY <2>2, <2>4 DEF Carries, BlockIs
  <2>6. At(k).logs[1].address = a
    BY <1>1, <2>5, AllMatches DEF AllOf
  <2> QED BY <2>2, <2>6 DEF Entered
<1> QED BY <1>1, <1>2, <1>4, <1>5

\* Two logs, one after the other, are told apart by their address.
LEMMA ToldApart ==
    ASSUME NEW s \in Seq(LogEntries), NEW t \in Seq(LogEntries),
           \A i \in 1 .. Len(s) : s[i].log.address = "registry",
           \A i \in 1 .. Len(t) : t[i].log.address = "division"
    PROVE  /\ Those(s \o t, {x \in Elements(s \o t) : x.log.address = "registry"}) = s
           /\ Those(s \o t, {x \in Elements(s \o t) : x.log.address = "division"}) = t
<1>1. PICK both : both = s \o t
  OBVIOUS
<1>2. PICK m \in Nat, n \in Nat : m = Len(s) /\ n = Len(t)
  OBVIOUS
<1>3. ConcatIs(LogEntries, s, t)
  BY ConcatFacts
<1>4. /\ both \in Seq(LogEntries) /\ Len(both) = m + n
      /\ \A i \in 1 .. m : both[i] = s[i]
      /\ \A i \in 1 .. n : both[m + i] = t[i]
  BY <1>1, <1>2, <1>3 DEF ConcatIs
<1>5. ASSUME NEW i \in 1 .. m + n
      PROVE  both[i].log.address = IF i <= m THEN "registry" ELSE "division"
  <2>1. CASE i <= m
    <3>1. i \in 1 .. m /\ both[i] = s[i]
      BY <1>2, <1>4, <2>1
    <3> QED BY <1>2, <2>1, <3>1
  <2>2. CASE i > m
    <3>1. PICK k \in 1 .. n : i = m + k
      <4>1. i - m \in 1 .. n /\ i = m + (i - m)
        BY <1>2, <2>2
      <4> QED BY <4>1
    <3>2. both[i] = t[k] /\ t[k].log.address = "division"
      BY <1>2, <1>4, <3>1
    <3> QED BY <2>2, <3>2
  <2> QED BY <1>2, <2>1, <2>2
<1> DEFINE From(a) == {x \in Elements(both) : x.log.address = a}
<1>6. ASSUME NEW i \in 1 .. m + n, NEW a PROVE both[i] \in From(a) <=> both[i].log.address = a
  BY <1>4 DEF Elements
<1> HIDE DEF From
<1>7. Those(both, From("registry")) = s
  <2>1. PICK S : S = From("registry")
    OBVIOUS
  <2>2. PICK low \in 0 .. Len(both) : low = 0
    BY <1>4
  <2>3. PICK high \in low .. Len(both) : high = m
    BY <1>4, <2>2
  <2>4. RunOf(LogEntries, Those(both, S), both, low, high)
    <3>1. ASSUME NEW i \in 1 .. Len(both) PROVE both[i] \in S <=> low < i /\ i <= high
      <4>1. i \in 1 .. m + n
        BY <1>4
      <4>2. both[i] \in S <=> both[i].log.address = "registry"
        BY <1>6, <2>1, <4>1
      <4>3. both[i] \in S <=> i <= m
        BY <1>5, <4>1, <4>2
      <4> QED BY <2>2, <2>3, <4>1, <4>3
    <3> QED BY <1>4, <3>1, ThoseTogether
  <2>5. PICK thoseKept : thoseKept = Those(both, S)
    OBVIOUS
  <2>6. thoseKept \in Seq(LogEntries) /\ Len(thoseKept) = Len(s) /\ \A i \in 1 .. Len(thoseKept) : thoseKept[i] = s[i]
    BY <1>2, <1>4, <2>2, <2>3, <2>4, <2>5 DEF RunOf
  <2>7. thoseKept = s
    BY <2>6, SameSequence
  <2> QED BY <2>1, <2>5, <2>7
<1>8. Those(both, From("division")) = t
  <2>1. PICK S : S = From("division")
    OBVIOUS
  <2>2. m + n \in Nat /\ n = (m + n) - m
    OBVIOUS
  <2>3. PICK low \in 0 .. Len(both) : low = m
    BY <1>4
  <2>4. PICK high \in low .. Len(both) : high = m + n
    BY <1>4, <2>2, <2>3
  <2>5. RunOf(LogEntries, Those(both, S), both, low, high)
    <3>1. ASSUME NEW i \in 1 .. Len(both) PROVE both[i] \in S <=> low < i /\ i <= high
      <4>1. i \in 1 .. m + n
        BY <1>4
      <4>2. both[i] \in S <=> both[i].log.address = "division"
        BY <1>6, <2>1, <4>1
      <4>3. both[i] \in S <=> ~(i <= m)
        BY <1>5, <4>1, <4>2
      <4> QED BY <2>3, <2>4, <4>1, <4>3
    <3> QED BY <1>4, <3>1, ThoseTogether
  <2>6. PICK thoseKept : thoseKept = Those(both, S)
    OBVIOUS
  <2>7. thoseKept \in Seq(LogEntries) /\ Len(thoseKept) = Len(t) /\ \A i \in 1 .. Len(thoseKept) : thoseKept[i] = t[i]
    BY <1>2, <1>4, <2>2, <2>3, <2>4, <2>5, <2>6 DEF RunOf
  <2>8. thoseKept = t
    BY <2>7, SameSequence
  <2> QED BY <2>1, <2>6, <2>8
<1> QED BY <1>1, <1>7, <1>8 DEF From

\* Block by block, a log of one address is its scan.
LEMMA BlockByBlock ==
    ASSUME SealedOk, NEW n \in 0 .. Top, NEW a
    PROVE  Joined([i \in 1 .. n + 1 |-> BlockLogs(i - 1, Filter(0, 0, {a}, <<>>))]) = Scan(sealed, 0, n, AllOf(a))
<1>1. PICK f : f = AllOf(a)
  OBVIOUS
<1>2. Top \in Nat /\ n \in Nat /\ n <= Top
  BY TopFacts
<1>3. ASSUME NEW i \in 1 .. n + 1 PROVE BlockLogs(i - 1, f) = LogsIn(sealed[0 + i], 0 + i - 1, f)
  <2>1. PICK k \in 0 .. Top : k = i - 1
    <3>1. i - 1 \in 0 .. Top
      BY <1>2
    <3> QED BY <3>1
  <2>2. BlockLogs(k, f) = LogsIn(At(k), k, f) /\ At(k) = sealed[k + 1]
    BY BlockLogsAre, TopFacts
  <2>3. k + 1 = 0 + i /\ k = 0 + i - 1
    BY <1>2, <2>1
  <2> QED BY <2>1, <2>2, <2>3
<1>4. [i \in 1 .. n + 1 |-> BlockLogs(i - 1, f)] = Parts(sealed, 0, n, f)
  <2>1. n - 0 + 1 = n + 1
    BY <1>2
  <2>2. Parts(sealed, 0, n, f) = [i \in 1 .. n + 1 |-> LogsIn(sealed[0 + i], 0 + i - 1, f)]
    BY <2>1 DEF Parts
  <2> QED BY <1>3, <2>2
<1> QED BY <1>1, <1>4 DEF Scan, AllOf

LEMMA HistoryRead ==
    ASSUME ReadersIInv
    PROVE  HistoryOfHead
<1>1. SealedOk
  BY HeadFacts DEF ReadersIInv
<1>2. request.pc = "failed" => LogRangeLimit > 0 /\ Top >= LogRangeLimit
  BY DEF ReadersIInv, Stage, Top
<1>3. ASSUME request.pc = "historyAnswered", NEW a \in Windows
      PROVE  Those(request.answer.logs, {x \in Elements(request.answer.logs) : x.log.address = a})
             = Joined([i \in 1 .. request.begun + 1 |-> BlockLogs(i - 1, Filter(0, 0, {a}, <<>>))])
  <2>1. PICK n \in 0 .. Top : n = request.begun
    BY <1>3, BegunFacts
  <2>2. PICK reg, div : reg = Scan(sealed, 0, n, AllOf("registry")) /\ div = Scan(sealed, 0, n, AllOf("division"))
    OBVIOUS
  <2>3. request.answer.logs = reg \o div
    BY <1>3, <2>1, <2>2 DEF ReadersIInv, Stage
  <2>4. /\ reg \in Seq(LogEntries) /\ \A i \in 1 .. Len(reg) : reg[i].log.address = "registry"
        /\ div \in Seq(LogEntries) /\ \A i \in 1 .. Len(div) : div[i].log.address = "division"
    BY <1>1, <2>2, AtAddress
  <2>5. /\ Those(reg \o div, {x \in Elements(reg \o div) : x.log.address = "registry"}) = reg
        /\ Those(reg \o div, {x \in Elements(reg \o div) : x.log.address = "division"}) = div
    BY <2>4, ToldApart
  <2>6. /\ Joined([i \in 1 .. n + 1 |-> BlockLogs(i - 1, Filter(0, 0, {"registry"}, <<>>))]) = reg
        /\ Joined([i \in 1 .. n + 1 |-> BlockLogs(i - 1, Filter(0, 0, {"division"}, <<>>))]) = div
    BY <1>1, <2>2, BlockByBlock
  <2>7. CASE a = "registry"
    BY <2>1, <2>3, <2>5, <2>6, <2>7
  <2>8. CASE a = "division"
    BY <2>1, <2>3, <2>5, <2>6, <2>8
  <2> QED BY <2>7, <2>8 DEF Windows
<1> QED BY <1>2, <1>3 DEF HistoryOfHead

\* What the invariant's parts say of what was answered.
LEMMA AnsweredTrue ==
    ASSUME ReadersIInv
    PROVE  PathOfTree /\ VerifiedUnlessReused /\ VerifiedAsFirstCast
<1>1. /\ request.pc # "idle" => request.at \in 0 .. Len(sealed) - 1 /\ request.begun \in 0 .. Len(sealed) - 1
      /\ request.pc = "pathAnswered" /\ sealed[request.begun + 1].leaves = sealed[request.at + 1].leaves
            => request.answer.leaves = sealed[request.at + 1].leaves
      /\ request.pc = "verifyAnswered" =>
            ToldVote(sealed, request.begun + 1, request.asked, request.answer.candidate)
  BY DEF ReadersIInv, Stage
<1>2. PathOfTree
  BY <1>1 DEF PathOfTree, At
<1>3. ASSUME request.pc = "verifyAnswered"
      PROVE  /\ request.answer.candidate = Counted(request.begun, request.asked) \/ Reused
             /\ \E n \in 0 .. request.begun :
                    /\ Counted(n, request.asked) = request.answer.candidate
                    /\ request.answer.candidate # {}
                    /\ \A m \in 0 .. n - 1 : Counted(m, request.asked) = {}
  <2> DEFINE x == request.asked  shown == request.answer.candidate
  <2>1. PICK last \in Nat : last = request.begun /\ ToldVote(sealed, last + 1, x, shown)
    BY <1>1, <1>3
  <2>2. \A n : Counted(n, x) = Voted(sealed[n + 1], x)
    BY DEF Counted, Voted, At
  <2>3. ASSUME NEW i \in 1 .. last + 1
        PROVE  /\ i - 1 \in 0 .. last /\ Counted(i - 1, x) = Voted(sealed[i], x)
               /\ \A m \in 0 .. (i - 1) - 1 : m + 1 \in 1 .. i - 1
    <3>1. (i - 1) + 1 = i
      OBVIOUS
    <3> QED BY <2>2, <3>1
  <2> HIDE DEF x, shown
  <2>4. shown = Counted(last, x) \/ \E m, n \in 0 .. last : m < n /\ Counted(m, x) # {} /\ Counted(n, x) = {}
    <3>1. CASE Voted(sealed[last + 1], x) = shown
      BY <2>2, <3>1
    <3>2. ASSUME NEW i \in 1 .. last + 1, NEW j \in 1 .. last + 1,
                 i < j, Voted(sealed[i], x) # {}, Voted(sealed[j], x) = {}
          PROVE  \E m, n \in 0 .. last : m < n /\ Counted(m, x) # {} /\ Counted(n, x) = {}
      <4>1. i - 1 < j - 1
        BY <3>2
      <4> QED BY <2>3, <3>2, <4>1
    <3> QED BY <2>1, <3>1, <3>2 DEF ToldVote
  <2>5. \E n \in 0 .. last : /\ Counted(n, x) = shown /\ shown # {}
                            /\ \A m \in 0 .. n - 1 : Counted(m, x) = {}
    <3>1. PICK i \in 1 .. last + 1 : /\ Voted(sealed[i], x) = shown /\ shown # {}
                                    /\ \A j \in 1 .. i - 1 : Voted(sealed[j], x) = {}
      BY <2>1 DEF ToldVote
    <3>2. \A m \in 0 .. (i - 1) - 1 : Counted(m, x) = {}
      BY <2>2, <2>3, <3>1
    <3> QED BY <2>3, <3>1, <3>2
  <2> QED BY <2>1, <2>4, <2>5 DEF x, shown, Reused
<1>4. VerifiedUnlessReused /\ VerifiedAsFirstCast
  BY <1>3 DEF VerifiedUnlessReused, VerifiedAsCast, VerifiedAsFirstCast
<1> QED BY <1>2, <1>4

LEMMA ReadersInductive ==
    /\ ReadersInit => ReadersIInv
    /\ ReadersIInv /\ [ReadersNext]_readerVars => ReadersIInv'
    /\ ReadersIInv => ReadersInv
<1>1. ASSUME ReadersInit PROVE ReadersIInv
  <2>1. sealed = <<GenesisBlock>> /\ request.pc = "idle"
    BY <1>1 DEF ReadersInit, Idle
  <2>2. ChainOk(sealed)
    BY <2>1, GenesisOk
  <2> QED BY <2>1, <2>2, IdleStage DEF ReadersIInv
<1>2. ASSUME ReadersIInv, [ReadersNext]_readerVars PROVE ReadersIInv'
  <2>1. ASSUME sealed' = sealed, Stage(sealed, request') PROVE ReadersIInv'
    BY <1>2, <2>1 DEF ReadersIInv
  <2>2. CASE Registers \/ Casts \/ Resets \/ Adds \/ Empty
    <3>1. PICK b : Grown(b)
      BY <1>2, <2>2, BlockSteps DEF ReadersIInv
    <3>2. PICK R : R = sealed'
      OBVIOUS
    <3>3. GrowsTo(sealed, b, R) /\ ChainOk(R) /\ request' = request
      BY <3>1, <3>2 DEF Grown
    <3>4. sealed \in Seq(SomeBlocks) /\ Stage(sealed, request) /\ {LogRangeLimit} \subseteq Nat
      BY <1>2, ReadersAssumption DEF ReadersIInv, ChainOk, ReadersAssumption
    <3>5. Stage(R, request)
      BY <3>3, <3>4, StageStays
    <3> QED BY <3>2, <3>3, <3>5 DEF ReadersIInv
  <2>3. CASE AskPath \/ AskVerify \/ AskHistory \/ Done
    BY <1>2, <2>1, <2>3, AskSteps
  <2>4. CASE ReadLeaves
    BY <1>2, <2>1, <2>4, LeavesRead, ReadersAssumption
  <2>5. CASE ReadVote
    BY <1>2, <2>1, <2>5, VoteRead, ReadersAssumption
  <2>6. CASE ReadWindow
    BY <1>2, <2>1, <2>6, WindowRead, ReadersAssumption
  <2>7. CASE UNCHANGED readerVars
    BY <1>2, <2>1, <2>7 DEF ReadersIInv, readerVars
  <2> QED BY <1>2, <2>2, <2>3, <2>4, <2>5, <2>6, <2>7 DEF ReadersNext
<1>3. ASSUME ReadersIInv PROVE ReadersInv
  <2>1. LogsExact
    BY <1>3, HeadFacts, SealedExact DEF ReadersIInv
  <2> QED BY <1>3, <2>1, HistoryRead, AnsweredTrue DEF ReadersInv
<1> QED BY <1>1, <1>2, <1>3

\* What the routes tell a voter of the chain is true of it, whatever was
\* sealed between the calls an answer is put together from: eth_getLogs finds
\* every log of its range and no other (internal/chain/logs.go), the Merkle
\* path is of the contract's own tree (api/merkle-path), a ballot is shown as
\* the first election that spent its nullifier counted it, which is the one
\* that was asked unless its secrets were used in two (api/verify-vote), and
\* the history is that of one head (api/election/history).
THEOREM ReadersInvAlways == ReadersSpec => []ReadersInv
<1>1. ReadersInit => ReadersIInv
  BY ReadersInductive
<1>2. ReadersIInv /\ [ReadersNext]_readerVars => ReadersIInv'
  BY ReadersInductive
<1>3. ReadersIInv => ReadersInv
  BY ReadersInductive
<1> QED BY <1>1, <1>2, <1>3, PTL DEF ReadersSpec

\* eth_getLogs finds every log of its range that matches and no other, in the
\* order of the chain, for every filter (internal/chain/logs.go): any range of
\* numbers and tags, any block, addresses and topics.
THEOREM EveryFilterExact == ReadersSpec => [](\A f \in EveryFilter : Exact(f))
<1>1. ReadersInit => ReadersIInv
  BY ReadersInductive
<1>2. ReadersIInv /\ [ReadersNext]_readerVars => ReadersIInv'
  BY ReadersInductive
<1>3. ReadersIInv => \A f \in EveryFilter : Exact(f)
  BY HeadFacts, EveryExact DEF ReadersIInv
<1> QED BY <1>1, <1>2, <1>3, PTL DEF ReadersSpec
=============================================================================
