---------------------------- MODULE Finality_proofs ----------------------------
(***************************************************************************)
(* Agreement for every validator set and Byzantine subset whose quorums    *)
(* overlap in an honest validator, and for every set of blocks.            *)
(***************************************************************************)
EXTENDS Finality, TLAPS

\* Two blocks committed at one height are the same block.
LEMMA CommittedUnique ==
    ASSUME FinalityAssumption, VoteOnce, NEW h \in Nat, NEW b \in Blocks, NEW c \in Blocks,
           Committed(cast, h, b), Committed(cast, h, c)
    PROVE  b = c
<1>1. PICK P \in Quorums : \A v \in P \ Byz : Vote(v, h, b) \in cast
  BY DEF Committed
<1>2. PICK Q \in Quorums : \A v \in Q \ Byz : Vote(v, h, c) \in cast
  BY DEF Committed
<1>3. PICK v \in Honest : v \in P /\ v \in Q
  BY DEF FinalityAssumption
<1>4. Vote(v, h, b) \in cast /\ Vote(v, h, c) \in cast
  BY <1>1, <1>2, <1>3 DEF Honest
<1>5. QED
  BY <1>4 DEF VoteOnce, Vote

\* Votes are never taken back, so a quorum of COMMITs stays one.
LEMMA CommittedMonotone ==
    ASSUME NEW old, NEW new, old \subseteq new, NEW h, NEW b, Committed(old, h, b)
    PROVE  Committed(new, h, b)
BY DEF Committed

\* Appending a committed block keeps a chain well formed and committed.
LEMMA AppendCommitted ==
    ASSUME Inv, cast \subseteq cast', NEW v \in Honest, NEW b \in Blocks,
           Committed(cast', Len(chain[v]) + 1, b),
           chain' = [chain EXCEPT ![v] = Append(@, b)]
    PROVE  (chain \in [Honest -> Seq(Blocks)])' /\ ChainCommitted'
<1> USE DEF Inv, TypeOK
<1>1. chain' \in [Honest -> Seq(Blocks)]
  OBVIOUS
<1>2. ASSUME NEW w \in Honest, NEW h \in 1 .. Len(chain'[w])
      PROVE  Committed(cast', h, chain'[w][h])
  <2>1. CASE w # v \/ h <= Len(chain[v])
    <3>1. chain'[w][h] = chain[w][h] /\ h \in 1 .. Len(chain[w])
      BY <2>1
    <3>2. Committed(cast, h, chain[w][h])
      BY <3>1 DEF ChainCommitted
    <3>3. QED
      BY <3>1, <3>2, CommittedMonotone
  <2>2. CASE w = v /\ h > Len(chain[v])
    <3>1. h = Len(chain[v]) + 1 /\ chain'[w][h] = b
      BY <2>2
    <3>2. QED
      BY <3>1
  <2>3. QED
    BY <2>1, <2>2
<1>3. QED
  BY <1>1, <1>2 DEF ChainCommitted

\* Inv is inductive.
LEMMA InvInductive == FinalityAssumption /\ Inv /\ [Next]_vars => Inv'
<1> SUFFICES ASSUME FinalityAssumption, Inv, [Next]_vars PROVE Inv'
  OBVIOUS
<1> USE DEF Inv
<1>1. CASE UNCHANGED vars
  BY <1>1 DEF vars, TypeOK, VoteOnce, ChainCommitted
<1>2. ASSUME NEW v \in Honest, Commit(v) PROVE Inv'
  <2>1. PICK h \in 1 .. MaxHeight, b \in Blocks :
            /\ MayVote(v, h, b)
            /\ cast' = cast \cup {Vote(v, h, b)}
            /\ chain' = chain \/ Extends(v, cast')
    BY <1>2 DEF Commit
  <2>2. cast' \subseteq Votes /\ cast \subseteq cast'
    BY <2>1 DEF FinalityAssumption, TypeOK, Votes, Vote
  <2>3. VoteOnce'
    <3> SUFFICES ASSUME NEW p \in cast', NEW q \in cast',
                        p.signer = q.signer, p.height = q.height
                 PROVE  p.block = q.block
      BY DEF VoteOnce
    <3>1. ASSUME NEW r \in cast, r.signer = v, r.height = h PROVE r.block = b
      <4>1. r = Vote(v, h, r.block) /\ r.block \in Blocks
        BY <3>1 DEF TypeOK, Votes, Vote
      <4>2. QED
        BY <2>1, <4>1 DEF MayVote
    <3>2. CASE p \in cast /\ q \in cast
      BY <3>2 DEF VoteOnce
    <3>3. CASE p = Vote(v, h, b) \/ q = Vote(v, h, b)
      BY <2>1, <3>1, <3>3 DEF Vote
    <3>4. QED
      BY <2>1, <3>2, <3>3
  <2>4. CASE chain' = chain
    <3>1. ChainCommitted'
      BY <2>2, <2>4, CommittedMonotone DEF ChainCommitted
    <3>2. QED
      BY <2>2, <2>3, <2>4, <3>1 DEF TypeOK
  <2>5. CASE Extends(v, cast')
    <3>1. PICK c \in Blocks : /\ Committed(cast', Len(chain[v]) + 1, c)
                              /\ chain' = [chain EXCEPT ![v] = Append(@, c)]
      BY <2>5 DEF Extends
    <3>2. (chain \in [Honest -> Seq(Blocks)])' /\ ChainCommitted'
      BY <2>2, <3>1, AppendCommitted
    <3>3. QED
      BY <2>2, <2>3, <3>2 DEF TypeOK
  <2>6. QED
    BY <2>1, <2>4, <2>5
<1>3. ASSUME NEW v \in Honest, Finalize(v) PROVE Inv'
  <2>1. PICK b \in Blocks : /\ Committed(cast, Len(chain[v]) + 1, b)
                            /\ chain' = [chain EXCEPT ![v] = Append(@, b)]
    BY <1>3 DEF Finalize, Extends
  <2>2. cast' = cast
    BY <1>3 DEF Finalize
  <2>3. (chain \in [Honest -> Seq(Blocks)])' /\ ChainCommitted'
    BY <2>1, <2>2, AppendCommitted
  <2>4. QED
    BY <2>2, <2>3 DEF TypeOK, VoteOnce
<1>4. ASSUME NEW v \in Honest, NEW w \in Honest, CatchUp(v, w) PROVE Inv'
  <2>1. /\ cast' = cast /\ Len(chain[v]) < Len(chain[w])
        /\ chain' = [chain EXCEPT ![v] = Append(@, chain[w][Len(chain[v]) + 1])]
    BY <1>4 DEF CatchUp, TypeOK
  <2>2. Len(chain[v]) + 1 \in 1 .. Len(chain[w])
    BY <2>1 DEF TypeOK
  <2>3. /\ chain[w][Len(chain[v]) + 1] \in Blocks
        /\ Committed(cast, Len(chain[v]) + 1, chain[w][Len(chain[v]) + 1])
    BY <2>2 DEF TypeOK, ChainCommitted
  <2>4. (chain \in [Honest -> Seq(Blocks)])' /\ ChainCommitted'
    BY <2>1, <2>3, AppendCommitted
  <2>5. QED
    BY <2>1, <2>4 DEF TypeOK, VoteOnce
<1>5. QED
  BY <1>1, <1>2, <1>3, <1>4 DEF Next

\* Before any vote Inv holds.
LEMMA InvInit == Init => Inv
BY DEF Init, Inv, TypeOK, VoteOnce, ChainCommitted

\* Type correctness, vote-once and committed chains hold throughout.
THEOREM InvAlways == FinalityAssumption => (Spec => []Inv)
<1> SUFFICES ASSUME FinalityAssumption PROVE Spec => []Inv
  OBVIOUS
<1>1. Init => Inv
  BY InvInit
<1>2. Inv /\ [Next]_vars => Inv'
  BY InvInductive
<1>3. QED
  BY <1>1, <1>2, PTL DEF Spec

\* Chains whose blocks are all committed agree, since a height commits once.
LEMMA InvImpliesAgreement == FinalityAssumption /\ Inv => Agreement
<1> SUFFICES ASSUME FinalityAssumption, Inv, NEW v \in Honest, NEW w \in Honest,
                    NEW h \in 1 .. Len(chain[v]), h <= Len(chain[w])
             PROVE  chain[v][h] = chain[w][h]
  BY DEF Agreement
<1>1. /\ h \in Nat /\ h \in 1 .. Len(chain[w])
      /\ chain[v][h] \in Blocks /\ chain[w][h] \in Blocks
  BY DEF Inv, TypeOK
<1>2. Committed(cast, h, chain[v][h]) /\ Committed(cast, h, chain[w][h])
  BY <1>1 DEF Inv, ChainCommitted
<1>3. QED
  BY <1>1, <1>2, CommittedUnique DEF Inv

\* No two honest validators ever hold different blocks at one height.
THEOREM AgreementAlways == FinalityAssumption => (Spec => []Agreement)
<1> SUFFICES ASSUME FinalityAssumption PROVE Spec => []Agreement
  OBVIOUS
<1>1. Spec => []Inv
  BY InvAlways
<1>2. Inv => Agreement
  BY InvImpliesAgreement
<1>3. QED
  BY <1>1, <1>2, PTL
=============================================================================
