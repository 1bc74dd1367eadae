---------------------------- MODULE LirCfgProofs ----------------------------
(***************************************************************************)
(* For every program, of any size and nesting, the graph the generator      *)
(* builds is well formed.  The lemmas follow the code: first the operations *)
(* on one block or edge (create_basic_block, emit_instruction,              *)
(* add_block_edge), then the emission patterns built from them, then one    *)
(* lemma per action.  Good(g0, g, B) is what a lowering carries along while *)
(* it works on a graph: g is well formed, the blocks B set aside for later  *)
(* are fresh, and the terminated blocks of g0 are as they were.             *)
(***************************************************************************)
EXTENDS LirCfg, TLAPS, FiniteSetTheorems

WellFormed(g) == CfgType(g) /\ Symmetric(g) /\ TargetsExist(g) /\ EndsBlocks(g)

Good(g0, g, B) == WellFormed(g) /\ Fresh(g, B) /\ Kept(g0, g)

InstOK(g, i) == i \in InstType /\ (i.op \in Branches => i.imm \in BlockIds(g))

\* Keeping terminated blocks is transitive.
LEMMA KeptTransitive ==
    ASSUME NEW g0, NEW g, NEW h, Kept(g0, g), Kept(g, h)
    PROVE  Kept(g0, h)
  BY DEF Kept

\* The elements, length and domain of Append.
LEMMA AppendFacts ==
    ASSUME NEW S, NEW s \in Seq(S), NEW x \in S
    PROVE  /\ Append(s, x) \in Seq(S)
           /\ Len(s) \in Nat /\ DOMAIN s = 1..Len(s)
           /\ Len(Append(s, x)) = Len(s) + 1
           /\ DOMAIN Append(s, x) = 1..(Len(s) + 1)
           /\ \A i \in 1..Len(s) : Append(s, x)[i] = s[i]
           /\ Append(s, x)[Len(s) + 1] = x
  OBVIOUS

\* Membership in an appended list of block ids.
LEMMA InAppend ==
    ASSUME NEW s \in Seq(Nat), NEW x \in Nat, NEW y
    PROVE  In(y, Append(s, x)) <=> (In(y, s) \/ y = x)
  BY AppendFacts DEF In

\* set_block changes one block and keeps the graph's type.
LEMMA SetBlockLemma ==
    ASSUME NEW g, CfgType(g), NEW b \in BlockIds(g), NEW block \in BlockType
    PROVE  LET h == set_block(g, b, block)
           IN  /\ h.n = g.n
               /\ h.cur = g.cur
               /\ BlockIds(h) = BlockIds(g)
               /\ CfgType(h)
               /\ h.blocks[b] = block
               /\ \A c \in BlockIds(g) \ {b} : h.blocks[c] = g.blocks[c]
  BY DEF set_block, Graph, CfgType, BlockIds

\* Each update of one field of a block keeps its type and other fields.
LEMMA BlockUpdates ==
    ASSUME NEW x \in BlockType
    PROVE  /\ \A i \in InstType : LET y == [x EXCEPT !.ins = Append(@, i)]
               IN  /\ y \in BlockType /\ y.ins = Append(x.ins, i)
                   /\ y.succ = x.succ /\ y.pred = x.pred /\ y.terminated = x.terminated
           /\ \A c \in Nat : LET y == [x EXCEPT !.succ = Append(@, c)]
               IN  /\ y \in BlockType /\ y.succ = Append(x.succ, c)
                   /\ y.ins = x.ins /\ y.pred = x.pred /\ y.terminated = x.terminated
           /\ \A c \in Nat : LET y == [x EXCEPT !.pred = Append(@, c)]
               IN  /\ y \in BlockType /\ y.pred = Append(x.pred, c)
                   /\ y.ins = x.ins /\ y.succ = x.succ /\ y.terminated = x.terminated
           /\ LET y == [x EXCEPT !.terminated = TRUE]
               IN  /\ y \in BlockType /\ y.terminated
                   /\ y.ins = x.ins /\ y.succ = x.succ /\ y.pred = x.pred
<1> DEFINE I == Seq(InstType)
<1>1. /\ x.ins \in I /\ x.succ \in Seq(Nat) /\ x.pred \in Seq(Nat)
      /\ x.terminated \in BOOLEAN
  BY DEF BlockType
<1>2. \A i \in InstType : Append(x.ins, i) \in I
  BY <1>1
<1>3. \A c \in Nat : Append(x.succ, c) \in Seq(Nat) /\ Append(x.pred, c) \in Seq(Nat)
  BY <1>1
<1>4. x \in [ins : I, succ : Seq(Nat), pred : Seq(Nat), terminated : BOOLEAN]
  BY DEF BlockType
<1> HIDE DEF I
<1> QED
  BY <1>2, <1>3, <1>4 DEF BlockType, I

\* create_basic_block: the new blocks are fresh and the old graph is kept.
LEMMA CreateGood ==
    ASSUME NEW g0, NEW g, NEW B, Good(g0, g, B), NEW k \in Nat
    PROVE  /\ Good(g0, create_blocks(g, k), B \cup (g.n..(g.n + k - 1)))
           /\ create_blocks(g, k).n = g.n + k
           /\ create_blocks(g, k).cur = g.cur
<1> DEFINE h == create_blocks(g, k)
<1>0. CfgType(g)
  BY DEF Good, WellFormed
<1>1. /\ h.n = g.n + k
      /\ h.cur = g.cur
      /\ h.blocks = [b \in 0..(g.n + k - 1) |-> IF b < g.n THEN g.blocks[b] ELSE NewBlock]
  BY DEF create_blocks, Graph
<1>2. NewBlock \in BlockType
  BY DEF NewBlock, BlockType
<1>3. CfgType(h)
  BY <1>0, <1>1, <1>2 DEF CfgType, BlockIds
<1>4. /\ BlockIds(h) = BlockIds(g) \cup (g.n..(g.n + k - 1))
      /\ BlockIds(g) \cap (g.n..(g.n + k - 1)) = {}
      /\ \A b \in BlockIds(g) : h.blocks[b] = g.blocks[b]
      /\ \A b \in g.n..(g.n + k - 1) : h.blocks[b] = NewBlock
  BY <1>0, <1>1 DEF CfgType, BlockIds
<1> HIDE DEF h
<1>5. /\ TargetsExist(h)
      /\ EndsBlocks(h)
  BY <1>4 DEF Good, WellFormed, TargetsExist, EndsBlocks, NewBlock
<1>6. Symmetric(h)
  <2> SUFFICES ASSUME NEW a \in BlockIds(h), NEW b \in BlockIds(h)
               PROVE  In(b, h.blocks[a].succ) <=> In(a, h.blocks[b].pred)
    BY DEF Symmetric
  <2>1. CASE a \in BlockIds(g) /\ b \in BlockIds(g)
    BY <1>4, <2>1 DEF Good, WellFormed, Symmetric
  <2>2. CASE a \notin BlockIds(g)
    BY <1>4, <2>2 DEF Good, WellFormed, TargetsExist, In, NewBlock
  <2>3. CASE b \notin BlockIds(g)
    BY <1>4, <2>3 DEF Good, WellFormed, TargetsExist, In, NewBlock
  <2> QED
    BY <2>1, <2>2, <2>3
<1>7. Fresh(h, B \cup (g.n..(g.n + k - 1)))
  <2> DEFINE N == g.n..(g.n + k - 1)
  <2> HIDE DEF N
  <2>1. \A b \in N : h.blocks[b].ins = <<>> /\ ~h.blocks[b].terminated
    BY <1>4 DEF NewBlock, N
  <2>2. \A b \in B : h.blocks[b].ins = <<>> /\ ~h.blocks[b].terminated
    BY <1>4 DEF Good, Fresh
  <2>3. (B \cup N) \subseteq BlockIds(h) \ {h.cur}
    BY <1>0, <1>1, <1>4 DEF Good, Fresh, CfgType, N
  <2>4. Fresh(h, B \cup N)
    BY <2>1, <2>2, <2>3 DEF Fresh
  <2> QED
    BY <2>4 DEF N
<1>8. Kept(g, h)
  BY <1>4 DEF Kept, has_terminator
<1> QED
  BY <1>1, <1>3, <1>5, <1>6, <1>7, <1>8, KeptTransitive DEF Good, WellFormed, h

\* set_current_block: only the block entered stops being reserved.
LEMMA SetCurrentGood ==
    ASSUME NEW g0, NEW g, NEW B, Good(g0, g, B), NEW b \in BlockIds(g)
    PROVE  /\ Good(g0, set_current_block(g, b), B \ {b})
           /\ set_current_block(g, b).n = g.n
           /\ set_current_block(g, b).cur = b
<1> DEFINE h == set_current_block(g, b)
<1>1. h.n = g.n /\ h.cur = b /\ h.blocks = g.blocks /\ BlockIds(h) = BlockIds(g)
  BY DEF set_current_block, Graph, BlockIds
<1> HIDE DEF h
<1>2. WellFormed(h)
  BY <1>1 DEF Good, WellFormed, CfgType, Symmetric, TargetsExist, EndsBlocks
<1>3. Fresh(h, B \ {b})
  BY <1>1 DEF Good, Fresh
<1>4. Kept(g0, h)
  BY <1>1 DEF Good, Kept, has_terminator
<1> QED
  BY <1>1, <1>2, <1>3, <1>4 DEF Good, h

\* Adding a block to no set of reserved blocks, marking one as terminated:
LEMMA MarkGood ==
    ASSUME NEW g0, NEW g, NEW B, Good(g0, g, B), NEW b \in BlockIds(g), b \notin B
    PROVE  /\ Good(g0, mark_terminated(g, b), B)
           /\ mark_terminated(g, b).n = g.n
           /\ mark_terminated(g, b).cur = g.cur
<1> DEFINE h == mark_terminated(g, b)
<1>0. CfgType(g)
  BY DEF Good, WellFormed
<1> DEFINE y == [g.blocks[b] EXCEPT !.terminated = TRUE]
<1>a. g.blocks[b] \in BlockType
  BY <1>0 DEF CfgType
<1>b. /\ y \in BlockType /\ y.terminated
      /\ y.ins = g.blocks[b].ins /\ y.succ = g.blocks[b].succ /\ y.pred = g.blocks[b].pred
  BY <1>a, BlockUpdates
<1>c. h = set_block(g, b, y)
  BY DEF mark_terminated
<1> HIDE DEF h, y
<1>1. /\ h.n = g.n /\ h.cur = g.cur /\ BlockIds(h) = BlockIds(g) /\ CfgType(h)
      /\ h.blocks[b] = y
      /\ \A c \in BlockIds(g) \ {b} : h.blocks[c] = g.blocks[c]
  BY <1>0, <1>b, <1>c, SetBlockLemma
<1>2. /\ \A c \in BlockIds(g) : /\ h.blocks[c].ins = g.blocks[c].ins
                                /\ h.blocks[c].succ = g.blocks[c].succ
                                /\ h.blocks[c].pred = g.blocks[c].pred
                                /\ c # b => h.blocks[c].terminated = g.blocks[c].terminated
      /\ h.blocks[b].terminated
  BY <1>1, <1>b
<1>3. WellFormed(h)
  BY <1>1, <1>2 DEF Good, WellFormed, Symmetric, TargetsExist, EndsBlocks
<1>4. Fresh(h, B)
  BY <1>1, <1>2 DEF Good, Fresh
<1>5. Kept(g, h)
  BY <1>1, <1>2 DEF Kept, has_terminator
<1> QED
  BY <1>1, <1>3, <1>4, <1>5, KeptTransitive DEF Good, h

\* An instruction added to a block without terminator keeps the graph good.
LEMMA AddInstructionGood ==
    ASSUME NEW g0, NEW g, NEW B, Good(g0, g, B), NEW i, InstOK(g, i),
           ~has_terminator(g, g.cur)
    PROVE  /\ Good(g0, add_instruction(g, i), B)
           /\ add_instruction(g, i).n = g.n
           /\ add_instruction(g, i).cur = g.cur
<1> DEFINE h == add_instruction(g, i)
<1>0. CfgType(g)
  BY DEF Good, WellFormed
<1> DEFINE x == g.blocks[g.cur]
           y == [x EXCEPT !.ins = Append(@, i)]
<1>a. x \in BlockType /\ g.cur \in BlockIds(g)
  BY <1>0 DEF CfgType
<1>b. /\ y \in BlockType /\ y.ins = Append(x.ins, i)
      /\ y.succ = x.succ /\ y.pred = x.pred /\ y.terminated = x.terminated
  BY <1>a, BlockUpdates DEF InstOK
<1>c. h = set_block(g, g.cur, y)
  BY DEF add_instruction
<1> HIDE DEF h, y
<1>1. /\ h.n = g.n /\ h.cur = g.cur /\ BlockIds(h) = BlockIds(g) /\ CfgType(h)
      /\ h.blocks[g.cur] = y
      /\ \A c \in BlockIds(g) \ {g.cur} : h.blocks[c] = g.blocks[c]
  BY <1>0, <1>a, <1>b, <1>c, SetBlockLemma
<1>2. /\ \A c \in BlockIds(g) : /\ h.blocks[c].succ = g.blocks[c].succ
                                /\ h.blocks[c].pred = g.blocks[c].pred
                                /\ h.blocks[c].terminated = g.blocks[c].terminated
                                /\ c # g.cur => h.blocks[c].ins = g.blocks[c].ins
      /\ h.blocks[g.cur].ins = Append(g.blocks[g.cur].ins, i)
  BY <1>1, <1>b
<1>3. g.blocks[g.cur].ins \in Seq(InstType) /\ g.cur \in BlockIds(g)
  BY <1>0 DEF CfgType, BlockType
<1>4. CfgType(h) /\ Symmetric(h)
  BY <1>1, <1>2 DEF Good, WellFormed, Symmetric
<1> DEFINE q == x.ins
           r == Append(q, i)
<1>3a. /\ Len(q) \in Nat /\ DOMAIN q = 1..Len(q)
       /\ DOMAIN r = 1..(Len(q) + 1) /\ Len(r) = Len(q) + 1
       /\ \A k \in 1..Len(q) : r[k] = q[k]
       /\ r[Len(q) + 1] = i
  <2>1. q \in Seq(InstType) /\ i \in InstType
    BY <1>3 DEF InstOK
  <2> HIDE DEF q
  <2> QED
    BY <2>1, AppendFacts
<1>3b. h.blocks[g.cur].ins = r /\ g.blocks[g.cur].ins = q
  BY <1>2
<1> HIDE DEF q, r, x
<1>5. TargetsExist(h)
  <2> SUFFICES ASSUME NEW b \in BlockIds(g)
               PROVE  /\ \A k \in DOMAIN h.blocks[b].ins :
                            h.blocks[b].ins[k].op \in Branches =>
                                h.blocks[b].ins[k].imm \in BlockIds(g)
                      /\ \A k \in DOMAIN h.blocks[b].succ : h.blocks[b].succ[k] \in BlockIds(g)
                      /\ \A k \in DOMAIN h.blocks[b].pred : h.blocks[b].pred[k] \in BlockIds(g)
    BY <1>1 DEF TargetsExist
  <2>1. CASE b = g.cur
    <3>1. \A k \in 1..Len(q) : q[k].op \in Branches => q[k].imm \in BlockIds(g)
      BY <1>3, <1>3a, <1>3b DEF Good, WellFormed, TargetsExist
    <3>2. \A k \in DOMAIN r : r[k].op \in Branches => r[k].imm \in BlockIds(g)
      BY <1>3a, <3>1 DEF InstOK
    <3> QED
      BY <1>2, <1>3b, <2>1, <3>2 DEF Good, WellFormed, TargetsExist
  <2>2. CASE b # g.cur
    BY <1>2, <2>2 DEF Good, WellFormed, TargetsExist
  <2> QED
    BY <2>1, <2>2
<1>6. EndsBlocks(h)
  <2> SUFFICES ASSUME NEW b \in BlockIds(g), NEW k \in DOMAIN h.blocks[b].ins,
                      h.blocks[b].ins[k].op \in Terminators
               PROVE  k = Len(h.blocks[b].ins)
    BY <1>1 DEF EndsBlocks
  <2>1. CASE b = g.cur
    <3>1. \A j \in 1..Len(q) : q[j].op \notin Terminators
      <4> SUFFICES ASSUME NEW j \in 1..Len(q), q[j].op \in Terminators
                   PROVE  FALSE
        OBVIOUS
      <4>1. j = Len(q)
        BY <1>3, <1>3a, <1>3b DEF Good, WellFormed, EndsBlocks
      <4>2. q # <<>>
        BY <1>3a
      <4> QED
        BY <1>3a, <1>3b, <4>1, <4>2 DEF has_terminator
    <3>2. k \in 1..(Len(q) + 1) /\ r[k].op \in Terminators
      BY <1>3a, <1>3b, <2>1
    <3>3. k = Len(q) + 1
      BY <1>3a, <3>1, <3>2
    <3> QED
      BY <1>3a, <1>3b, <2>1, <3>3
  <2>2. CASE b # g.cur
    BY <1>2, <2>2 DEF Good, WellFormed, EndsBlocks
  <2> QED
    BY <2>1, <2>2
<1>7. Fresh(h, B)
  BY <1>1, <1>2 DEF Good, Fresh
<1>8. Kept(g, h)
  BY <1>1, <1>2 DEF Kept, has_terminator
<1> QED
  BY <1>1, <1>4, <1>5, <1>6, <1>7, <1>8, KeptTransitive DEF Good, WellFormed, h

\* emit_instruction keeps the graph good, whether or not it opens a new block.
LEMMA EmitGood ==
    ASSUME NEW g0, NEW g, NEW B, Good(g0, g, B), NEW i, InstOK(g, i)
    PROVE  /\ Good(g0, emit_instruction(g, i), B)
           /\ emit_instruction(g, i).n \in Nat
           /\ emit_instruction(g, i).n >= g.n
<1>0. CfgType(g)
  BY DEF Good, WellFormed
<1>1. CASE has_terminator(g, g.cur)
  <2> DEFINE c == create_blocks(g, 1)
             s == set_current_block(c, g.n)
  <2>1. Good(g0, c, B \cup (g.n..g.n)) /\ c.n = g.n + 1
    BY <1>0, CreateGood DEF CfgType
  <2>2. Good(g0, s, (B \cup (g.n..g.n)) \ {g.n}) /\ s.n = g.n + 1 /\ s.cur = g.n
    <3>1. g.n \in BlockIds(c)
      BY <1>0, <2>1 DEF CfgType, BlockIds
    <3> HIDE DEF c
    <3> QED
      BY <2>1, <3>1, SetCurrentGood
  <2>3. (B \cup (g.n..g.n)) \ {g.n} = B
    BY <1>0 DEF Good, Fresh, CfgType, BlockIds
  <2>4. ~has_terminator(s, s.cur)
    BY <1>0 DEF CfgType, create_blocks, set_current_block, Graph, has_terminator, NewBlock
  <2>5. InstOK(s, i)
    BY <1>0, <2>2 DEF InstOK, BlockIds, CfgType
  <2> HIDE DEF c, s
  <2>6. Good(g0, add_instruction(s, i), B) /\ add_instruction(s, i).n = g.n + 1
    BY <2>2, <2>3, <2>4, <2>5, AddInstructionGood
  <2> QED
    BY <1>0, <1>1, <2>6 DEF emit_instruction, CfgType, c, s
<1>2. CASE ~has_terminator(g, g.cur)
  BY <1>0, <1>2, AddInstructionGood DEF emit_instruction, CfgType
<1> QED
  BY <1>1, <1>2

\* add_block_edge keeps both directions of every edge in step.
LEMMA AddEdgeGood ==
    ASSUME NEW g0, NEW g, NEW B, Good(g0, g, B),
           NEW from \in BlockIds(g), NEW to \in BlockIds(g)
    PROVE  /\ Good(g0, add_block_edge(g, from, to), B)
           /\ add_block_edge(g, from, to).n = g.n
           /\ add_block_edge(g, from, to).cur = g.cur
<1> DEFINE s == add_successor(g, from, to)
           h == add_block_edge(g, from, to)
           x == [g.blocks[from] EXCEPT !.succ = Append(@, to)]
           y == [s.blocks[to] EXCEPT !.pred = Append(@, from)]
<1>0. CfgType(g) /\ from \in Nat /\ to \in Nat
  BY DEF Good, WellFormed, BlockIds
<1>1. /\ x \in BlockType /\ x.succ = Append(g.blocks[from].succ, to)
      /\ x.ins = g.blocks[from].ins /\ x.pred = g.blocks[from].pred
      /\ x.terminated = g.blocks[from].terminated
  <2>1. g.blocks[from] \in BlockType
    BY <1>0 DEF CfgType
  <2> QED
    BY <1>0, <2>1, BlockUpdates
<1>2. s = set_block(g, from, x)
  BY DEF add_successor
<1> HIDE DEF s, x
<1>3. /\ s.n = g.n /\ s.cur = g.cur /\ BlockIds(s) = BlockIds(g) /\ CfgType(s)
      /\ \A c \in BlockIds(g) : /\ s.blocks[c].ins = g.blocks[c].ins
                                /\ s.blocks[c].pred = g.blocks[c].pred
                                /\ s.blocks[c].terminated = g.blocks[c].terminated
                                /\ s.blocks[c].succ = IF c = from THEN Append(g.blocks[c].succ, to)
                                                      ELSE g.blocks[c].succ
  <2>1. /\ s.n = g.n /\ s.cur = g.cur /\ BlockIds(s) = BlockIds(g) /\ CfgType(s)
        /\ s.blocks[from] = x
        /\ \A c \in BlockIds(g) \ {from} : s.blocks[c] = g.blocks[c]
    BY <1>0, <1>1, <1>2, SetBlockLemma
  <2> QED
    BY <1>1, <2>1
<1>3a. /\ y \in BlockType /\ y.pred = Append(s.blocks[to].pred, from)
       /\ y.ins = s.blocks[to].ins /\ y.succ = s.blocks[to].succ
       /\ y.terminated = s.blocks[to].terminated
  <2>1. s.blocks[to] \in BlockType
    BY <1>3 DEF CfgType
  <2> QED
    BY <1>0, <2>1, BlockUpdates
<1>3b. h = set_block(s, to, y)
  BY DEF add_block_edge, add_predecessor, s
<1> HIDE DEF h, y
<1>4. /\ h.n = g.n /\ h.cur = g.cur /\ BlockIds(h) = BlockIds(g) /\ CfgType(h)
      /\ \A c \in BlockIds(g) : /\ h.blocks[c].ins = g.blocks[c].ins
                                /\ h.blocks[c].terminated = g.blocks[c].terminated
                                /\ h.blocks[c].succ = s.blocks[c].succ
                                /\ h.blocks[c].pred = IF c = to THEN Append(g.blocks[c].pred, from)
                                                      ELSE g.blocks[c].pred
  <2>1. /\ h.n = s.n /\ h.cur = s.cur /\ BlockIds(h) = BlockIds(s) /\ CfgType(h)
        /\ h.blocks[to] = y
        /\ \A c \in BlockIds(s) \ {to} : h.blocks[c] = s.blocks[c]
    BY <1>3, <1>3a, <1>3b, SetBlockLemma
  <2> QED
    BY <1>3, <1>3a, <2>1
<1>5. \A c \in BlockIds(g) : g.blocks[c].succ \in Seq(Nat) /\ g.blocks[c].pred \in Seq(Nat)
  BY <1>0 DEF CfgType, BlockType
<1>6. CfgType(h) /\ EndsBlocks(h)
  BY <1>4 DEF Good, WellFormed, EndsBlocks
<1>7. TargetsExist(h)
  <2> SUFFICES ASSUME NEW b \in BlockIds(g)
               PROVE  /\ \A k \in DOMAIN h.blocks[b].succ : h.blocks[b].succ[k] \in BlockIds(g)
                      /\ \A k \in DOMAIN h.blocks[b].pred : h.blocks[b].pred[k] \in BlockIds(g)
    BY <1>4 DEF Good, WellFormed, TargetsExist
  <2>1. /\ \A k \in DOMAIN g.blocks[b].succ : g.blocks[b].succ[k] \in BlockIds(g)
        /\ \A k \in DOMAIN g.blocks[b].pred : g.blocks[b].pred[k] \in BlockIds(g)
    BY DEF Good, WellFormed, TargetsExist
  <2>2. \A k \in DOMAIN h.blocks[b].succ : h.blocks[b].succ[k] \in BlockIds(g)
    <3>1. CASE b = from
      <4> DEFINE q == g.blocks[b].succ
      <4>1. q \in Seq(Nat) /\ to \in Nat /\ h.blocks[b].succ = Append(q, to)
        BY <1>0, <1>3, <1>4, <1>5, <3>1
      <4>2. \A k \in DOMAIN q : q[k] \in BlockIds(g)
        BY <2>1
      <4> HIDE DEF q
      <4>3. \A k \in DOMAIN Append(q, to) : Append(q, to)[k] \in BlockIds(g)
        BY <4>1, <4>2, AppendFacts
      <4> QED
        BY <4>1, <4>3
    <3> QED
      BY <1>3, <1>4, <2>1, <3>1
  <2>3. \A k \in DOMAIN h.blocks[b].pred : h.blocks[b].pred[k] \in BlockIds(g)
    <3>1. CASE b = to
      <4> DEFINE q == g.blocks[b].pred
      <4>1. q \in Seq(Nat) /\ from \in Nat /\ h.blocks[b].pred = Append(q, from)
        BY <1>0, <1>4, <1>5, <3>1
      <4>2. \A k \in DOMAIN q : q[k] \in BlockIds(g)
        BY <2>1
      <4> HIDE DEF q
      <4>3. \A k \in DOMAIN Append(q, from) : Append(q, from)[k] \in BlockIds(g)
        BY <4>1, <4>2, AppendFacts
      <4> QED
        BY <4>1, <4>3
    <3> QED
      BY <1>4, <2>1, <3>1
  <2> QED
    BY <2>2, <2>3
<1>8. Symmetric(h)
  <2> SUFFICES ASSUME NEW a \in BlockIds(g), NEW b \in BlockIds(g)
               PROVE  In(b, h.blocks[a].succ) <=> In(a, h.blocks[b].pred)
    BY <1>4 DEF Symmetric
  <2>1. In(b, h.blocks[a].succ) <=> (In(b, g.blocks[a].succ) \/ (a = from /\ b = to))
    BY <1>0, <1>3, <1>4, <1>5, InAppend
  <2>2. In(a, h.blocks[b].pred) <=> (In(a, g.blocks[b].pred) \/ (a = from /\ b = to))
    BY <1>0, <1>3, <1>4, <1>5, InAppend
  <2> QED
    BY <2>1, <2>2 DEF Good, WellFormed, Symmetric
<1>9. Fresh(h, B) /\ Kept(g0, h)
  BY <1>4 DEF Good, Fresh, Kept, has_terminator
<1> QED
  BY <1>4, <1>6, <1>7, <1>8, <1>9 DEF Good, WellFormed, h

\* What a good graph says of its current and its reserved blocks.
LEMMA GoodFacts ==
    ASSUME NEW g0, NEW g, NEW B, Good(g0, g, B)
    PROVE  /\ g.n \in Nat /\ g.cur \in BlockIds(g) /\ BlockIds(g) = 0..(g.n - 1)
           /\ B \subseteq BlockIds(g) /\ g.cur \notin B
  BY DEF Good, WellFormed, CfgType, Fresh, BlockIds

\* Fewer reserved blocks are still fresh.
LEMMA GoodSubset ==
    ASSUME NEW g0, NEW g, NEW B, Good(g0, g, B), NEW C \in SUBSET B
    PROVE  Good(g0, g, C)
  BY DEF Good, Fresh

\* An instruction built by Inst is well typed if its target exists.
LEMMA InstTyped ==
    ASSUME NEW g, NEW op \in Opcodes, NEW a \in Nat, NEW imm \in Nat,
           NEW e \in Nat \X Parts, op \in Branches => imm \in BlockIds(g)
    PROVE  InstOK(g, Inst(op, a, imm, e))
  BY DEF InstOK, InstType, Inst

\* A Jump to an existing block is a good instruction.
LEMMA Jumps ==
    ASSUME NEW g, NEW t \in BlockIds(g)
    PROVE  InstOK(g, Jump(t))
<1>1. Silent \in Nat \X Parts
  BY DEF Silent, Parts
<1>2. "Jump" \in Opcodes /\ t \in Nat
  BY DEF Opcodes, BlockIds
<1> QED
  BY <1>1, <1>2, InstTyped DEF Jump

\* So are the other instructions the lowerings emit.
LEMMA Instructions ==
    ASSUME NEW g, NEW p \in Nat, NEW s \in Parts
    PROVE  /\ InstOK(g, Op(<<p, s>>))
           /\ InstOK(g, Return(<<p, s>>))
           /\ InstOK(g, Return(Silent))
           /\ \A t \in BlockIds(g) : /\ InstOK(g, JumpIf(p, t, <<p, s>>))
                                     /\ InstOK(g, JumpIfFalse(p, t, <<p, s>>))
<1>1. <<p, s>> \in Nat \X Parts /\ Silent \in Nat \X Parts
  BY DEF Silent, Parts
<1>2. /\ {"Op", "Return", "JumpIf", "JumpIfFalse"} \subseteq Opcodes
      /\ "Op" \notin Branches /\ "Return" \notin Branches
  BY DEF Opcodes, Branches
<1>3. BlockIds(g) \subseteq Nat
  BY DEF BlockIds
<1>4. InstOK(g, Op(<<p, s>>)) /\ InstOK(g, Return(<<p, s>>)) /\ InstOK(g, Return(Silent))
  BY <1>1, <1>2, InstTyped DEF Op, Return
<1> HIDE DEF Silent
<1>5. ASSUME NEW t \in BlockIds(g)
      PROVE  InstOK(g, JumpIf(p, t, <<p, s>>)) /\ InstOK(g, JumpIfFalse(p, t, <<p, s>>))
  BY <1>1, <1>2, <1>3, <1>5, InstTyped DEF JumpIf, JumpIfFalse
<1> QED
  BY <1>4, <1>5

\* A step of the lowering from g to h: h has at least the blocks of g.
LEMMA EmitStep ==
    ASSUME NEW g0, NEW g, NEW B, Good(g0, g, B), NEW i, InstOK(g, i)
    PROVE  /\ Good(g0, emit_instruction(g, i), B)
           /\ BlockIds(g) \subseteq BlockIds(emit_instruction(g, i))
           /\ emit_instruction(g, i).n >= g.n
           /\ emit_instruction(g, i).cur \in BlockIds(emit_instruction(g, i))
<1>1. /\ Good(g0, emit_instruction(g, i), B)
      /\ emit_instruction(g, i).n \in Nat
      /\ emit_instruction(g, i).n >= g.n
  BY EmitGood
<1>2. g.n \in Nat
  BY GoodFacts
<1>3. emit_instruction(g, i).cur \in BlockIds(emit_instruction(g, i))
  BY <1>1, GoodFacts
<1> QED
  BY <1>1, <1>2, <1>3 DEF BlockIds

\* AddEdgeGood, with the block ids.
LEMMA EdgeStep ==
    ASSUME NEW g0, NEW g, NEW B, Good(g0, g, B),
           NEW from \in BlockIds(g), NEW to \in BlockIds(g)
    PROVE  /\ Good(g0, add_block_edge(g, from, to), B)
           /\ BlockIds(add_block_edge(g, from, to)) = BlockIds(g)
           /\ add_block_edge(g, from, to).n = g.n
           /\ add_block_edge(g, from, to).cur = g.cur
  BY AddEdgeGood DEF BlockIds

\* The two edges of a conditional branch.
LEMMA TwoEdges ==
    ASSUME NEW g0, NEW g, NEW B, Good(g0, g, B),
           NEW from \in BlockIds(g), NEW a \in BlockIds(g), NEW b \in BlockIds(g)
    PROVE  LET h == add_block_edge(add_block_edge(g, from, a), from, b)
           IN  Good(g0, h, B) /\ BlockIds(h) = BlockIds(g)
<1> DEFINE e == add_block_edge(g, from, a)
<1>1. Good(g0, e, B) /\ BlockIds(e) = BlockIds(g)
  BY EdgeStep
<1> HIDE DEF e
<1>2. Good(g0, add_block_edge(e, from, b), B) /\ BlockIds(add_block_edge(e, from, b)) = BlockIds(g)
  BY <1>1, EdgeStep
<1> QED
  BY <1>2 DEF e

\* A jump whose edge is recorded from a given block.
LEMMA JumpEdgeStep ==
    ASSUME NEW g0, NEW g, NEW B, Good(g0, g, B),
           NEW from \in BlockIds(g), NEW t \in BlockIds(g)
    PROVE  /\ Good(g0, jump_edge_from(g, from, t), B)
           /\ BlockIds(g) \subseteq BlockIds(jump_edge_from(g, from, t))
           /\ jump_edge_from(g, from, t).n >= g.n
<1> DEFINE h == emit_instruction(g, Jump(t))
<1>1. InstOK(g, Jump(t))
  BY Jumps
<1>2. Good(g0, h, B) /\ BlockIds(g) \subseteq BlockIds(h) /\ h.n >= g.n
  BY <1>1, EmitStep
<1> HIDE DEF h
<1>3. /\ Good(g0, add_block_edge(h, from, t), B)
      /\ BlockIds(add_block_edge(h, from, t)) = BlockIds(h)
      /\ add_block_edge(h, from, t).n = h.n
  BY <1>2, EdgeStep
<1> QED
  BY <1>2, <1>3 DEF jump_edge_from, h

\* A jump with its edge, unconditional or left out after a terminator.
LEMMA JumpStep ==
    ASSUME NEW g0, NEW g, NEW B, Good(g0, g, B), NEW t \in BlockIds(g)
    PROVE  /\ Good(g0, jump_to(g, t), B)
           /\ BlockIds(g) \subseteq BlockIds(jump_to(g, t))
           /\ jump_to(g, t).n >= g.n
           /\ Good(g0, jump_unless_terminated(g, t), B)
           /\ BlockIds(g) \subseteq BlockIds(jump_unless_terminated(g, t))
           /\ jump_unless_terminated(g, t).n >= g.n
           /\ Good(g0, leave_body(g, t), B)
           /\ BlockIds(g) \subseteq BlockIds(leave_body(g, t))
<1> DEFINE h == emit_instruction(g, Jump(t))
           j == add_block_edge(h, h.cur, t)
<1>1. InstOK(g, Jump(t))
  BY Jumps
<1>2. /\ Good(g0, h, B) /\ BlockIds(g) \subseteq BlockIds(h) /\ h.n >= g.n
      /\ h.cur \in BlockIds(h)
  BY <1>1, EmitStep
<1>3. jump_to(g, t) = j
  BY DEF jump_to
<1> HIDE DEF h
<1>4. Good(g0, j, B) /\ BlockIds(j) = BlockIds(h) /\ j.n = h.n
  BY <1>2, EdgeStep
<1> HIDE DEF j
<1>5. j.cur \in BlockIds(j) /\ j.cur \notin B /\ g.n \in Nat
  BY <1>4, GoodFacts
<1>6. Good(g0, mark_terminated(j, j.cur), B) /\ mark_terminated(j, j.cur).n = j.n
  BY <1>4, <1>5, MarkGood
<1>7. /\ Good(g0, leave_body(g, t), B)
      /\ BlockIds(g) \subseteq BlockIds(leave_body(g, t))
  BY <1>2, <1>3, <1>4, <1>6 DEF leave_body, BlockIds
<1> QED
  BY <1>2, <1>3, <1>4, <1>5, <1>7 DEF jump_unless_terminated

\* The back edge of a loop.
LEMMA BackEdgeStep ==
    ASSUME NEW g0, NEW g, NEW B, Good(g0, g, B),
           NEW from \in BlockIds(g), NEW t \in BlockIds(g)
    PROVE  /\ Good(g0, back_edge(g, from, t), B)
           /\ BlockIds(g) \subseteq BlockIds(back_edge(g, from, t))
  BY JumpEdgeStep DEF back_edge

\* Entering a block, and marking it if it has a terminator.
LEMMA SetStep ==
    ASSUME NEW g0, NEW g, NEW B, Good(g0, g, B), NEW b \in BlockIds(g)
    PROVE  /\ Good(g0, set_current_block(g, b), B \ {b})
           /\ BlockIds(set_current_block(g, b)) = BlockIds(g)
           /\ set_current_block(g, b).n = g.n
           /\ Good(g0, mark_if_terminated(set_current_block(g, b), b), B \ {b})
           /\ BlockIds(mark_if_terminated(set_current_block(g, b), b)) = BlockIds(g)
<1> DEFINE h == set_current_block(g, b)
<1>1. Good(g0, h, B \ {b}) /\ h.n = g.n /\ BlockIds(h) = BlockIds(g)
  BY SetCurrentGood DEF BlockIds
<1> HIDE DEF h
<1>2. Good(g0, mark_terminated(h, b), B \ {b}) /\ mark_terminated(h, b).n = h.n
  BY <1>1, MarkGood
<1> QED
  BY <1>1, <1>2 DEF mark_if_terminated, BlockIds, h

\* CreateGood, with the block ids.
LEMMA CreateStep ==
    ASSUME NEW g0, NEW g, NEW B, Good(g0, g, B), NEW k \in Nat
    PROVE  /\ Good(g0, create_blocks(g, k), B \cup (g.n..(g.n + k - 1)))
           /\ Good(g0, create_blocks(g, k), B)
           /\ create_blocks(g, k).n = g.n + k
           /\ create_blocks(g, k).cur = g.cur
           /\ BlockIds(create_blocks(g, k)) = 0..(g.n + k - 1)
           /\ BlockIds(g) \subseteq BlockIds(create_blocks(g, k))
           /\ g.n \in Nat
           /\ g.n..(g.n + k - 1) \subseteq BlockIds(create_blocks(g, k))
           /\ \A b \in g.n..(g.n + k - 1) : b \notin B
<1>1. /\ Good(g0, create_blocks(g, k), B \cup (g.n..(g.n + k - 1)))
      /\ create_blocks(g, k).n = g.n + k
      /\ create_blocks(g, k).cur = g.cur
  BY CreateGood
<1>2. Good(g0, create_blocks(g, k), B)
  BY <1>1, GoodSubset
<1>3. g.n \in Nat /\ B \subseteq 0..(g.n - 1)
  BY GoodFacts
<1> QED
  BY <1>1, <1>2, <1>3 DEF BlockIds

\* The lowering of "?" keeps the graph and the reserved blocks good.
LEMMA QuestionStep ==
    ASSUME NEW g0, NEW g, NEW B, Good(g0, g, B), NEW p \in Nat
    PROVE  /\ Good(g0, emit_question(g, p), B)
           /\ BlockIds(g) \subseteq BlockIds(emit_question(g, p))
<1> DEFINE g1 == emit_instruction(g, Op(<<p, "call">>))
           error == g1.n
           success == g1.n + 1
           c == create_blocks(g1, 2)
           g2 == emit_instruction(c, JumpIf(p, error, <<p, "try">>))
           g3 == emit_instruction(g2, Jump(success))
           e1 == add_block_edge(g3, g3.cur, error)
           g4 == add_block_edge(e1, g3.cur, success)
           s4 == set_current_block(g4, success)
           g5 == emit_instruction(s4, Op(<<p, "unwrap">>))
           s5 == set_current_block(g5, error)
           g6 == emit_instruction(s5, Return(<<p, "propagate">>))
           m6 == mark_terminated(g6, error)
           g7 == set_current_block(m6, success)
<1>0. emit_question(g, p) = g7
  BY DEF emit_question
<1>p. {"call", "try", "unwrap", "propagate"} \subseteq Parts
  BY DEF Parts
<1>1. Good(g0, g1, B) /\ BlockIds(g) \subseteq BlockIds(g1)
  BY <1>p, EmitStep, Instructions
<1> HIDE DEF g1
<1>2. /\ Good(g0, c, B) /\ BlockIds(g1) \subseteq BlockIds(c)
      /\ error \in BlockIds(c) /\ success \in BlockIds(c)
      /\ error \notin B /\ success \notin B
  <2>1. /\ Good(g0, c, B) /\ BlockIds(g1) \subseteq BlockIds(c)
        /\ g1.n \in Nat /\ g1.n..(g1.n + 2 - 1) \subseteq BlockIds(c)
        /\ \A b \in g1.n..(g1.n + 2 - 1) : b \notin B
    <3>1. Good(g0, g1, B) /\ 2 \in Nat
      BY <1>1
    <3> QED
      BY <3>1, CreateStep
  <2>2. error \in g1.n..(g1.n + 2 - 1) /\ success \in g1.n..(g1.n + 2 - 1)
    BY <2>1
  <2> QED
    BY <2>1, <2>2
<1> HIDE DEF c, error, success
<1>3. Good(g0, g2, B) /\ BlockIds(c) \subseteq BlockIds(g2)
  BY <1>p, <1>2, EmitStep, Instructions
<1> HIDE DEF g2
<1>4. Good(g0, g3, B) /\ BlockIds(g2) \subseteq BlockIds(g3) /\ g3.cur \in BlockIds(g3)
  BY <1>2, <1>3, EmitStep, Jumps
<1> HIDE DEF g3
<1>5. Good(g0, e1, B) /\ BlockIds(e1) = BlockIds(g3)
  BY <1>2, <1>3, <1>4, EdgeStep
<1> HIDE DEF e1
<1>6. Good(g0, g4, B) /\ BlockIds(g4) = BlockIds(g3)
  BY <1>2, <1>3, <1>4, <1>5, EdgeStep
<1> HIDE DEF g4
<1>7. Good(g0, s4, B \ {success}) /\ BlockIds(s4) = BlockIds(g3)
  BY <1>2, <1>3, <1>4, <1>6, SetStep
<1>7a. B \ {success} = B /\ B \ {error} = B
  BY <1>2
<1> HIDE DEF s4
<1>8. Good(g0, g5, B) /\ BlockIds(s4) \subseteq BlockIds(g5)
  BY <1>p, <1>7, <1>7a, EmitStep, Instructions
<1> HIDE DEF g5
<1>9. Good(g0, s5, B) /\ BlockIds(s5) = BlockIds(g5)
  BY <1>2, <1>3, <1>4, <1>7, <1>7a, <1>8, SetStep
<1> HIDE DEF s5
<1>10. Good(g0, g6, B) /\ BlockIds(s5) \subseteq BlockIds(g6)
  BY <1>p, <1>9, EmitStep, Instructions
<1> HIDE DEF g6
<1>11. Good(g0, m6, B) /\ BlockIds(m6) = BlockIds(g6)
  <2>1. error \in BlockIds(g6)
    BY <1>2, <1>3, <1>4, <1>7, <1>8, <1>9, <1>10
  <2> QED
    BY <1>2, <1>10, <2>1, MarkGood DEF BlockIds
<1> HIDE DEF m6
<1>12. Good(g0, g7, B) /\ BlockIds(g7) = BlockIds(m6)
  <2>1. success \in BlockIds(m6)
    BY <1>2, <1>3, <1>4, <1>7, <1>8, <1>9, <1>10, <1>11
  <2> QED
    BY <1>7a, <1>11, <2>1, SetStep
<1> QED
  BY <1>0, <1>1, <1>2, <1>3, <1>4, <1>7, <1>8, <1>9, <1>10, <1>11, <1>12

\* So does the lowering of "and" and "or".
LEMMA ShortCircuitStep ==
    ASSUME NEW g0, NEW g, NEW B, Good(g0, g, B), NEW p \in Nat, NEW c
    PROVE  /\ Good(g0, emit_short_circuit(g, p, c), B)
           /\ BlockIds(g) \subseteq BlockIds(emit_short_circuit(g, p, c))
<1> DEFINE right == g.n
           end == g.n + 1
           d == create_blocks(g, 2)
           i == IF c = "and" THEN JumpIfFalse(p, end, <<p, "left">>)
                             ELSE JumpIf(p, end, <<p, "left">>)
           g1 == emit_instruction(d, i)
           e1 == add_block_edge(g1, g1.cur, right)
           g2 == add_block_edge(e1, g1.cur, end)
           s2 == set_current_block(g2, right)
           g3 == emit_instruction(s2, Op(<<p, "right">>))
           g4 == jump_unless_terminated(g3, end)
           g5 == set_current_block(g4, end)
<1>0. emit_short_circuit(g, p, c) = g5
  BY DEF emit_short_circuit
<1>p. {"left", "right"} \subseteq Parts
  BY DEF Parts
<1>1. /\ Good(g0, d, B) /\ BlockIds(g) \subseteq BlockIds(d)
      /\ right \in BlockIds(d) /\ end \in BlockIds(d)
      /\ right \notin B /\ end \notin B
  <2>1. /\ Good(g0, d, B) /\ BlockIds(g) \subseteq BlockIds(d)
        /\ g.n \in Nat /\ g.n..(g.n + 2 - 1) \subseteq BlockIds(d)
        /\ \A b \in g.n..(g.n + 2 - 1) : b \notin B
    BY CreateStep
  <2>2. right \in g.n..(g.n + 2 - 1) /\ end \in g.n..(g.n + 2 - 1)
    BY <2>1
  <2> QED
    BY <2>1, <2>2
<1> HIDE DEF d, right, end
<1>2. InstOK(d, i)
  BY <1>p, <1>1, Instructions
<1> HIDE DEF i
<1>3. Good(g0, g1, B) /\ BlockIds(d) \subseteq BlockIds(g1) /\ g1.cur \in BlockIds(g1)
  BY <1>1, <1>2, EmitStep
<1> HIDE DEF g1
<1>4. Good(g0, e1, B) /\ BlockIds(e1) = BlockIds(g1)
  BY <1>1, <1>3, EdgeStep
<1> HIDE DEF e1
<1>5. Good(g0, g2, B) /\ BlockIds(g2) = BlockIds(g1)
  BY <1>1, <1>3, <1>4, EdgeStep
<1> HIDE DEF g2
<1>5a. B \ {right} = B /\ B \ {end} = B
  BY <1>1
<1>6. Good(g0, s2, B) /\ BlockIds(s2) = BlockIds(g1)
  BY <1>1, <1>3, <1>5, <1>5a, SetStep
<1> HIDE DEF s2
<1>7. Good(g0, g3, B) /\ BlockIds(s2) \subseteq BlockIds(g3)
  BY <1>p, <1>6, EmitStep, Instructions
<1> HIDE DEF g3
<1>8. Good(g0, g4, B) /\ BlockIds(g3) \subseteq BlockIds(g4)
  <2>1. end \in BlockIds(g3)
    BY <1>1, <1>3, <1>6, <1>7
  <2> QED
    BY <1>7, <2>1, JumpStep
<1> HIDE DEF g4
<1>9. Good(g0, g5, B) /\ BlockIds(g5) = BlockIds(g4)
  <2>1. end \in BlockIds(g4)
    BY <1>1, <1>3, <1>6, <1>7, <1>8
  <2> QED
    BY <1>5a, <1>8, <2>1, SetStep
<1> QED
  BY <1>0, <1>1, <1>3, <1>6, <1>7, <1>8, <1>9

\* So does the lowering of any condition.
LEMMA ConditionStep ==
    ASSUME NEW g0, NEW g, NEW B, Good(g0, g, B), NEW p \in Nat, NEW c
    PROVE  /\ Good(g0, emit_condition(g, p, c), B)
           /\ BlockIds(g) \subseteq BlockIds(emit_condition(g, p, c))
<1>1. CASE c = "plain"
  BY <1>1 DEF emit_condition
<1>2. CASE c = "try"
  BY <1>2, QuestionStep DEF emit_condition
<1>3. CASE c # "plain" /\ c # "try"
  BY <1>3, ShortCircuitStep DEF emit_condition
<1> QED
  BY <1>1, <1>2, <1>3

\* a condition, the branch to "no" and the two edges from block "from"
LEMMA LoopTestStep ==
    ASSUME NEW g0, NEW g, NEW B, Good(g0, g, B), NEW p \in Nat, NEW c,
           NEW header \in BlockIds(g), NEW body \in BlockIds(g), NEW exit \in BlockIds(g)
    PROVE  /\ Good(g0, emit_loop_test(g, p, c, header, body, exit), B \ {header, body})
           /\ BlockIds(g) \subseteq BlockIds(emit_loop_test(g, p, c, header, body, exit))
<1> DEFINE s == set_current_block(g, header)
           g1 == emit_condition(s, p, c)
           g2 == emit_instruction(g1, JumpIfFalse(p, exit, <<p, "cond">>))
           e == add_block_edge(g2, header, body)
           g3 == add_block_edge(e, header, exit)
           g4 == set_current_block(g3, body)
           C == B \ {header}
<1>0. emit_loop_test(g, p, c, header, body, exit) = g4
  BY DEF emit_loop_test
<1>p. "cond" \in Parts
  BY DEF Parts
<1>1. Good(g0, s, C) /\ BlockIds(s) = BlockIds(g)
  BY SetStep
<1> HIDE DEF s, C
<1>2. Good(g0, g1, C) /\ BlockIds(g) \subseteq BlockIds(g1)
  BY <1>1, ConditionStep
<1> HIDE DEF g1
<1>3. Good(g0, g2, C) /\ BlockIds(g1) \subseteq BlockIds(g2)
  BY <1>p, <1>2, EmitStep, Instructions
<1> HIDE DEF g2
<1>4. Good(g0, e, C) /\ BlockIds(e) = BlockIds(g2)
  BY <1>2, <1>3, EdgeStep
<1> HIDE DEF e
<1>5. Good(g0, g3, C) /\ BlockIds(g3) = BlockIds(g2)
  BY <1>2, <1>3, <1>4, EdgeStep
<1> HIDE DEF g3
<1>6. Good(g0, g4, C \ {body}) /\ BlockIds(g4) = BlockIds(g2)
  BY <1>2, <1>3, <1>5, SetStep
<1>7. C \ {body} = B \ {header, body}
  BY DEF C
<1> QED
  BY <1>0, <1>2, <1>3, <1>6, <1>7

\* So does the guard of a match case.
LEMMA GuardStep ==
    ASSUME NEW g0, NEW g, NEW B, Good(g0, g, B), NEW p \in Nat,
           NEW body \in BlockIds(g), NEW next \in BlockIds(g)
    PROVE  /\ Good(g0, emit_guard(g, p, body, next), B)
           /\ BlockIds(g) \subseteq BlockIds(emit_guard(g, p, body, next))
<1> DEFINE h == emit_instruction(g, JumpIfFalse(p, next, <<p, "guard">>))
           e == add_block_edge(h, h.cur, body)
           f == add_block_edge(e, h.cur, next)
<1>0. emit_guard(g, p, body, next) = f
  BY DEF emit_guard
<1>p. "guard" \in Parts
  BY DEF Parts
<1>1. Good(g0, h, B) /\ BlockIds(g) \subseteq BlockIds(h) /\ h.cur \in BlockIds(h)
  BY <1>p, EmitStep, Instructions
<1> HIDE DEF h
<1>2. Good(g0, e, B) /\ BlockIds(e) = BlockIds(h)
  BY <1>1, EdgeStep
<1> HIDE DEF e
<1>3. Good(g0, f, B) /\ BlockIds(f) = BlockIds(h)
  BY <1>1, <1>2, EdgeStep
<1> QED
  BY <1>0, <1>1, <1>3

\* So does a fallible expression up to its error block; its continuation block is
\* then reserved.
LEMMA FallibleStep ==
    ASSUME NEW g0, NEW g, NEW B, Good(g0, g, B), NEW p \in Nat
    PROVE  LET r == begin_fallible(g, p)
           IN  /\ Good(g0, r, B \cup {r.cur + 2})
               /\ r.cur \in BlockIds(r) /\ r.cur + 2 \in BlockIds(r)
               /\ r.cur + 2 \notin B
               /\ BlockIds(g) \subseteq BlockIds(r)
<1> DEFINE g1 == emit_instruction(g, Op(<<p, "call">>))
           error == g1.n
           success == g1.n + 1
           cont == g1.n + 2
           c == create_blocks(g1, 3)
           g2 == emit_instruction(c, JumpIf(p, error, <<p, "try">>))
           g3 == emit_instruction(g2, Jump(success))
           e1 == add_block_edge(g3, g3.cur, error)
           g4 == add_block_edge(e1, g3.cur, success)
           s4 == set_current_block(g4, success)
           g5 == emit_instruction(s4, Op(<<p, "unwrap">>))
           g6 == jump_edge_from(g5, success, cont)
           g7 == set_current_block(g6, error)
           C == B \cup {cont}
<1>0. begin_fallible(g, p) = g7
  BY DEF begin_fallible
<1>p. {"call", "try", "unwrap"} \subseteq Parts
  BY DEF Parts
<1>1. Good(g0, g1, B) /\ BlockIds(g) \subseteq BlockIds(g1)
  BY <1>p, EmitStep, Instructions
<1> HIDE DEF g1
<1>2. /\ Good(g0, c, C) /\ BlockIds(g1) \subseteq BlockIds(c)
      /\ error \in BlockIds(c) /\ success \in BlockIds(c) /\ cont \in BlockIds(c)
      /\ error \notin C /\ success \notin C /\ cont \notin B
      /\ cont = error + 2
  <2> DEFINE N == g1.n..(g1.n + 3 - 1)
  <2>0. Good(g0, c, B \cup N)
    BY <1>1, CreateGood
  <2>1. /\ Good(g0, c, B \cup N) /\ BlockIds(g1) \subseteq BlockIds(c)
        /\ g1.n \in Nat /\ N \subseteq BlockIds(c)
        /\ \A b \in N : b \notin B
    <3>1. Good(g0, g1, B) /\ 3 \in Nat
      BY <1>1
    <3>2. /\ BlockIds(g1) \subseteq BlockIds(create_blocks(g1, 3))
          /\ g1.n \in Nat
          /\ g1.n..(g1.n + 3 - 1) \subseteq BlockIds(create_blocks(g1, 3))
          /\ \A b \in g1.n..(g1.n + 3 - 1) : b \notin B
      BY <3>1, CreateStep
    <3> QED
      BY <2>0, <3>2
  <2>2. error \in N /\ success \in N /\ cont \in N /\ error # cont /\ success # cont
    BY <2>1
  <2> HIDE DEF N, c, error, success, cont
  <2>3. Good(g0, c, C)
    BY <2>1, <2>2, GoodSubset
  <2> QED
    BY <2>1, <2>2, <2>3 DEF cont, error
<1> HIDE DEF c, error, success, cont, C
<1>3. Good(g0, g2, C) /\ BlockIds(c) \subseteq BlockIds(g2)
  BY <1>p, <1>2, EmitStep, Instructions
<1> HIDE DEF g2
<1>4. Good(g0, g3, C) /\ BlockIds(g2) \subseteq BlockIds(g3) /\ g3.cur \in BlockIds(g3)
  BY <1>2, <1>3, EmitStep, Jumps
<1> HIDE DEF g3
<1>5. Good(g0, e1, C) /\ BlockIds(e1) = BlockIds(g3)
  BY <1>2, <1>3, <1>4, EdgeStep
<1> HIDE DEF e1
<1>6. Good(g0, g4, C) /\ BlockIds(g4) = BlockIds(g3)
  <2>1. success \in BlockIds(e1) /\ g3.cur \in BlockIds(e1)
    BY <1>2, <1>3, <1>4, <1>5
  <2> QED
    BY <1>5, <2>1, EdgeStep
<1> HIDE DEF g4
<1>6a. C \ {success} = C /\ C \ {error} = C
  BY <1>2
<1>7. Good(g0, s4, C) /\ BlockIds(s4) = BlockIds(g3)
  BY <1>2, <1>3, <1>4, <1>6, <1>6a, SetStep
<1> HIDE DEF s4
<1>8. Good(g0, g5, C) /\ BlockIds(s4) \subseteq BlockIds(g5)
  BY <1>p, <1>7, EmitStep, Instructions
<1> HIDE DEF g5
<1>9. Good(g0, g6, C) /\ BlockIds(g5) \subseteq BlockIds(g6)
  <2>1. success \in BlockIds(g5) /\ cont \in BlockIds(g5)
    BY <1>2, <1>3, <1>4, <1>7, <1>8
  <2> QED
    BY <1>8, <2>1, JumpEdgeStep
<1> HIDE DEF g6
<1>10. /\ Good(g0, g7, C) /\ BlockIds(g7) = BlockIds(g6) /\ g7.cur = error
       /\ error \in BlockIds(g6) /\ cont \in BlockIds(g6)
  <2>1. error \in BlockIds(g6) /\ cont \in BlockIds(g6)
    BY <1>2, <1>3, <1>4, <1>7, <1>8, <1>9
  <2>2. Good(g0, g7, C \ {error}) /\ BlockIds(g7) = BlockIds(g6) /\ g7.cur = error
    BY <1>9, <2>1, SetStep, SetCurrentGood
  <2> QED
    BY <1>6a, <2>1, <2>2
<1> HIDE DEF g7
<1>11. BlockIds(g) \subseteq BlockIds(g7)
  BY <1>1, <1>2, <1>3, <1>4, <1>7, <1>8, <1>9, <1>10
<1>12. g7.cur + 2 = cont /\ C = B \cup {cont}
  BY <1>2, <1>10 DEF C
<1> QED
  BY <1>0, <1>2, <1>10, <1>11, <1>12

(***************************************************************************)
(* The stack of open statements.                                            *)
(***************************************************************************)
Stack(g, s) == FramesType(g, s) /\ Disjoint(s)

\* Opening a statement whose reserved blocks are new keeps the stack disjoint.
LEMMA PushStack ==
    ASSUME NEW g, NEW s, Stack(g, s), NEW f \in FrameType, FrameOK(g, f),
           Reserved(f) \cap ReservedBy(s) = {}
    PROVE  /\ Stack(g, Append(s, f))
           /\ ReservedBy(Append(s, f)) = ReservedBy(s) \cup Reserved(f)
<1> DEFINE t == Append(s, f)
<1>0. s \in Seq(FrameType)
  BY DEF Stack, FramesType
<1>1. /\ t \in Seq(FrameType)
      /\ Len(s) \in Nat /\ DOMAIN s = 1..Len(s)
      /\ DOMAIN t = 1..(Len(s) + 1)
      /\ \A i \in 1..Len(s) : t[i] = s[i]
      /\ t[Len(s) + 1] = f
  BY <1>0, AppendFacts
<1> HIDE DEF t
<1>2. \A i \in DOMAIN t : (i \in DOMAIN s /\ t[i] = s[i]) \/ (i = Len(s) + 1 /\ t[i] = f)
  BY <1>1
<1>3. DOMAIN s \subseteq DOMAIN t /\ Len(s) + 1 \in DOMAIN t /\ Len(s) + 1 \notin DOMAIN s
  BY <1>1
<1>4. FramesType(g, t)
  BY <1>1, <1>2 DEF Stack, FramesType
<1>5. Disjoint(t)
  <2>1. \A i \in DOMAIN s : Reserved(s[i]) \cap Reserved(f) = {}
    BY DEF ReservedBy
  <2> QED
    BY <1>2, <2>1 DEF Stack, Disjoint
<1>6. ReservedBy(t) = ReservedBy(s) \cup Reserved(f)
  BY <1>1, <1>2, <1>3 DEF ReservedBy
<1> QED
  BY <1>4, <1>5, <1>6 DEF Stack, t

\* The elements of a popped stack.
LEMMA PopFacts ==
    ASSUME NEW S, NEW s \in Seq(S)
    PROVE  /\ Pop(s) \in Seq(S)
           /\ DOMAIN Pop(s) \subseteq DOMAIN s
           /\ \A i \in DOMAIN Pop(s) : Pop(s)[i] = s[i] /\ i # Len(s)
<1>1. Len(s) \in Nat /\ DOMAIN s = 1..Len(s)
  OBVIOUS
<1>2. CASE Len(s) = 0
  BY <1>1, <1>2 DEF Pop
<1>3. CASE Len(s) # 0
  BY <1>1, <1>3 DEF Pop
<1> QED
  BY <1>2, <1>3

\* Closing the innermost statement releases its reserved blocks and no others.
LEMMA PopStack ==
    ASSUME NEW g, NEW s, Stack(g, s), s # <<>>
    PROVE  /\ Stack(g, Pop(s))
           /\ ReservedBy(Pop(s)) \subseteq ReservedBy(s) \ Reserved(s[Len(s)])
           /\ Reserved(s[Len(s)]) \subseteq ReservedBy(s)
           /\ s[Len(s)] \in FrameType /\ FrameOK(g, s[Len(s)])
<1>0. s \in Seq(FrameType) /\ Len(s) \in DOMAIN s
  BY DEF Stack, FramesType
<1>1. /\ Pop(s) \in Seq(FrameType)
      /\ DOMAIN Pop(s) \subseteq DOMAIN s
      /\ \A i \in DOMAIN Pop(s) : Pop(s)[i] = s[i] /\ i # Len(s)
  BY <1>0, PopFacts
<1>2. Stack(g, Pop(s))
  BY <1>1 DEF Stack, FramesType, Disjoint
<1>3. ReservedBy(Pop(s)) \subseteq ReservedBy(s) \ Reserved(s[Len(s)])
  BY <1>0, <1>1 DEF ReservedBy, Stack, Disjoint
<1>4. Reserved(s[Len(s)]) \subseteq ReservedBy(s)
  BY <1>0 DEF ReservedBy
<1>5. s[Len(s)] \in FrameType /\ FrameOK(g, s[Len(s)])
  BY <1>0 DEF Stack, FramesType
<1> QED
  BY <1>2, <1>3, <1>4, <1>5

\* the top frame goes on to its next part, j
LEMMA AdvanceStack ==
    ASSUME NEW g, NEW s, Stack(g, s), s # <<>>, NEW j \in Nat, j <= s[Len(s)].cnt,
           NEW f, f = [s[Len(s)] EXCEPT !.idx = j], Reserved(f) \subseteq Reserved(s[Len(s)])
    PROVE  LET t == [s EXCEPT ![Len(s)].idx = j]
           IN  /\ Stack(g, t)
               /\ ReservedBy(t) \subseteq
                     (ReservedBy(s) \ Reserved(s[Len(s)])) \cup Reserved(f)
<1> DEFINE t == [s EXCEPT ![Len(s)].idx = j]
           n == Len(s)
<1>0. s \in Seq(FrameType) /\ n \in DOMAIN s /\ s[n] \in FrameType
  BY DEF Stack, FramesType
<1>1. /\ f \in FrameType /\ f.idx = j /\ f.cnt = s[n].cnt /\ f.head = s[n].head /\ f.k = s[n].k
      /\ f.body = s[n].body /\ f.incr = s[n].incr /\ f.exit = s[n].exit
  BY <1>0 DEF FrameType
<1>2. t = [s EXCEPT ![n] = f]
  BY <1>0
<1>3. t \in Seq(FrameType) /\ DOMAIN t = DOMAIN s /\ t[n] = f
  BY <1>0, <1>1, <1>2
<1>4. \A i \in DOMAIN s \ {n} : t[i] = s[i]
  BY <1>0, <1>2
<1> HIDE DEF t, n
<1>5. FramesType(g, t)
  <2>1. FrameOK(g, f)
    BY <1>0, <1>1 DEF Stack, FramesType, FrameOK, n
  <2>2. ASSUME NEW i \in DOMAIN t
        PROVE  FrameOK(g, t[i])
    BY <1>3, <1>4, <2>1, <2>2 DEF Stack, FramesType
  <2> QED
    BY <1>3, <2>2 DEF FramesType
<1>6. Disjoint(t)
  BY <1>0, <1>3, <1>4 DEF Stack, Disjoint, n
<1>7. ReservedBy(t) \subseteq (ReservedBy(s) \ Reserved(s[n])) \cup Reserved(f)
  <2>1. ASSUME NEW i \in DOMAIN s, i # n
        PROVE  Reserved(t[i]) \subseteq ReservedBy(s) \ Reserved(s[n])
    <3>1. Reserved(s[i]) \cap Reserved(s[n]) = {}
      BY <1>0, <2>1 DEF Stack, Disjoint
    <3>2. Reserved(s[i]) \subseteq ReservedBy(s)
      BY DEF ReservedBy
    <3>3. t[i] = s[i]
      BY <1>4, <2>1
    <3> QED
      BY <3>1, <3>2, <3>3
  <2>2. \A i \in DOMAIN t : Reserved(t[i]) \subseteq
                              (ReservedBy(s) \ Reserved(s[n])) \cup Reserved(f)
    BY <1>3, <2>1
  <2> QED
    BY <2>2 DEF ReservedBy
<1> QED
  BY <1>5, <1>6, <1>7 DEF Stack, t, n

\* more blocks do no harm
LEMMA GrowTypes ==
    ASSUME NEW g, NEW h, BlockIds(g) \subseteq BlockIds(h)
    PROVE  /\ \A s : Stack(g, s) => Stack(h, s)
           /\ \A s : LoopsType(g, s) => LoopsType(h, s)
<1>1. \A f : FrameOK(g, f) => FrameOK(h, f)
  BY DEF FrameOK
<1> QED
  BY <1>1 DEF Stack, FramesType, LoopsType

(***************************************************************************)
(* The inductive invariant, and the three ways a step changes the stack.    *)
(***************************************************************************)
IInv == TypeOK /\ EdgesSymmetric /\ JumpTargetsExist /\ TerminatorLast /\ ReservedFresh

Preserved == IInv' /\ Kept(cfg, cfg')

\* The invariant in the form the step lemmas use.
LEMMA StateGood ==
    ASSUME IInv
    PROVE  /\ Good(cfg, cfg, ReservedBy(open))
           /\ Stack(cfg, open)
           /\ LoopsType(cfg, loops)
           /\ src \in Seq(TokenType) /\ Here \in Nat
           /\ in_else \in BOOLEAN /\ phase \in {"build", "done"}
<1>1. Kept(cfg, cfg)
  BY DEF Kept
<1> QED
  BY <1>1 DEF IInv, TypeOK, EdgesSymmetric, JumpTargetsExist, TerminatorLast, ReservedFresh,
              Good, WellFormed, Stack, Here

\* And back: a good next state satisfies the invariant.
LEMMA Conclude ==
    ASSUME Good(cfg, cfg', ReservedBy(open')), Stack(cfg', open'), LoopsType(cfg', loops'),
           src' \in Seq(TokenType), in_else' \in BOOLEAN, phase' \in {"build", "done"}
    PROVE  Preserved
  BY DEF Preserved, IInv, TypeOK, EdgesSymmetric, JumpTargetsExist, TerminatorLast,
         ReservedFresh, Good, WellFormed, Stack

\* A statement without a body needs only that its graph is good.
LEMMA PlainStep ==
    ASSUME IInv, NEW g, Good(cfg, g, ReservedBy(open)), BlockIds(cfg) \subseteq BlockIds(g),
           NEW t \in TokenType, Statement(t, g), UNCHANGED <<loops, open, in_else, phase>>
    PROVE  Preserved
<1>1. cfg' = g /\ src' \in Seq(TokenType)
  BY StateGood, AppendFacts DEF Statement
<1>2. Stack(g, open) /\ LoopsType(g, loops)
  BY StateGood, GrowTypes
<1> QED
  BY <1>1, <1>2, StateGood, Conclude

\* A statement that opens a body reserves its new blocks.
LEMMA EnterStep ==
    ASSUME IInv, NEW g, NEW f \in FrameType, FrameOK(g, f),
           Good(cfg, g, ReservedBy(open) \cup Reserved(f)),
           BlockIds(cfg) \subseteq BlockIds(g),
           Reserved(f) \cap ReservedBy(open) = {},
           NEW t \in TokenType, Enter(f, t, g), LoopsType(g, loops'),
           in_else' \in BOOLEAN, phase' = phase
    PROVE  Preserved
<1>1. cfg' = g /\ src' \in Seq(TokenType) /\ open' = Append(open, f)
  BY StateGood, AppendFacts DEF Enter, Statement
<1>2. Stack(g, open)
  BY StateGood, GrowTypes
<1>3. /\ Stack(g, Append(open, f))
      /\ ReservedBy(Append(open, f)) = ReservedBy(open) \cup Reserved(f)
  BY <1>2, PushStack
<1> QED
  BY <1>1, <1>3, StateGood, Conclude

\* enter_loop and exit_loop keep the loop labels well typed.
LEMMA LoopsGrow ==
    ASSUME NEW g, BlockIds(cfg) \subseteq BlockIds(g), LoopsType(cfg, loops),
           NEW end \in BlockIds(g), NEW continue \in BlockIds(g)
    PROVE  /\ enter_loop(end, continue) => LoopsType(g, loops')
           /\ exit_loop => LoopsType(g, loops')
<1> DEFINE L == [end : Nat, continue : Nat]
           l == [end |-> end, continue |-> continue]
           s == Append(loops, l)
<1>1. LoopsType(g, loops) /\ loops \in Seq(L)
  BY GrowTypes DEF LoopsType
<1>2. l \in L /\ l.end \in BlockIds(g) /\ l.continue \in BlockIds(g)
  BY DEF BlockIds
<1>3. LoopsType(g, Pop(loops))
  BY <1>1, PopFacts DEF LoopsType
<1> HIDE DEF l, L
<1>4. /\ s \in Seq(L) /\ Len(loops) \in Nat /\ DOMAIN loops = 1..Len(loops)
      /\ DOMAIN s = 1..(Len(loops) + 1)
      /\ \A i \in 1..Len(loops) : s[i] = loops[i]
      /\ s[Len(loops) + 1] = l
  BY <1>1, <1>2, AppendFacts
<1> HIDE DEF s
<1>5. LoopsType(g, s)
  <2>1. ASSUME NEW i \in DOMAIN s
        PROVE  s[i].end \in BlockIds(g) /\ s[i].continue \in BlockIds(g)
    <3>1. CASE i = Len(loops) + 1
      BY <1>2, <1>4, <3>1
    <3>2. CASE i \in 1..Len(loops)
      BY <1>1, <1>4, <3>2 DEF LoopsType
    <3> QED
      BY <1>4, <2>1, <3>1, <3>2
  <2> QED
    BY <1>4, <2>1 DEF LoopsType, L
<1> QED
  BY <1>3, <1>5 DEF enter_loop, exit_loop, s, l

\* The end of a statement enters a block it had reserved.
LEMMA LeaveStep ==
    ASSUME IInv, NEW g, open # <<>>,
           Good(cfg, g, ReservedBy(open) \ Reserved(Top)),
           BlockIds(cfg) \subseteq BlockIds(g),
           Top.k # "pattern", Leave(g), loops' = loops \/ exit_loop,
           in_else' \in BOOLEAN, phase' = phase
    PROVE  Preserved
<1>0. /\ Stack(cfg, Pop(open))
      /\ ReservedBy(Pop(open)) \subseteq ReservedBy(open) \ Reserved(Top)
      /\ Top \in FrameType
  BY StateGood, PopStack DEF Top
<1>1. Token("end", Top.tok, Top.k) \in TokenType
  BY <1>0 DEF Token, TokenType, FrameType, TokenKinds, Forms
<1>2. cfg' = g /\ src' \in Seq(TokenType) /\ open' = Pop(open)
  BY <1>1, StateGood, AppendFacts DEF Leave, Statement
<1>3. Stack(g, Pop(open))
  BY <1>0, GrowTypes
<1>4. Good(cfg, g, ReservedBy(Pop(open)))
  BY <1>0, GoodSubset
<1>5. LoopsType(g, loops')
  <2>1. CASE loops' = loops
    BY <2>1, StateGood, GrowTypes
  <2>2. CASE exit_loop
    <3>1. cfg.cur \in BlockIds(g)
      BY StateGood, GoodFacts
    <3> QED
      BY <2>2, <3>1, StateGood, LoopsGrow
  <2> QED
    BY <2>1, <2>2
<1> QED
  BY <1>2, <1>3, <1>4, <1>5, StateGood, Conclude

\* Every token the actions append is well typed.
LEMMA Tokens ==
    ASSUME NEW m \in Nat
    PROVE  /\ \A k \in {"stmt", "break", "continue", "return", "else", "case", "question",
                       "propagate", "fallible", "iter", "index", "chan"} :
                 Token(k, m, "plain") \in TokenType
           /\ Token("return", m, "handler") \in TokenType
           /\ Token("return", m, "function") \in TokenType
           /\ \A c \in Conds, k \in {"if", "while", "for"} : Token(k, m, c) \in TokenType
           /\ \A c \in {"plain", "bare"} : Token("match", m, c) \in TokenType
           /\ \A c \in {"test", "never"} : Token("part", m, c) \in TokenType
           /\ \A c \in {"guard", "plain"} : Token("body", m, c) \in TokenType
  BY DEF Token, TokenType, TokenKinds, Forms, FrameKinds, LoopKinds

\* Every frame the actions push is well typed.
LEMMA Frames ==
    ASSUME Here \in Nat, NEW k \in FrameKinds, NEW h \in Nat, NEW b \in Nat, NEW i \in Nat,
           NEW e \in Nat, NEW n \in Nat
    PROVE  LET f == Frame(k, h, b, i, e, n)
           IN  /\ f \in FrameType /\ f.k = k /\ f.idx = 0 /\ f.cnt = n
               /\ f.head = h /\ f.body = b /\ f.incr = i /\ f.exit = e
  BY DEF Frame, FrameType

(***************************************************************************)
(* One lemma per action.                                                    *)
(***************************************************************************)
LEMMA SimpleAction == ASSUME IInv, emit_simple_stmt PROVE Preserved
<1> DEFINE g == emit_instruction(cfg, Op(<<Here, "stmt">>))
<1>1. "stmt" \in Parts
  BY DEF Parts
<1>2. Good(cfg, g, ReservedBy(open)) /\ BlockIds(cfg) \subseteq BlockIds(g)
  BY <1>1, StateGood, EmitStep, Instructions
<1>3. /\ Statement(Token("stmt", 0, "plain"), g) /\ UNCHANGED <<loops, open, in_else, phase>>
      /\ Token("stmt", 0, "plain") \in TokenType
  BY Tokens DEF emit_simple_stmt
<1> HIDE DEF g
<1> QED
  BY <1>2, <1>3, PlainStep

\* break and continue preserve the invariant.
LEMMA BreakAction ==
    ASSUME IInv, emit_break_stmt \/ emit_continue_stmt
    PROVE  Preserved
<1>1. Loop.end \in BlockIds(cfg) /\ Loop.continue \in BlockIds(cfg)
  BY StateGood DEF Loop, LoopsType, emit_break_stmt, emit_continue_stmt
<1>2. \A l \in BlockIds(cfg) : /\ Good(cfg, leave_body(cfg, l), ReservedBy(open))
                               /\ BlockIds(cfg) \subseteq BlockIds(leave_body(cfg, l))
  BY StateGood, JumpStep
<1>3. CASE emit_break_stmt
  <2>1. /\ Statement(Token("break", 0, "plain"), leave_body(cfg, Loop.end))
        /\ UNCHANGED <<loops, open, in_else, phase>>
        /\ Token("break", 0, "plain") \in TokenType
    BY <1>3, Tokens DEF emit_break_stmt
  <2> QED
    BY <1>1, <1>2, <2>1, PlainStep
<1>4. CASE emit_continue_stmt
  <2>1. /\ Statement(Token("continue", 0, "plain"), leave_body(cfg, Loop.continue))
        /\ UNCHANGED <<loops, open, in_else, phase>>
        /\ Token("continue", 0, "plain") \in TokenType
    BY <1>4, Tokens DEF emit_continue_stmt
  <2> QED
    BY <1>1, <1>2, <2>1, PlainStep
<1> QED
  BY <1>3, <1>4

\* emit_return_stmt preserves the invariant.
LEMMA ReturnAction == ASSUME IInv, emit_return_stmt PROVE Preserved
<1> DEFINE i == IF in_else THEN Op(<<Here, "return">>) ELSE Return(<<Here, "return">>)
           t == Token("return", 0, IF InHandler THEN "handler" ELSE "function")
           g == emit_instruction(cfg, i)
<1>1. "return" \in Parts
  BY DEF Parts
<1>2. InstOK(cfg, i)
  BY <1>1, StateGood, Instructions
<1>3. Statement(t, g) /\ UNCHANGED <<loops, open, in_else, phase>>
  BY DEF emit_return_stmt
<1>4. t \in TokenType
  BY Tokens
<1> HIDE DEF i, t
<1>5. Good(cfg, g, ReservedBy(open)) /\ BlockIds(cfg) \subseteq BlockIds(g)
  BY <1>2, StateGood, EmitStep
<1> QED
  BY <1>3, <1>4, <1>5, PlainStep

\* begin_if preserves the invariant.
LEMMA IfAction ==
    ASSUME IInv, NEW c \in Conds, NEW arms \in {1, 2}, begin_if(c, arms)
    PROVE  Preserved
<1> DEFINE R == ReservedBy(open)
           then == cfg.n
           end == cfg.n + arms
           else == IF arms = 2 THEN cfg.n + 1 ELSE end
           N == cfg.n..(cfg.n + (arms + 1) - 1)
           d == create_blocks(cfg, arms + 1)
           g1 == emit_condition(d, Here, c)
           g2 == emit_instruction(g1, JumpIfFalse(Here, else, <<Here, "cond">>))
           g3 == add_block_edge(add_block_edge(g2, g2.cur, then), g2.cur, else)
           g4 == set_current_block(g3, then)
           f == Frame("if", else, then, end, end, arms)
<1>0. /\ Enter(f, Token("if", 0, c), g4) /\ UNCHANGED <<loops, in_else, phase>>
      /\ Token("if", 0, c) \in TokenType
  BY Tokens DEF begin_if
<1>p. "cond" \in Parts
  BY DEF Parts
<1>1. /\ Good(cfg, d, R \cup N) /\ BlockIds(cfg) \subseteq BlockIds(d) /\ N \subseteq BlockIds(d)
      /\ cfg.n \in Nat /\ \A b \in N : b \notin R
  <2>1. arms + 1 \in Nat
    OBVIOUS
  <2> QED
    BY <2>1, StateGood, CreateGood, CreateStep
<1>2. /\ then \in N /\ end \in N /\ else \in N /\ then # end /\ then # else
      /\ then \in Nat /\ end \in Nat /\ else \in Nat /\ arms \in Nat /\ "if" \in FrameKinds
  BY <1>1 DEF FrameKinds
<1>3. /\ f \in FrameType /\ Reserved(f) = {else, end}
      /\ \A g : N \subseteq BlockIds(g) => FrameOK(g, f)
  <2>1. (arms = 1 => else = end) /\ (arms = 2 => else # end)
    BY <1>1
  <2> HIDE DEF then, end, else, N
  <2>2. /\ f \in FrameType /\ f.k = "if" /\ f.idx = 0 /\ f.cnt = arms
        /\ f.head = else /\ f.body = then /\ f.incr = end /\ f.exit = end
    <3>1. Here \in Nat
      BY StateGood
    <3> QED
      BY <1>2, <3>1, Frames
  <2> HIDE DEF f
  <2>3. Reserved(f) = {else, end}
    BY <2>1, <2>2 DEF Reserved
  <2>4. ASSUME NEW g, N \subseteq BlockIds(g) PROVE FrameOK(g, f)
    BY <1>2, <2>1, <2>2, <2>4 DEF FrameOK
  <2> QED
    BY <2>2, <2>3, <2>4
<1> HIDE DEF R, N, d, then, end, else, f
<1>4. Good(cfg, g1, R \cup N) /\ BlockIds(d) \subseteq BlockIds(g1)
  BY <1>1, StateGood, ConditionStep
<1> HIDE DEF g1
<1>5. Good(cfg, g2, R \cup N) /\ BlockIds(g1) \subseteq BlockIds(g2) /\ g2.cur \in BlockIds(g2)
  BY <1>p, <1>1, <1>2, <1>4, StateGood, EmitStep, Instructions
<1> HIDE DEF g2
<1>6. N \subseteq BlockIds(g2)
  BY <1>1, <1>4, <1>5
<1>7. then \in BlockIds(g2) /\ else \in BlockIds(g2)
  BY <1>2, <1>6
<1>8. Good(cfg, g3, R \cup N) /\ BlockIds(g3) = BlockIds(g2)
  BY <1>5, <1>7, TwoEdges
<1> HIDE DEF g3
<1>9. Good(cfg, g4, (R \cup N) \ {then}) /\ BlockIds(g4) = BlockIds(g2)
  BY <1>2, <1>6, <1>8, SetStep
<1> HIDE DEF g4
<1>10. (R \cup Reserved(f)) \subseteq (R \cup N) \ {then}
  BY <1>1, <1>2, <1>3
<1>11. Good(cfg, g4, R \cup Reserved(f))
  BY <1>9, <1>10, GoodSubset
<1>12. BlockIds(cfg) \subseteq BlockIds(g4) /\ N \subseteq BlockIds(g4)
  BY <1>1, <1>4, <1>5, <1>6, <1>9
<1>13. LoopsType(g4, loops') /\ in_else' \in BOOLEAN /\ FrameOK(g4, f)
  BY <1>0, <1>3, <1>12, StateGood, GrowTypes
<1>14. Reserved(f) \cap R = {}
  BY <1>1, <1>2, <1>3
<1> QED
  BY <1>0, <1>2, <1>3, <1>11, <1>12, <1>13, <1>14, EnterStep DEF R

\* emit_else preserves the invariant.
LEMMA ElseAction == ASSUME IInv, emit_else PROVE Preserved
<1> DEFINE R == ReservedBy(open)
           g1 == jump_unless_terminated(cfg, Top.exit)
           g == set_current_block(g1, Top.head)
           s == [open EXCEPT ![Len(open)].idx = 1]
           f == [Top EXCEPT !.idx = 1]
<1>0. /\ Statement(Token("else", Top.tok, "plain"), g) /\ open' = s
      /\ UNCHANGED <<loops, in_else, phase>>
      /\ open # <<>> /\ Top.k = "if" /\ Top.cnt = 2 /\ Top.idx = 0
  BY DEF emit_else, IsOpen
<1>1. /\ Top \in FrameType /\ {Top.head, Top.exit} \subseteq BlockIds(cfg)
      /\ Reserved(Top) \subseteq R /\ Top.head # Top.exit
  BY <1>0, StateGood, PopStack DEF Top, FrameOK
<1>2. Reserved(Top) = {Top.head, Top.exit}
  BY <1>0 DEF Reserved
<1>3. f.k = "if" /\ f.cnt = 2 /\ f.idx = 1 /\ f.exit = Top.exit
  BY <1>0, <1>1 DEF FrameType
<1>4. Reserved(f) = {Top.exit}
  <2> HIDE DEF f
  <2> QED
    BY <1>3 DEF Reserved
<1>5. Stack(cfg, s) /\ ReservedBy(s) \subseteq (R \ Reserved(Top)) \cup Reserved(f)
  <2> HIDE DEF f
  <2>1. f = [open[Len(open)] EXCEPT !.idx = 1] /\ Top = open[Len(open)]
    BY DEF f, Top
  <2>2. Reserved(f) \subseteq Reserved(Top)
    BY <1>2, <1>4
  <2>3. Stack(cfg, open) /\ 1 \in Nat /\ 1 <= open[Len(open)].cnt
    BY <1>0, <2>1, StateGood
  <2> QED
    BY <1>0, <2>1, <2>2, <2>3, AdvanceStack
<1> HIDE DEF R
<1>6. Good(cfg, g1, R) /\ BlockIds(cfg) \subseteq BlockIds(g1)
  BY <1>1, StateGood, JumpStep DEF R
<1> HIDE DEF g1
<1>7. Good(cfg, g, R \ {Top.head}) /\ BlockIds(g) = BlockIds(g1)
  BY <1>1, <1>6, SetStep
<1> HIDE DEF g, s
<1>9. Good(cfg, g, ReservedBy(s))
  BY <1>1, <1>2, <1>4, <1>5, <1>7, GoodSubset
<1>10. Stack(g, s) /\ LoopsType(g, loops)
  BY <1>5, <1>6, <1>7, StateGood, GrowTypes
<1>11. src' \in Seq(TokenType) /\ cfg' = g
  BY <1>0, <1>1, Tokens, StateGood, AppendFacts DEF Statement, FrameType
<1> QED
  BY <1>0, <1>9, <1>10, <1>11, StateGood, Conclude

\* end_if preserves the invariant.
LEMMA EndIfAction == ASSUME IInv, end_if PROVE Preserved
<1> DEFINE R == ReservedBy(open)
           g1 == jump_unless_terminated(cfg, Top.exit)
           g2 == set_current_block(g1, Top.exit)
           g == mark_if_terminated(g2, Top.exit)
<1>0. Leave(g) /\ UNCHANGED <<loops, in_else, phase>> /\ open # <<>> /\ Top.k = "if"
      /\ Top.idx = Top.cnt - 1
  BY DEF end_if, IsOpen
<1>1. Top \in FrameType /\ Top.exit \in BlockIds(cfg)
  BY <1>0, StateGood, PopStack DEF Top, FrameOK
<1>2. Reserved(Top) = {Top.exit}
  <2>1. Top.cnt \in Nat /\ Top.idx \in Nat
    BY <1>1 DEF FrameType
  <2> QED
    BY <1>0, <2>1 DEF Reserved
<1> HIDE DEF R
<1>3. Good(cfg, g1, R) /\ BlockIds(cfg) \subseteq BlockIds(g1)
  BY <1>1, StateGood, JumpStep DEF R
<1> HIDE DEF g1
<1>4. Good(cfg, g, R \ {Top.exit}) /\ BlockIds(g) = BlockIds(g1)
  BY <1>1, <1>3, SetStep
<1> HIDE DEF g
<1>5. in_else' \in BOOLEAN /\ Top.k # "pattern"
  BY <1>0, StateGood
<1> QED
  BY <1>0, <1>2, <1>3, <1>4, <1>5, LeaveStep DEF R

(***************************************************************************)
(* Loops.                                                                   *)
(***************************************************************************)
\* k new blocks, all reserved
LEMMA NewBlocks ==
    ASSUME IInv, NEW k \in Nat
    PROVE  /\ Good(cfg, create_blocks(cfg, k), ReservedBy(open) \cup (cfg.n..(cfg.n + k - 1)))
           /\ BlockIds(cfg) \subseteq BlockIds(create_blocks(cfg, k))
           /\ cfg.n..(cfg.n + k - 1) \subseteq BlockIds(create_blocks(cfg, k))
           /\ cfg.n \in Nat
           /\ cfg.cur \in BlockIds(create_blocks(cfg, k))
           /\ \A b \in cfg.n..(cfg.n + k - 1) : b \notin ReservedBy(open)
<1>1. Good(cfg, cfg, ReservedBy(open))
  BY StateGood
<1>2. cfg.cur \in BlockIds(cfg)
  BY <1>1, GoodFacts
<1> QED
  BY <1>1, <1>2, CreateStep

\* the frame of a loop, pushed with its labels
LEMMA EnterLoop ==
    ASSUME IInv, NEW k \in LoopKinds, NEW h, NEW b, NEW i, NEW e, NEW con, NEW g, NEW C,
           Good(cfg, g, C), ReservedBy(open) \subseteq C, BlockIds(cfg) \subseteq BlockIds(g),
           h \in BlockIds(g), b \in BlockIds(g), i \in BlockIds(g), e \in BlockIds(g),
           con \in BlockIds(g), e \in C, e \notin ReservedBy(open),
           k \in {"for", "iter"} => i \in C /\ i \notin ReservedBy(open),
           NEW t \in TokenType, Enter(Frame(k, h, b, i, e, 0), t, g), enter_loop(e, con),
           UNCHANGED <<in_else, phase>>
    PROVE  Preserved
<1> DEFINE f == Frame(k, h, b, i, e, 0)
<1>1. /\ h \in Nat /\ b \in Nat /\ i \in Nat /\ e \in Nat /\ 0 \in Nat
      /\ k \in FrameKinds /\ Here \in Nat /\ in_else' \in BOOLEAN
  BY StateGood DEF BlockIds, FrameKinds
<1>2. /\ f \in FrameType /\ f.k = k /\ f.idx = 0 /\ f.cnt = 0
      /\ f.head = h /\ f.body = b /\ f.incr = i /\ f.exit = e
  BY <1>1, Frames
<1>3. Enter(f, t, g)
  OBVIOUS
<1> HIDE DEF f
<1>4. FrameOK(g, f)
  BY <1>2 DEF FrameOK, LoopKinds
<1>5. Reserved(f) \subseteq C /\ Reserved(f) \cap ReservedBy(open) = {}
  BY <1>2 DEF Reserved, LoopKinds
<1>6. Good(cfg, g, ReservedBy(open) \cup Reserved(f))
  BY <1>5, GoodSubset
<1>7. LoopsType(g, loops')
  BY StateGood, LoopsGrow
<1> QED
  BY <1>1, <1>2, <1>3, <1>4, <1>5, <1>6, <1>7, EnterStep

\* begin_while preserves the invariant.
LEMMA WhileAction ==
    ASSUME IInv, NEW c \in Conds, begin_while(c)
    PROVE  Preserved
<1> DEFINE R == ReservedBy(open)
           N == cfg.n..(cfg.n + 3 - 1)
           header == cfg.n
           body == cfg.n + 1
           end == cfg.n + 2
           d == create_blocks(cfg, 3)
           g1 == add_block_edge(d, cfg.cur, header)
           g2 == emit_instruction(g1, Jump(header))
           g3 == emit_loop_test(g2, Here, c, header, body, end)
           C == (R \cup N) \ {header, body}
<1>0. /\ Enter(Frame("while", header, body, header, end, 0), Token("while", 0, c), g3)
      /\ enter_loop(end, header) /\ UNCHANGED <<in_else, phase>>
      /\ Token("while", 0, c) \in TokenType /\ "while" \in LoopKinds
  BY Tokens DEF begin_while, LoopKinds
<1>1. /\ Good(cfg, d, R \cup N) /\ BlockIds(cfg) \subseteq BlockIds(d)
      /\ N \subseteq BlockIds(d) /\ cfg.n \in Nat /\ cfg.cur \in BlockIds(d)
      /\ \A b \in N : b \notin R
  BY NewBlocks
<1>2. header \in N /\ body \in N /\ end \in N /\ end # header /\ end # body
  BY <1>1
<1>3. R \subseteq C /\ end \in C /\ end \notin R
  BY <1>1, <1>2
<1> HIDE DEF R, N, d, header, body, end
<1>4. Good(cfg, g1, R \cup N) /\ BlockIds(g1) = BlockIds(d)
  BY <1>1, <1>2, EdgeStep
<1> HIDE DEF g1
<1>5. Good(cfg, g2, R \cup N) /\ BlockIds(g1) \subseteq BlockIds(g2)
  BY <1>1, <1>2, <1>4, EmitStep, Jumps
<1> HIDE DEF g2
<1>6. header \in BlockIds(g2) /\ body \in BlockIds(g2) /\ end \in BlockIds(g2) /\ Here \in Nat
  BY <1>1, <1>2, <1>4, <1>5, StateGood
<1>7. Good(cfg, g3, C) /\ BlockIds(g2) \subseteq BlockIds(g3)
  BY <1>5, <1>6, LoopTestStep
<1> HIDE DEF g3, C
<1>8. /\ header \in BlockIds(g3) /\ body \in BlockIds(g3) /\ end \in BlockIds(g3)
      /\ BlockIds(cfg) \subseteq BlockIds(g3)
  BY <1>1, <1>4, <1>5, <1>6, <1>7
<1> QED
  BY <1>0, <1>3, <1>7, <1>8, EnterLoop DEF R

\* what the frame of the statement being left refers to
LEMMA TopFacts ==
    ASSUME IInv, open # <<>>
    PROVE  /\ Top \in FrameType /\ Reserved(Top) \subseteq ReservedBy(open)
           /\ Top.head \in BlockIds(cfg) /\ Top.body \in BlockIds(cfg)
           /\ Top.incr \in BlockIds(cfg) /\ Top.exit \in BlockIds(cfg)
           /\ Top.tok \in Nat /\ Top.cnt \in Nat /\ Top.idx \in Nat
           /\ Good(cfg, cfg, ReservedBy(open)) /\ in_else \in BOOLEAN /\ Here \in Nat
<1>1. /\ Top \in FrameType /\ Reserved(Top) \subseteq ReservedBy(open)
      /\ FrameOK(cfg, Top)
  BY StateGood, PopStack DEF Top
<1> QED
  BY <1>1, StateGood DEF FrameOK, FrameType

\* end_while preserves the invariant.
LEMMA EndWhileAction == ASSUME IInv, end_while PROVE Preserved
<1> DEFINE R == ReservedBy(open)
           g1 == back_edge(cfg, Top.body, Top.head)
           g2 == set_current_block(g1, Top.exit)
           g == mark_if_terminated(g2, Top.exit)
<1>0. Leave(g) /\ exit_loop /\ UNCHANGED <<in_else, phase>> /\ open # <<>> /\ Top.k = "while"
  BY DEF end_while, IsOpen
<1>1. /\ Top.exit \in BlockIds(cfg) /\ Top.body \in BlockIds(cfg) /\ Top.head \in BlockIds(cfg)
      /\ Good(cfg, cfg, R) /\ in_else' \in BOOLEAN
  BY <1>0, TopFacts
<1>2. Reserved(Top) = {Top.exit}
  BY <1>0 DEF Reserved
<1> HIDE DEF R
<1>3. Good(cfg, g1, R) /\ BlockIds(cfg) \subseteq BlockIds(g1)
  BY <1>1, BackEdgeStep
<1> HIDE DEF g1
<1>4. Good(cfg, g, R \ {Top.exit}) /\ BlockIds(g) = BlockIds(g1)
  BY <1>1, <1>3, SetStep
<1> HIDE DEF g
<1> QED
  BY <1>0, <1>1, <1>2, <1>3, <1>4, LeaveStep DEF R

\* begin_for preserves the invariant.
LEMMA ForAction ==
    ASSUME IInv, NEW c \in Conds, begin_for(c)
    PROVE  Preserved
<1> DEFINE R == ReservedBy(open)
           N == cfg.n..(cfg.n + 5 - 1)
           init == cfg.n
           header == cfg.n + 1
           body == cfg.n + 2
           incr == cfg.n + 3
           end == cfg.n + 4
           d == create_blocks(cfg, 5)
           g1 == add_block_edge(d, cfg.cur, init)
           g2 == emit_instruction(g1, Jump(init))
           s == set_current_block(g2, init)
           g3 == emit_instruction(s, Op(<<Here, "init">>))
           g4 == jump_edge_from(g3, init, header)
           g5 == emit_loop_test(g4, Here, c, header, body, end)
           B == (R \cup N) \ {init}
           C == B \ {header, body}
<1>0. /\ Enter(Frame("for", header, body, incr, end, 0), Token("for", 0, c), g5)
      /\ enter_loop(end, incr) /\ UNCHANGED <<in_else, phase>>
      /\ Token("for", 0, c) \in TokenType /\ "for" \in LoopKinds
  BY Tokens DEF begin_for, LoopKinds
<1>1. /\ Good(cfg, d, R \cup N) /\ BlockIds(cfg) \subseteq BlockIds(d)
      /\ N \subseteq BlockIds(d) /\ cfg.n \in Nat /\ cfg.cur \in BlockIds(d)
      /\ \A b \in N : b \notin R
  BY NewBlocks
<1>2. /\ init \in N /\ header \in N /\ body \in N /\ incr \in N /\ end \in N
      /\ end \notin {init, header, body} /\ incr \notin {init, header, body}
  BY <1>1
<1>3. /\ R \subseteq C /\ end \in C /\ end \notin R /\ incr \in C /\ incr \notin R
      /\ "init" \in Parts
  BY <1>1, <1>2 DEF Parts
<1> HIDE DEF N, d, init, header, body, incr, end
<1>4. Good(cfg, g1, R \cup N) /\ BlockIds(g1) = BlockIds(d)
  BY <1>1, <1>2, EdgeStep
<1> HIDE DEF g1
<1>5. Good(cfg, g2, R \cup N) /\ BlockIds(g1) \subseteq BlockIds(g2)
  BY <1>1, <1>2, <1>4, EmitStep, Jumps
<1> HIDE DEF g2
<1>6. N \subseteq BlockIds(g2) /\ init \in BlockIds(g2) /\ Here \in Nat
  BY <1>1, <1>2, <1>4, <1>5, StateGood
<1>7. Good(cfg, s, B) /\ BlockIds(s) = BlockIds(g2)
  BY <1>5, <1>6, SetStep
<1> HIDE DEF s, B, R
<1>8. Good(cfg, g3, B) /\ BlockIds(s) \subseteq BlockIds(g3)
  BY <1>3, <1>6, <1>7, EmitStep, Instructions
<1> HIDE DEF g3
<1>9. init \in BlockIds(g3) /\ header \in BlockIds(g3)
  BY <1>2, <1>6, <1>7, <1>8
<1>10. Good(cfg, g4, B) /\ BlockIds(g3) \subseteq BlockIds(g4)
  BY <1>8, <1>9, JumpEdgeStep
<1> HIDE DEF g4
<1>11. /\ header \in BlockIds(g4) /\ body \in BlockIds(g4) /\ end \in BlockIds(g4)
       /\ incr \in BlockIds(g4)
  BY <1>2, <1>6, <1>7, <1>8, <1>10
<1>12. Good(cfg, g5, C) /\ BlockIds(g4) \subseteq BlockIds(g5)
  BY <1>6, <1>10, <1>11, LoopTestStep
<1> HIDE DEF g5, C
<1>13. /\ header \in BlockIds(g5) /\ body \in BlockIds(g5) /\ end \in BlockIds(g5)
       /\ incr \in BlockIds(g5) /\ BlockIds(cfg) \subseteq BlockIds(g5)
  BY <1>1, <1>4, <1>5, <1>7, <1>8, <1>10, <1>11, <1>12
<1> QED
  BY <1>0, <1>3, <1>12, <1>13, EnterLoop DEF R

\* end_for preserves the invariant.
LEMMA EndForAction == ASSUME IInv, end_for PROVE Preserved
<1> DEFINE R == ReservedBy(open)
           b == back_edge(cfg, Top.body, Top.incr)
           g1 == set_current_block(b, Top.incr)
           g2 == emit_instruction(g1, Op(<<Top.tok, "incr">>))
           h == back_edge(g2, Top.incr, Top.head)
           g3 == set_current_block(h, Top.exit)
           g == mark_if_terminated(g3, Top.exit)
           B == R \ {Top.incr}
           C == R \ Reserved(Top)
<1>0. Leave(g) /\ exit_loop /\ UNCHANGED <<in_else, phase>> /\ open # <<>> /\ Top.k = "for"
  BY DEF end_for, IsOpen
<1>1. /\ Top.exit \in BlockIds(cfg) /\ Top.body \in BlockIds(cfg) /\ Top.head \in BlockIds(cfg)
      /\ Top.incr \in BlockIds(cfg) /\ Top.tok \in Nat
      /\ Good(cfg, cfg, R) /\ in_else' \in BOOLEAN
  BY <1>0, TopFacts
<1>2. B \ {Top.exit} = C /\ "incr" \in Parts
  BY <1>0 DEF Reserved, Parts
<1>3. Good(cfg, b, R) /\ BlockIds(cfg) \subseteq BlockIds(b)
  BY <1>1, BackEdgeStep
<1> HIDE DEF b, R
<1>4. Good(cfg, g1, B) /\ BlockIds(g1) = BlockIds(b)
  BY <1>1, <1>3, SetStep
<1> HIDE DEF g1, B
<1>5. Good(cfg, g2, B) /\ BlockIds(g1) \subseteq BlockIds(g2)
  BY <1>1, <1>2, <1>4, EmitStep, Instructions
<1> HIDE DEF g2
<1>6. Top.incr \in BlockIds(g2) /\ Top.head \in BlockIds(g2) /\ Top.exit \in BlockIds(g2)
  BY <1>1, <1>3, <1>4, <1>5
<1>7. Good(cfg, h, B) /\ BlockIds(g2) \subseteq BlockIds(h)
  BY <1>5, <1>6, BackEdgeStep
<1> HIDE DEF h
<1>8. Good(cfg, g, C) /\ BlockIds(g) = BlockIds(h)
  BY <1>2, <1>6, <1>7, SetStep
<1> HIDE DEF g
<1>9. BlockIds(cfg) \subseteq BlockIds(g)
  BY <1>3, <1>4, <1>5, <1>7, <1>8
<1> QED
  BY <1>0, <1>1, <1>8, <1>9, LeaveStep DEF R

\* emit_iter_stmt preserves the invariant.
LEMMA IterAction == ASSUME IInv, emit_iter_stmt PROVE Preserved
<1> DEFINE R == ReservedBy(open)
           N == cfg.n..(cfg.n + 4 - 1)
           header == cfg.n
           body == cfg.n + 1
           incr == cfg.n + 2
           exit == cfg.n + 3
           d == create_blocks(cfg, 4)
           g1 == emit_instruction(d, Op(<<Here, "init">>))
           g2 == jump_to(g1, header)
           g3 == emit_loop_test(g2, Here, "plain", header, body, exit)
           B == R \cup N
           C == B \ {header, body}
<1>0. /\ Enter(Frame("iter", header, body, incr, exit, 0), Token("iter", 0, "plain"), g3)
      /\ enter_loop(exit, incr) /\ UNCHANGED <<in_else, phase>>
      /\ Token("iter", 0, "plain") \in TokenType /\ "iter" \in LoopKinds
  BY Tokens DEF emit_iter_stmt, LoopKinds
<1>1. /\ Good(cfg, d, B) /\ BlockIds(cfg) \subseteq BlockIds(d)
      /\ N \subseteq BlockIds(d) /\ cfg.n \in Nat /\ \A b \in N : b \notin R
  BY NewBlocks
<1>2. /\ header \in N /\ body \in N /\ incr \in N /\ exit \in N
      /\ exit \notin {header, body} /\ incr \notin {header, body}
  BY <1>1
<1>3. /\ R \subseteq C /\ exit \in C /\ exit \notin R /\ incr \in C /\ incr \notin R
      /\ "init" \in Parts /\ Here \in Nat
  BY <1>1, <1>2, StateGood DEF Parts
<1> HIDE DEF R, N, d, header, body, incr, exit, B
<1>4. Good(cfg, g1, B) /\ BlockIds(d) \subseteq BlockIds(g1)
  BY <1>1, <1>3, EmitStep, Instructions
<1> HIDE DEF g1
<1>5. header \in BlockIds(g1)
  BY <1>1, <1>2, <1>4
<1>6. Good(cfg, g2, B) /\ BlockIds(g1) \subseteq BlockIds(g2)
  BY <1>4, <1>5, JumpStep
<1> HIDE DEF g2
<1>7. /\ header \in BlockIds(g2) /\ body \in BlockIds(g2) /\ incr \in BlockIds(g2)
      /\ exit \in BlockIds(g2)
  BY <1>1, <1>2, <1>4, <1>6
<1>8. Good(cfg, g3, C) /\ BlockIds(g2) \subseteq BlockIds(g3)
  BY <1>3, <1>6, <1>7, LoopTestStep
<1> HIDE DEF g3, C
<1>9. /\ header \in BlockIds(g3) /\ body \in BlockIds(g3) /\ incr \in BlockIds(g3)
      /\ exit \in BlockIds(g3) /\ BlockIds(cfg) \subseteq BlockIds(g3)
  BY <1>1, <1>4, <1>6, <1>7, <1>8
<1> QED
  BY <1>0, <1>3, <1>8, <1>9, EnterLoop DEF R

\* end_iter preserves the invariant.
LEMMA EndIterAction == ASSUME IInv, end_iter PROVE Preserved
<1> DEFINE R == ReservedBy(open)
           b == jump_edge_from(cfg, Top.body, Top.incr)
           g1 == set_current_block(b, Top.incr)
           g2 == emit_instruction(g1, Op(<<Top.tok, "incr">>))
           h == jump_edge_from(g2, Top.incr, Top.head)
           g == set_current_block(h, Top.exit)
           B == R \ {Top.incr}
           C == R \ Reserved(Top)
<1>0. Leave(g) /\ exit_loop /\ UNCHANGED <<in_else, phase>> /\ open # <<>> /\ Top.k = "iter"
  BY DEF end_iter, IsOpen
<1>1. /\ Top.exit \in BlockIds(cfg) /\ Top.body \in BlockIds(cfg) /\ Top.head \in BlockIds(cfg)
      /\ Top.incr \in BlockIds(cfg) /\ Top.tok \in Nat
      /\ Good(cfg, cfg, R) /\ in_else' \in BOOLEAN
  BY <1>0, TopFacts
<1>2. B \ {Top.exit} = C /\ "incr" \in Parts
  BY <1>0 DEF Reserved, Parts
<1>3. Good(cfg, b, R) /\ BlockIds(cfg) \subseteq BlockIds(b)
  BY <1>1, JumpEdgeStep
<1> HIDE DEF b, R
<1>4. Good(cfg, g1, B) /\ BlockIds(g1) = BlockIds(b)
  BY <1>1, <1>3, SetStep
<1> HIDE DEF g1, B
<1>5. Good(cfg, g2, B) /\ BlockIds(g1) \subseteq BlockIds(g2)
  BY <1>1, <1>2, <1>4, EmitStep, Instructions
<1> HIDE DEF g2
<1>6. Top.incr \in BlockIds(g2) /\ Top.head \in BlockIds(g2) /\ Top.exit \in BlockIds(g2)
  BY <1>1, <1>3, <1>4, <1>5
<1>7. Good(cfg, h, B) /\ BlockIds(g2) \subseteq BlockIds(h)
  BY <1>5, <1>6, JumpEdgeStep
<1> HIDE DEF h
<1>8. Good(cfg, g, C) /\ BlockIds(g) = BlockIds(h)
  BY <1>2, <1>6, <1>7, SetStep
<1> HIDE DEF g
<1>9. BlockIds(cfg) \subseteq BlockIds(g)
  BY <1>3, <1>4, <1>5, <1>7, <1>8
<1> QED
  BY <1>0, <1>1, <1>8, <1>9, LeaveStep DEF R

\* emit_index_iter_stmt preserves the invariant.
LEMMA IndexAction == ASSUME IInv, emit_index_iter_stmt PROVE Preserved
<1> DEFINE R == ReservedBy(open)
           N == cfg.n..(cfg.n + 3 - 1)
           header == cfg.n
           body == cfg.n + 1
           exit == cfg.n + 2
           d == create_blocks(cfg, 3)
           g1 == emit_instruction(d, Op(<<Here, "init">>))
           j == jump_to(g1, header)
           g2 == emit_loop_test(j, Here, "plain", header, body, exit)
           g3 == emit_instruction(g2, Op(<<Here, "elem">>))
           B == R \cup N
           C == B \ {header, body}
<1>0. /\ Enter(Frame("index", header, body, header, exit, 0), Token("index", 0, "plain"), g3)
      /\ enter_loop(exit, 0) /\ UNCHANGED <<in_else, phase>>
      /\ Token("index", 0, "plain") \in TokenType
      /\ "index" \in LoopKinds /\ "index" \notin {"for", "iter"}
  BY Tokens DEF emit_index_iter_stmt, LoopKinds
<1>1. /\ Good(cfg, d, B) /\ BlockIds(cfg) \subseteq BlockIds(d)
      /\ N \subseteq BlockIds(d) /\ cfg.n \in Nat /\ \A b \in N : b \notin R
  BY NewBlocks
<1>2. header \in N /\ body \in N /\ exit \in N /\ exit \notin {header, body}
  BY <1>1
<1>3. /\ R \subseteq C /\ exit \in C /\ exit \notin R
      /\ "init" \in Parts /\ "elem" \in Parts /\ Here \in Nat
  BY <1>1, <1>2, StateGood DEF Parts
<1>3a. 0 \in BlockIds(d)
  BY <1>1, <1>2 DEF BlockIds
<1> HIDE DEF R, N, d, header, body, exit, B
<1>4. Good(cfg, g1, B) /\ BlockIds(d) \subseteq BlockIds(g1)
  BY <1>1, <1>3, EmitStep, Instructions
<1> HIDE DEF g1
<1>5. header \in BlockIds(g1)
  BY <1>1, <1>2, <1>4
<1>6. Good(cfg, j, B) /\ BlockIds(g1) \subseteq BlockIds(j)
  BY <1>4, <1>5, JumpStep
<1> HIDE DEF j
<1>7. header \in BlockIds(j) /\ body \in BlockIds(j) /\ exit \in BlockIds(j)
  BY <1>1, <1>2, <1>4, <1>6
<1>8. Good(cfg, g2, C) /\ BlockIds(j) \subseteq BlockIds(g2)
  BY <1>3, <1>6, <1>7, LoopTestStep
<1> HIDE DEF g2, C
<1>9. Good(cfg, g3, C) /\ BlockIds(g2) \subseteq BlockIds(g3)
  BY <1>3, <1>8, EmitStep, Instructions
<1> HIDE DEF g3
<1>10. /\ header \in BlockIds(g3) /\ body \in BlockIds(g3) /\ exit \in BlockIds(g3)
       /\ 0 \in BlockIds(g3) /\ BlockIds(cfg) \subseteq BlockIds(g3)
  BY <1>1, <1>3a, <1>4, <1>6, <1>7, <1>8, <1>9
<1> QED
  BY <1>0, <1>3, <1>9, <1>10, EnterLoop DEF R

\* end_index_iter preserves the invariant.
LEMMA EndIndexAction == ASSUME IInv, end_index_iter PROVE Preserved
<1> DEFINE R == ReservedBy(open)
           g1 == emit_instruction(cfg, Op(<<Top.tok, "incr">>))
           h == jump_edge_from(g1, Top.body, Top.head)
           g == set_current_block(h, Top.exit)
<1>0. Leave(g) /\ exit_loop /\ UNCHANGED <<in_else, phase>> /\ open # <<>> /\ Top.k = "index"
  BY DEF end_index_iter, IsOpen
<1>1. /\ Top.exit \in BlockIds(cfg) /\ Top.body \in BlockIds(cfg) /\ Top.head \in BlockIds(cfg)
      /\ Top.tok \in Nat /\ Good(cfg, cfg, R) /\ in_else' \in BOOLEAN
  BY <1>0, TopFacts
<1>2. Reserved(Top) = {Top.exit} /\ "incr" \in Parts
  BY <1>0 DEF Reserved, Parts
<1> HIDE DEF R
<1>3. Good(cfg, g1, R) /\ BlockIds(cfg) \subseteq BlockIds(g1)
  BY <1>1, <1>2, EmitStep, Instructions
<1> HIDE DEF g1
<1>4. Top.body \in BlockIds(g1) /\ Top.head \in BlockIds(g1) /\ Top.exit \in BlockIds(g1)
  BY <1>1, <1>3
<1>5. Good(cfg, h, R) /\ BlockIds(g1) \subseteq BlockIds(h)
  BY <1>3, <1>4, JumpEdgeStep
<1> HIDE DEF h
<1>6. Good(cfg, g, R \ {Top.exit}) /\ BlockIds(g) = BlockIds(h)
  BY <1>4, <1>5, SetStep
<1> HIDE DEF g
<1>7. BlockIds(cfg) \subseteq BlockIds(g)
  BY <1>3, <1>5, <1>6
<1> QED
  BY <1>0, <1>1, <1>2, <1>6, <1>7, LeaveStep DEF R

\* emit_channel_iter_stmt preserves the invariant.
LEMMA ChannelAction == ASSUME IInv, emit_channel_iter_stmt PROVE Preserved
<1> DEFINE R == ReservedBy(open)
           N == cfg.n..(cfg.n + 3 - 1)
           header == cfg.n
           body == cfg.n + 1
           exit == cfg.n + 2
           d == create_blocks(cfg, 3)
           j == jump_to(d, header)
           g1 == set_current_block(j, header)
           g2 == emit_instruction(g1, JumpIf(Here, exit, <<Here, "cond">>))
           g3 == add_block_edge(add_block_edge(g2, header, body), header, exit)
           s == set_current_block(g3, body)
           g4 == emit_instruction(s, Op(<<Here, "elem">>))
           A == R \cup N
           B == A \ {header}
           C == B \ {body}
<1>0. /\ Enter(Frame("chan", header, body, header, exit, 0), Token("chan", 0, "plain"), g4)
      /\ enter_loop(exit, 0) /\ UNCHANGED <<in_else, phase>>
      /\ Token("chan", 0, "plain") \in TokenType
      /\ "chan" \in LoopKinds /\ "chan" \notin {"for", "iter"}
  BY Tokens DEF emit_channel_iter_stmt, LoopKinds
<1>1. /\ Good(cfg, d, A) /\ BlockIds(cfg) \subseteq BlockIds(d)
      /\ N \subseteq BlockIds(d) /\ cfg.n \in Nat /\ \A b \in N : b \notin R
  BY NewBlocks
<1>2. header \in N /\ body \in N /\ exit \in N /\ exit \notin {header, body}
  BY <1>1
<1>3. /\ R \subseteq C /\ exit \in C /\ exit \notin R
      /\ "cond" \in Parts /\ "elem" \in Parts /\ Here \in Nat
  BY <1>1, <1>2, StateGood DEF Parts
<1>3a. 0 \in BlockIds(d)
  BY <1>1, <1>2 DEF BlockIds
<1> HIDE DEF R, N, d, header, body, exit, A
<1>4. header \in BlockIds(d) /\ body \in BlockIds(d) /\ exit \in BlockIds(d)
  BY <1>1, <1>2
<1>5. Good(cfg, j, A) /\ BlockIds(d) \subseteq BlockIds(j)
  BY <1>1, <1>4, JumpStep
<1> HIDE DEF j
<1>6. Good(cfg, g1, B) /\ BlockIds(g1) = BlockIds(j)
  BY <1>4, <1>5, SetStep
<1> HIDE DEF g1, B
<1>7. exit \in BlockIds(g1)
  BY <1>4, <1>5, <1>6
<1>8. Good(cfg, g2, B) /\ BlockIds(g1) \subseteq BlockIds(g2)
  BY <1>3, <1>6, <1>7, EmitStep, Instructions
<1> HIDE DEF g2
<1>9. header \in BlockIds(g2) /\ body \in BlockIds(g2) /\ exit \in BlockIds(g2)
  BY <1>4, <1>5, <1>6, <1>8
<1>10. Good(cfg, g3, B) /\ BlockIds(g3) = BlockIds(g2)
  BY <1>8, <1>9, TwoEdges
<1> HIDE DEF g3
<1>11. Good(cfg, s, C) /\ BlockIds(s) = BlockIds(g3)
  BY <1>9, <1>10, SetStep
<1> HIDE DEF s, C
<1>12. Good(cfg, g4, C) /\ BlockIds(s) \subseteq BlockIds(g4)
  BY <1>3, <1>11, EmitStep, Instructions
<1> HIDE DEF g4
<1>13. /\ header \in BlockIds(g4) /\ body \in BlockIds(g4) /\ exit \in BlockIds(g4)
       /\ 0 \in BlockIds(g4) /\ BlockIds(cfg) \subseteq BlockIds(g4)
  BY <1>1, <1>3a, <1>5, <1>6, <1>8, <1>9, <1>10, <1>11, <1>12
<1> QED
  BY <1>0, <1>3, <1>12, <1>13, EnterLoop DEF R

\* end_channel_iter preserves the invariant.
LEMMA EndChannelAction == ASSUME IInv, end_channel_iter PROVE Preserved
<1> DEFINE R == ReservedBy(open)
           h == jump_edge_from(cfg, Top.body, Top.head)
           g == set_current_block(h, Top.exit)
<1>0. Leave(g) /\ exit_loop /\ UNCHANGED <<in_else, phase>> /\ open # <<>> /\ Top.k = "chan"
  BY DEF end_channel_iter, IsOpen
<1>1. /\ Top.exit \in BlockIds(cfg) /\ Top.body \in BlockIds(cfg) /\ Top.head \in BlockIds(cfg)
      /\ Good(cfg, cfg, R) /\ in_else' \in BOOLEAN
  BY <1>0, TopFacts
<1>2. Reserved(Top) = {Top.exit}
  BY <1>0 DEF Reserved
<1> HIDE DEF R
<1>3. Good(cfg, h, R) /\ BlockIds(cfg) \subseteq BlockIds(h)
  BY <1>1, JumpEdgeStep
<1> HIDE DEF h
<1>4. Good(cfg, g, R \ {Top.exit}) /\ BlockIds(g) = BlockIds(h)
  BY <1>1, <1>3, SetStep
<1> HIDE DEF g
<1> QED
  BY <1>0, <1>1, <1>2, <1>3, <1>4, LeaveStep DEF R

(***************************************************************************)
(* Match.                                                                   *)
(***************************************************************************)
LEMMA MatchAction ==
    ASSUME IInv, NEW value \in {"plain", "bare"}, NEW cases \in 1..MaxCases,
           begin_match(value, cases)
    PROVE  Preserved
<1> DEFINE R == ReservedBy(open)
           g1 == IF value = "bare" THEN cfg ELSE emit_instruction(cfg, Op(<<Here, "match">>))
           exit == g1.n
           k == 1 + 2 * cases
           N == exit..(exit + k - 1)
           g2 == create_blocks(g1, k)
           g3 == jump_unless_terminated(g2, exit + 1)
           f == Frame("match", exit + 1, exit + 2, exit, exit, cases)
<1>0. /\ Enter(f, Token("match", 0, value), g3) /\ UNCHANGED <<loops, in_else, phase>>
      /\ Token("match", 0, value) \in TokenType
  BY Tokens DEF begin_match
<1>1. /\ Good(cfg, cfg, R) /\ "match" \in Parts /\ "match" \in FrameKinds /\ Here \in Nat
      /\ cases \in Nat /\ cases >= 1 /\ in_else' \in BOOLEAN
  BY <1>0, StateGood, BoundsAssumption DEF Parts, FrameKinds
<1>2. Good(cfg, g1, R) /\ BlockIds(cfg) \subseteq BlockIds(g1)
  BY <1>1, EmitStep, Instructions
<1> HIDE DEF g1, R
<1>3. k \in Nat
  BY <1>1
<1>4. /\ Good(cfg, g2, R \cup N) /\ BlockIds(g1) \subseteq BlockIds(g2)
      /\ exit \in Nat /\ N \subseteq BlockIds(g2) /\ \A b \in N : b \notin R
  <2> HIDE DEF k
  <2> QED
    BY <1>2, <1>3, CreateStep
<1>5. exit \in N /\ exit + 1 \in N /\ exit + 2 \in N
  BY <1>1, <1>4
<1>6. /\ f \in FrameType /\ f.k = "match" /\ f.idx = 0 /\ f.cnt = cases
      /\ f.head = exit + 1 /\ f.body = exit + 2 /\ f.incr = exit /\ f.exit = exit
  <2> DEFINE h == exit + 1
             b == exit + 2
  <2>1. h \in Nat /\ b \in Nat
    BY <1>4
  <2> HIDE DEF exit, h, b
  <2>2. /\ Frame("match", h, b, exit, exit, cases) \in FrameType
        /\ LET F == Frame("match", h, b, exit, exit, cases)
           IN  /\ F.k = "match" /\ F.idx = 0 /\ F.cnt = cases
               /\ F.head = h /\ F.body = b /\ F.incr = exit /\ F.exit = exit
    <3>1. Here \in Nat /\ exit \in Nat /\ cases \in Nat /\ "match" \in FrameKinds
      BY <1>1, <1>4
    <3> QED
      BY <2>1, <3>1 DEF Frame, FrameType
  <2> QED
    BY <2>2 DEF h, b
<1> HIDE DEF f
<1>7. Reserved(f) = N
  <2>1. Reserved(f) = {exit} \cup ((exit + 1 + 2 * 0)..(exit + 1 + 2 * cases - 1))
    BY <1>6 DEF Reserved
  <2> HIDE DEF exit
  <2> QED
    BY <1>1, <1>4, <2>1
<1>8. Good(cfg, g3, R \cup N) /\ BlockIds(g2) \subseteq BlockIds(g3)
  <2>1. exit + 1 \in BlockIds(g2)
    BY <1>4, <1>5
  <2> HIDE DEF g2, N, exit
  <2> QED
    BY <1>4, <2>1, JumpStep
<1> HIDE DEF g3, g2, N
<1>9. FrameOK(g3, f)
  <2>1. exit \in BlockIds(g3) /\ exit + 1 \in BlockIds(g3) /\ exit + 2 \in BlockIds(g3)
    BY <1>4, <1>5, <1>8
  <2> HIDE DEF exit
  <2> QED
    BY <1>1, <1>4, <1>6, <2>1 DEF FrameOK
<1>10. BlockIds(cfg) \subseteq BlockIds(g3)
  BY <1>2, <1>4, <1>8
<1>11. LoopsType(g3, loops')
  BY <1>0, <1>10, StateGood, GrowTypes
<1>12. Reserved(f) \cap R = {} /\ phase' = phase
  BY <1>0, <1>4, <1>7
<1> QED
  BY <1>0, <1>1, <1>6, <1>7, <1>8, <1>9, <1>10, <1>11, <1>12, EnterStep DEF R

\* emit_match_case preserves the invariant.
LEMMA CaseAction == ASSUME IInv, emit_match_case PROVE Preserved
<1> DEFINE R == ReservedBy(open)
           pat == Top.head + 2 * Top.idx
           next == IF Top.idx + 1 < Top.cnt THEN pat + 2 ELSE Top.exit
           g1 == IF Top.idx = 0 THEN cfg ELSE jump_unless_terminated(cfg, Top.exit)
           g == set_current_block(g1, pat)
           s == [open EXCEPT ![Len(open)].idx = Top.idx + 1]
           f == [Top EXCEPT !.idx = Top.idx + 1]
           p == Frame("pattern", pat, pat + 1, next, next, 0)
<1>0. /\ Statement(Token("case", Top.tok, "plain"), g) /\ open' = Append(s, p)
      /\ UNCHANGED <<loops, in_else, phase>>
      /\ open # <<>> /\ Top.k = "match" /\ Top.idx < Top.cnt
  BY DEF emit_match_case, IsOpen
<1>1. /\ Top \in FrameType /\ Reserved(Top) \subseteq R
      /\ Top.head \in Nat /\ Top.exit \in BlockIds(cfg) /\ Top.exit \in Nat
      /\ Top.tok \in Nat /\ Top.cnt \in Nat /\ Top.idx \in Nat
      /\ Good(cfg, cfg, R) /\ Here \in Nat
  BY <1>0, TopFacts DEF FrameType
<1>2. Top.exit < Top.head
  BY <1>0, StateGood, PopStack DEF Top, FrameOK
<1>3. Reserved(Top) = {Top.exit} \cup ((Top.head + 2 * Top.idx)..(Top.head + 2 * Top.cnt - 1))
  BY <1>0 DEF Reserved
<1>4. /\ pat \in Reserved(Top) /\ pat + 1 \in Reserved(Top) /\ pat # Top.exit
      /\ pat + 1 # Top.exit /\ next \in Reserved(Top) /\ pat \in Nat /\ next \in Nat
  <2> DEFINE h == Top.head
             e == Top.exit
             i == Top.idx
             c == Top.cnt
  <2>1. h \in Nat /\ e \in Nat /\ i \in Nat /\ c \in Nat /\ i < c /\ e < h
    BY <1>0, <1>1, <1>2
  <2>2. Reserved(Top) = {e} \cup ((h + 2 * i)..(h + 2 * c - 1))
    BY <1>3
  <2>3. pat = h + 2 * i /\ next = IF i + 1 < c THEN h + 2 * i + 2 ELSE e
    OBVIOUS
  <2> HIDE DEF h, e, i, c, pat, next
  <2>4. /\ pat \in (h + 2 * i)..(h + 2 * c - 1) /\ pat + 1 \in (h + 2 * i)..(h + 2 * c - 1)
        /\ pat # e /\ pat + 1 # e /\ pat \in Nat /\ next \in Nat
    BY <2>1, <2>3
  <2>5. next \in {e} \cup ((h + 2 * i)..(h + 2 * c - 1))
    BY <2>1, <2>3
  <2> QED
    BY <2>2, <2>4, <2>5 DEF e
<1>5. R \subseteq BlockIds(cfg)
  BY <1>1, GoodFacts
<1>6. f.k = "match" /\ f.cnt = Top.cnt /\ f.idx = Top.idx + 1 /\ f.exit = Top.exit
      /\ f.head = Top.head
  BY <1>0, <1>1 DEF FrameType
<1>7. /\ Reserved(f) \subseteq Reserved(Top) /\ pat \notin Reserved(f)
      /\ pat + 1 \notin Reserved(f)
  <2> HIDE DEF f
  <2>1. Reserved(f) = {Top.exit} \cup
                      ((Top.head + 2 * (Top.idx + 1))..(Top.head + 2 * Top.cnt - 1))
    BY <1>6 DEF Reserved
  <2> QED
    BY <1>1, <1>3, <1>4, <2>1
<1>8. Stack(cfg, s) /\ ReservedBy(s) \subseteq (R \ Reserved(Top)) \cup Reserved(f)
  <2> HIDE DEF f
  <2>1. f = [open[Len(open)] EXCEPT !.idx = Top.idx + 1] /\ Top = open[Len(open)]
    BY DEF f, Top
  <2>2. Reserved(f) \subseteq Reserved(Top)
    BY <1>7
  <2>3. Stack(cfg, open)
    BY StateGood
  <2>4. Top.idx + 1 \in Nat /\ Top.idx + 1 <= Top.cnt
    <3>1. Top.idx \in Nat /\ Top.cnt \in Nat
      BY <1>1
    <3>2. Top.idx < Top.cnt
      BY <1>0
    <3> QED
      BY <3>1, <3>2
  <2>5. Top.idx + 1 <= open[Len(open)].cnt
    BY <2>4 DEF Top
  <2> QED
    BY <1>0, <2>1, <2>2, <2>3, <2>4, <2>5, AdvanceStack
<1>9. /\ p \in FrameType /\ p.k = "pattern" /\ p.idx = 0 /\ p.cnt = 0
      /\ p.head = pat /\ p.body = pat + 1 /\ p.incr = next /\ p.exit = next
  <2> DEFINE b == pat + 1
  <2>1. "pattern" \in FrameKinds /\ b \in Nat
    BY <1>4 DEF FrameKinds
  <2> HIDE DEF pat, next, b
  <2>2. /\ Frame("pattern", pat, b, next, next, 0) \in FrameType
        /\ LET F == Frame("pattern", pat, b, next, next, 0)
           IN  /\ F.k = "pattern" /\ F.idx = 0 /\ F.cnt = 0
               /\ F.head = pat /\ F.body = b /\ F.incr = next /\ F.exit = next
    <3>1. Here \in Nat /\ pat \in Nat /\ next \in Nat
      BY <1>1, <1>4
    <3> QED
      BY <2>1, <3>1 DEF Frame, FrameType
  <2> QED
    BY <2>2 DEF b
<1> HIDE DEF s, f, p, R, pat, next
<1>10. FrameOK(cfg, p)
  <2>1. pat \in BlockIds(cfg) /\ pat + 1 \in BlockIds(cfg) /\ next \in BlockIds(cfg)
    BY <1>1, <1>4, <1>5
  <2> QED
    BY <1>9, <2>1 DEF FrameOK
<1>11. Reserved(p) = {pat + 1}
  BY <1>9 DEF Reserved
<1>12. Reserved(p) \cap ReservedBy(s) = {}
  BY <1>4, <1>7, <1>8, <1>11
<1>13. /\ Stack(cfg, Append(s, p))
       /\ ReservedBy(Append(s, p)) = ReservedBy(s) \cup Reserved(p)
  BY <1>8, <1>9, <1>10, <1>12, PushStack
<1>14. Good(cfg, g1, R) /\ BlockIds(cfg) \subseteq BlockIds(g1)
  BY <1>1, JumpStep
<1> HIDE DEF g1
<1>15. Good(cfg, g, R \ {pat}) /\ BlockIds(g) = BlockIds(g1)
  <2>1. pat \in BlockIds(g1)
    BY <1>1, <1>4, <1>5, <1>14
  <2> QED
    BY <1>14, <2>1, SetStep
<1> HIDE DEF g
<1>16. ReservedBy(Append(s, p)) \subseteq R \ {pat}
  <2>1. pat + 1 # pat
    BY <1>4
  <2> QED
    BY <1>1, <1>4, <1>7, <1>8, <1>11, <1>13, <2>1
<1>17. Good(cfg, g, ReservedBy(Append(s, p)))
  BY <1>15, <1>16, GoodSubset
<1>18. Stack(g, Append(s, p)) /\ LoopsType(g, loops)
  BY <1>13, <1>14, <1>15, StateGood, GrowTypes
<1>19. src' \in Seq(TokenType) /\ cfg' = g
  BY <1>0, <1>1, Tokens, StateGood, AppendFacts DEF Statement
<1> QED
  BY <1>0, <1>17, <1>18, <1>19, StateGood, Conclude

\* A pattern's test preserves the invariant.
LEMMA PatternAction ==
    ASSUME IInv, NEW form \in {"test", "never"}, emit_pattern(form)
    PROVE  Preserved
<1> DEFINE R == ReservedBy(open)
           h == emit_instruction(cfg, JumpIfFalse(Here, Top.exit, <<Here, "pattern">>))
           e == add_block_edge(h, h.cur, Top.exit)
           g == IF form = "never" THEN jump_to(cfg, Top.exit) ELSE e
<1>0. /\ Statement(Token("part", Top.tok, form), g) /\ open # <<>>
      /\ UNCHANGED <<loops, open, in_else, phase>>
  BY DEF emit_pattern, IsOpen
<1>1. /\ Top.exit \in BlockIds(cfg) /\ Top.tok \in Nat /\ Good(cfg, cfg, R) /\ Here \in Nat
      /\ "pattern" \in Parts
  BY <1>0, TopFacts DEF Parts
<1>2. Token("part", Top.tok, form) \in TokenType
  BY <1>1, Tokens
<1> HIDE DEF R
<1>3. Good(cfg, jump_to(cfg, Top.exit), R) /\ BlockIds(cfg) \subseteq BlockIds(jump_to(cfg, Top.exit))
  BY <1>1, JumpStep
<1>4. Good(cfg, h, R) /\ BlockIds(cfg) \subseteq BlockIds(h) /\ h.cur \in BlockIds(h)
  BY <1>1, EmitStep, Instructions
<1> HIDE DEF h
<1>5. Good(cfg, e, R) /\ BlockIds(e) = BlockIds(h)
  BY <1>1, <1>4, EdgeStep
<1> HIDE DEF e
<1>6. Good(cfg, g, R) /\ BlockIds(cfg) \subseteq BlockIds(g)
  BY <1>3, <1>4, <1>5
<1> HIDE DEF g
<1> QED
  BY <1>0, <1>2, <1>6, PlainStep DEF R

\* The start of a case body preserves the invariant.
LEMMA CaseBodyAction ==
    ASSUME IInv, NEW guard \in {"guard", "plain"}, emit_case(guard)
    PROVE  Preserved
<1> DEFINE R == ReservedBy(open)
           guarded == guard = "guard" /\ ~has_terminator(cfg, cfg.cur)
           g1 == IF guarded THEN emit_guard(cfg, Here, Top.body, Top.exit) ELSE cfg
           g2 == jump_unless_terminated(g1, Top.body)
           g == set_current_block(g2, Top.body)
<1>0. /\ Statement(Token("body", Top.tok, guard), g) /\ open # <<>> /\ Top.k = "pattern"
      /\ open' = Pop(open) /\ UNCHANGED <<loops, in_else, phase>>
  BY DEF emit_case, IsOpen
<1>1. /\ Top.exit \in BlockIds(cfg) /\ Top.body \in BlockIds(cfg) /\ Top.tok \in Nat
      /\ Good(cfg, cfg, R) /\ Here \in Nat
  BY <1>0, TopFacts
<1>2. Reserved(Top) = {Top.body}
  BY <1>0 DEF Reserved
<1>3. Token("body", Top.tok, guard) \in TokenType
  BY <1>1, Tokens
<1> HIDE DEF R
<1>4. Good(cfg, g1, R) /\ BlockIds(cfg) \subseteq BlockIds(g1)
  BY <1>1, GuardStep
<1> HIDE DEF g1
<1>5. Top.body \in BlockIds(g1)
  BY <1>1, <1>4
<1>6. Good(cfg, g2, R) /\ BlockIds(g1) \subseteq BlockIds(g2)
  BY <1>4, <1>5, JumpStep
<1> HIDE DEF g2
<1>7. Good(cfg, g, R \ {Top.body}) /\ BlockIds(g) = BlockIds(g2)
  BY <1>5, <1>6, SetStep
<1> HIDE DEF g
<1>8. Stack(cfg, Pop(open)) /\ ReservedBy(Pop(open)) \subseteq R \ {Top.body}
  BY <1>0, <1>2, StateGood, PopStack DEF Top, R
<1>9. Good(cfg, g, ReservedBy(Pop(open)))
  BY <1>7, <1>8, GoodSubset
<1>10. Stack(g, Pop(open)) /\ LoopsType(g, loops)
  BY <1>4, <1>6, <1>7, <1>8, StateGood, GrowTypes
<1>11. src' \in Seq(TokenType) /\ cfg' = g
  BY <1>0, <1>3, StateGood, AppendFacts DEF Statement
<1> QED
  BY <1>0, <1>9, <1>10, <1>11, StateGood, Conclude

\* end_match preserves the invariant.
LEMMA EndMatchAction == ASSUME IInv, end_match PROVE Preserved
<1> DEFINE R == ReservedBy(open)
           h == jump_unless_terminated(cfg, Top.exit)
           g == set_current_block(h, Top.exit)
<1>0. /\ Leave(g) /\ UNCHANGED <<loops, in_else, phase>> /\ open # <<>> /\ Top.k = "match"
      /\ Top.idx = Top.cnt
  BY DEF end_match, IsOpen
<1>1. /\ Top.exit \in BlockIds(cfg) /\ Good(cfg, cfg, R) /\ in_else' \in BOOLEAN
      /\ Top.head \in BlockIds(cfg) /\ Top.cnt \in Nat
  BY <1>0, TopFacts
<1>2. Reserved(Top) = {Top.exit}
  <2>1. Reserved(Top) = {Top.exit} \cup ((Top.head + 2 * Top.idx)..(Top.head + 2 * Top.cnt - 1))
    BY <1>0 DEF Reserved
  <2>2. Top.head \in Nat
    BY <1>1 DEF BlockIds
  <2> QED
    BY <1>0, <1>1, <2>1, <2>2
<1> HIDE DEF R
<1>3. Good(cfg, h, R) /\ BlockIds(cfg) \subseteq BlockIds(h)
  BY <1>1, JumpStep
<1> HIDE DEF h
<1>4. Good(cfg, g, R \ {Top.exit}) /\ BlockIds(g) = BlockIds(h)
  BY <1>1, <1>3, SetStep
<1> HIDE DEF g
<1> QED
  BY <1>0, <1>1, <1>2, <1>3, <1>4, LeaveStep DEF R

(***************************************************************************)
(* Errors.                                                                  *)
(***************************************************************************)
LEMMA QuestionAction == ASSUME IInv, emit_question_expr PROVE Preserved
<1> DEFINE g == emit_question(cfg, Here)
<1>1. /\ Statement(Token("question", 0, "plain"), g)
      /\ UNCHANGED <<loops, open, in_else, phase>>
      /\ Token("question", 0, "plain") \in TokenType
  BY Tokens DEF emit_question_expr
<1>2. Good(cfg, cfg, ReservedBy(open)) /\ Here \in Nat
  BY StateGood
<1>3. Good(cfg, g, ReservedBy(open)) /\ BlockIds(cfg) \subseteq BlockIds(g)
  BY <1>2, QuestionStep
<1> HIDE DEF g
<1> QED
  BY <1>1, <1>3, PlainStep

\* emit_propagate_expr preserves the invariant.
LEMMA PropagateAction == ASSUME IInv, emit_propagate_expr PROVE Preserved
<1> DEFINE R == ReservedBy(open)
           r == begin_fallible(cfg, Here)
           cont == r.cur + 2
           g1 == emit_instruction(r, Return(<<Here, "propagate">>))
           g == set_current_block(g1, cont)
<1>1. /\ Statement(Token("propagate", 0, "plain"), g)
      /\ UNCHANGED <<loops, open, in_else, phase>>
      /\ Token("propagate", 0, "plain") \in TokenType
  BY Tokens DEF emit_propagate_expr
<1>2. Good(cfg, cfg, R) /\ Here \in Nat /\ "propagate" \in Parts
  BY StateGood DEF Parts
<1> HIDE DEF R
<1>3. /\ Good(cfg, r, R \cup {cont}) /\ cont \in BlockIds(r) /\ cont \notin R
      /\ BlockIds(cfg) \subseteq BlockIds(r)
  BY <1>2, FallibleStep
<1> HIDE DEF r, cont
<1>4. Good(cfg, g1, R \cup {cont}) /\ BlockIds(r) \subseteq BlockIds(g1)
  BY <1>2, <1>3, EmitStep, Instructions
<1> HIDE DEF g1
<1>5. Good(cfg, g, (R \cup {cont}) \ {cont}) /\ BlockIds(g) = BlockIds(g1)
  BY <1>3, <1>4, SetStep
<1> HIDE DEF g
<1>6. (R \cup {cont}) \ {cont} = R
  BY <1>3
<1>7. Good(cfg, g, R) /\ BlockIds(cfg) \subseteq BlockIds(g)
  BY <1>3, <1>4, <1>5, <1>6
<1> QED
  BY <1>1, <1>7, PlainStep DEF R

\* emit_fallible_else preserves the invariant.
LEMMA FallibleAction == ASSUME IInv, emit_fallible_else PROVE Preserved
<1> DEFINE R == ReservedBy(open)
           r == begin_fallible(cfg, Here)
           error == r.cur
           cont == r.cur + 2
           f == Frame("fallible", error, error, cont, cont, 0)
<1>1. /\ Enter(f, Token("fallible", 0, "plain"), r) /\ in_else' = TRUE
      /\ UNCHANGED <<loops, phase>> /\ Token("fallible", 0, "plain") \in TokenType
  BY Tokens DEF emit_fallible_else
<1>2. Good(cfg, cfg, R) /\ Here \in Nat /\ "fallible" \in FrameKinds /\ 0 \in Nat
  BY StateGood DEF FrameKinds
<1> HIDE DEF R
<1>3. /\ Good(cfg, r, R \cup {cont}) /\ error \in BlockIds(r) /\ cont \in BlockIds(r)
      /\ cont \notin R /\ BlockIds(cfg) \subseteq BlockIds(r)
  BY <1>2, FallibleStep
<1> HIDE DEF r, error, cont
<1>4. error \in Nat /\ cont \in Nat
  BY <1>3 DEF BlockIds
<1>5. /\ f \in FrameType /\ f.k = "fallible" /\ f.idx = 0 /\ f.cnt = 0
      /\ f.head = error /\ f.body = error /\ f.incr = cont /\ f.exit = cont
  BY <1>2, <1>4, Frames
<1> HIDE DEF f
<1>6. FrameOK(r, f)
  BY <1>3, <1>5 DEF FrameOK
<1>7. Reserved(f) = {cont}
  BY <1>5 DEF Reserved
<1>8. LoopsType(r, loops')
  BY <1>1, <1>3, StateGood, GrowTypes
<1>9. Reserved(f) \cap R = {} /\ phase' = phase /\ in_else' \in BOOLEAN
  BY <1>1, <1>3, <1>7
<1> QED
  BY <1>1, <1>3, <1>5, <1>6, <1>7, <1>8, <1>9, EnterStep DEF R

\* end_fallible_else preserves the invariant.
LEMMA EndFallibleAction == ASSUME IInv, end_fallible_else PROVE Preserved
<1> DEFINE R == ReservedBy(open)
           g1 == emit_instruction(cfg, Op(<<Top.tok, "default">>))
           h == jump_edge_from(g1, Top.head, Top.exit)
           g == set_current_block(h, Top.exit)
<1>0. /\ Leave(g) /\ UNCHANGED <<loops, phase>> /\ in_else' = FALSE
      /\ open # <<>> /\ Top.k = "fallible"
  BY DEF end_fallible_else, IsOpen
<1>1. /\ Top.exit \in BlockIds(cfg) /\ Top.head \in BlockIds(cfg)
      /\ Top.tok \in Nat /\ Good(cfg, cfg, R)
  BY <1>0, TopFacts
<1>2. Reserved(Top) = {Top.exit} /\ "default" \in Parts
  BY <1>0 DEF Reserved, Parts
<1> HIDE DEF R
<1>3. Good(cfg, g1, R) /\ BlockIds(cfg) \subseteq BlockIds(g1)
  BY <1>1, <1>2, EmitStep, Instructions
<1> HIDE DEF g1
<1>4. Top.head \in BlockIds(g1) /\ Top.exit \in BlockIds(g1)
  BY <1>1, <1>3
<1>5. Good(cfg, h, R) /\ BlockIds(g1) \subseteq BlockIds(h)
  BY <1>3, <1>4, JumpEdgeStep
<1> HIDE DEF h
<1>6. Good(cfg, g, R \ {Top.exit}) /\ BlockIds(g) = BlockIds(h)
  BY <1>4, <1>5, SetStep
<1> HIDE DEF g
<1>7. BlockIds(cfg) \subseteq BlockIds(g)
  BY <1>3, <1>5, <1>6
<1> QED
  BY <1>0, <1>1, <1>2, <1>6, <1>7, LeaveStep DEF R

\* finish_cfg_build preserves the invariant.
LEMMA FinishAction == ASSUME IInv, finish_cfg_build PROVE Preserved
<1> DEFINE g == IF has_terminator(cfg, cfg.cur) THEN cfg
                ELSE emit_instruction(cfg, Return(Silent))
<1>0. cfg' = g /\ phase' = "done" /\ UNCHANGED <<loops, open, in_else, src>>
  BY DEF finish_cfg_build
<1>1. Good(cfg, cfg, ReservedBy(open)) /\ InstOK(cfg, Return(Silent))
  <2>1. "stmt" \in Parts /\ 0 \in Nat
    BY DEF Parts
  <2> QED
    BY <2>1, StateGood, Instructions
<1>2. Good(cfg, g, ReservedBy(open)) /\ BlockIds(cfg) \subseteq BlockIds(g)
  BY <1>1, EmitStep
<1> HIDE DEF g
<1>3. Stack(g, open) /\ LoopsType(g, loops)
  BY <1>2, StateGood, GrowTypes
<1> QED
  BY <1>0, <1>2, <1>3, StateGood, Conclude

(***************************************************************************)
(* The theorems.                                                            *)
(***************************************************************************)
LEMMA InitIInv == Init => IInv
<1> SUFFICES ASSUME Init PROVE IInv
  OBVIOUS
<1>1. /\ cfg = Graph(2, [b \in 0..1 |-> NewBlock], 0) /\ loops = <<>> /\ open = <<>>
      /\ in_else = FALSE /\ src = <<>> /\ phase = "build"
  BY DEF Init
<1>2. NewBlock \in BlockType /\ NewBlock.ins = <<>> /\ NewBlock.succ = <<>>
      /\ NewBlock.pred = <<>> /\ NewBlock.terminated = FALSE
  BY DEF NewBlock, BlockType
<1>3. /\ cfg.n = 2 /\ cfg.cur = 0 /\ BlockIds(cfg) = 0..1
      /\ cfg.blocks = [b \in 0..1 |-> NewBlock]
  BY <1>1 DEF Graph, BlockIds
<1>3a. \A b \in BlockIds(cfg) : cfg.blocks[b] = NewBlock
  BY <1>3
<1> HIDE DEF NewBlock
<1>4. CfgType(cfg)
  BY <1>2, <1>3 DEF CfgType
<1>5. \A x : ~In(x, <<>>)
  BY DEF In
<1>6. Symmetric(cfg) /\ TargetsExist(cfg) /\ EndsBlocks(cfg)
  BY <1>2, <1>3a, <1>5 DEF Symmetric, TargetsExist, EndsBlocks
<1>7. ReservedBy(open) = {} /\ Disjoint(open)
  BY <1>1 DEF ReservedBy, Disjoint
<1>8. FramesType(cfg, open) /\ LoopsType(cfg, loops)
  BY <1>1 DEF FramesType, LoopsType
<1>9. Fresh(cfg, ReservedBy(open))
  BY <1>7 DEF Fresh
<1> QED
  BY <1>1, <1>4, <1>6, <1>7, <1>8, <1>9 DEF IInv, TypeOK, EdgesSymmetric, JumpTargetsExist,
     TerminatorLast, ReservedFresh

\* A stuttering step preserves the invariant.
LEMMA StutterIInv == ASSUME IInv, UNCHANGED vars PROVE Preserved
<1>1. UNCHANGED <<cfg, loops, open, in_else, src, phase>>
  BY DEF vars
<1> QED
  BY <1>1, StateGood, Conclude

\* Every step of the generator preserves the invariant.
LEMMA NextIInv == ASSUME IInv, Next PROVE Preserved
<1>1. emit_if_stmt => Preserved
  BY IfAction DEF emit_if_stmt
<1>2. (emit_while_stmt => Preserved) /\ (emit_for_stmt => Preserved)
  BY WhileAction, ForAction DEF emit_while_stmt, emit_for_stmt
<1>3. /\ emit_match_stmt => Preserved
      /\ emit_pattern_match => Preserved
      /\ emit_case_body => Preserved
  BY MatchAction, PatternAction, CaseBodyAction
     DEF emit_match_stmt, emit_pattern_match, emit_case_body
<1>4. /\ (emit_simple_stmt => Preserved) /\ (emit_break_stmt => Preserved)
      /\ (emit_continue_stmt => Preserved) /\ (emit_return_stmt => Preserved)
      /\ (emit_else => Preserved) /\ (end_if => Preserved)
  BY SimpleAction, BreakAction, ReturnAction, ElseAction, EndIfAction
<1>5. /\ (end_while => Preserved) /\ (end_for => Preserved)
      /\ (emit_iter_stmt => Preserved) /\ (end_iter => Preserved)
      /\ (emit_index_iter_stmt => Preserved) /\ (end_index_iter => Preserved)
      /\ (emit_channel_iter_stmt => Preserved) /\ (end_channel_iter => Preserved)
  BY EndWhileAction, EndForAction, IterAction, EndIterAction, IndexAction, EndIndexAction,
     ChannelAction, EndChannelAction
<1>6. /\ (emit_match_case => Preserved) /\ (end_match => Preserved)
      /\ (emit_question_expr => Preserved) /\ (emit_propagate_expr => Preserved)
      /\ (emit_fallible_else => Preserved) /\ (end_fallible_else => Preserved)
      /\ (finish_cfg_build => Preserved)
  BY CaseAction, EndMatchAction, QuestionAction, PropagateAction, FallibleAction,
     EndFallibleAction, FinishAction
<1> QED
  BY <1>1, <1>2, <1>3, <1>4, <1>5, <1>6 DEF Next

\* The invariant that carries the other theorems holds in every state of the
\* generator, for every program.
THEOREM InductiveInvariant == Spec => []IInv
<1>1. IInv /\ [Next]_vars => IInv'
  BY NextIInv, StutterIInv DEF Preserved
<1> QED
  BY <1>1, InitIInv, PTL DEF Spec

\* Whatever program the generator lowers, its graph, loop labels and open
\* statements stay well typed (generator/core.cpp, create_basic_block,
\* set_loop_labels).
THEOREM TypeCorrect == Spec => []TypeOK
<1>1. IInv => TypeOK
  BY DEF IInv
<1> QED
  BY <1>1, InductiveInvariant, PTL

\* For every program the graph under construction is one validate_cfg could
\* accept edge by edge: predecessors mirror successors, jumps and edges name
\* existing blocks, and terminators end their blocks.
THEOREM GraphWellFormed == Spec => [](EdgesSymmetric /\ JumpTargetsExist /\ TerminatorLast)
<1>1. IInv => EdgesSymmetric /\ JumpTargetsExist /\ TerminatorLast
  BY DEF IInv
<1> QED
  BY <1>1, InductiveInvariant, PTL

\* For every program, of any size and nesting, each block a lowering has set
\* aside is still empty and open when the lowering comes back to fill it.
THEOREM ReservedBlocksFresh == Spec => []ReservedFresh
<1>1. IInv => ReservedFresh
  BY DEF IInv
<1> QED
  BY <1>1, InductiveInvariant, PTL

\* emit_instruction and the lowerings never touch the code of a block that has
\* its terminator.
THEOREM TerminatedBlocksKept == Spec => TerminatedKept
<1>1. IInv /\ [Next]_vars => [Kept(cfg, cfg')]_cfg
  BY NextIInv, StutterIInv DEF Preserved
<1> QED
  BY <1>1, InductiveInvariant, PTL DEF Spec, TerminatedKept

\* The stack below its top.
LEMMA PopNonempty ==
    ASSUME NEW S, NEW s \in Seq(S), s # <<>>
    PROVE  /\ Len(s) \in Nat \ {0} /\ DOMAIN s = 1..Len(s)
           /\ Len(Pop(s)) = Len(s) - 1 /\ DOMAIN Pop(s) = 1..(Len(s) - 1)
           /\ \A i \in 1..(Len(s) - 1) : Pop(s)[i] = s[i]
<1>1. Len(s) \in Nat \ {0} /\ DOMAIN s = 1..Len(s)
  OBVIOUS
<1> QED
  BY <1>1 DEF Pop

(***************************************************************************)
(* The loop stack.                                                          *)
(***************************************************************************)
Matched(s, l) ==
    /\ Len(l) = LoopDepth(s, Len(s))
    /\ \A i \in DOMAIN s : s[i].k \in LoopKinds => l[LoopDepth(s, i)].end = s[i].exit

Labels == [end : Nat, continue : Nat]

\* Depth grows by one at each loop.
LEMMA DepthFacts ==
    ASSUME NEW s, NEW i \in Nat
    PROVE  /\ LoopDepth(s, i) \in Nat
           /\ LoopDepth(s, 0) = 0
           /\ LoopDepth(s, i + 1) = IF s[i + 1].k \in LoopKinds THEN LoopDepth(s, i) + 1
                                                                ELSE LoopDepth(s, i)
<1> DEFINE D(n) == {j \in 1..n : s[j].k \in LoopKinds}
<1>1. IsFiniteSet(D(i)) /\ Cardinality(D(i)) \in Nat
  <2>1. IsFiniteSet(1..i) /\ D(i) \in SUBSET (1..i)
    BY FS_Interval
  <2> QED
    BY <2>1, FS_Subset, FS_CardinalityType
<1>2. LoopDepth(s, 0) = 0
  <2>1. D(0) = {}
    OBVIOUS
  <2> QED
    BY <2>1, FS_EmptySet DEF LoopDepth
<1>3. CASE s[i + 1].k \in LoopKinds
  <2>1. D(i + 1) = D(i) \cup {i + 1} /\ i + 1 \notin D(i)
    BY <1>3
  <2> QED
    BY <1>1, <1>2, <1>3, <2>1, FS_AddElement DEF LoopDepth
<1>4. CASE s[i + 1].k \notin LoopKinds
  <2>1. D(i + 1) = D(i)
    BY <1>4
  <2> QED
    BY <1>1, <1>2, <1>4, <2>1 DEF LoopDepth
<1> QED
  BY <1>3, <1>4

\* The depth at a statement depends only on the kinds up to it.
LEMMA DepthSame ==
    ASSUME NEW s, NEW t, NEW i \in Nat, \A j \in 1..i : t[j].k = s[j].k
    PROVE  LoopDepth(t, i) = LoopDepth(s, i)
<1>1. {j \in 1..i : t[j].k \in LoopKinds} = {j \in 1..i : s[j].k \in LoopKinds}
  OBVIOUS
<1> QED
  BY <1>1 DEF LoopDepth

\* An inner loop has its own entry, above that of the loops around it.
LEMMA DepthBound ==
    ASSUME NEW s, NEW i \in Nat, NEW n \in Nat, i <= n
    PROVE  /\ LoopDepth(s, i) <= LoopDepth(s, n)
           /\ i > 0 /\ s[i].k \in LoopKinds => LoopDepth(s, i) > 0
           /\ i < n /\ s[n].k \in LoopKinds => LoopDepth(s, i) < LoopDepth(s, n)
<1> DEFINE D(m) == {j \in 1..m : s[j].k \in LoopKinds}
<1>1. IsFiniteSet(D(n)) /\ D(i) \in SUBSET D(n)
  <2>1. IsFiniteSet(1..n) /\ D(n) \in SUBSET (1..n)
    BY FS_Interval
  <2> QED
    BY <2>1, FS_Subset
<1>2. LoopDepth(s, i) \in Nat /\ LoopDepth(s, n) \in Nat /\ LoopDepth(s, i) <= LoopDepth(s, n)
  BY <1>1, FS_Subset, DepthFacts DEF LoopDepth
<1>3. i > 0 /\ s[i].k \in LoopKinds => LoopDepth(s, i) > 0
  <2> SUFFICES ASSUME i > 0, s[i].k \in LoopKinds PROVE LoopDepth(s, i) > 0
    OBVIOUS
  <2>1. i - 1 \in Nat /\ (i - 1) + 1 = i
    OBVIOUS
  <2>2. LoopDepth(s, i - 1) \in Nat /\ LoopDepth(s, i) = LoopDepth(s, i - 1) + 1
    BY <2>1, DepthFacts
  <2> QED
    BY <2>2
<1>4. i < n /\ s[n].k \in LoopKinds => LoopDepth(s, i) < LoopDepth(s, n)
  <2> SUFFICES ASSUME i < n, s[n].k \in LoopKinds PROVE LoopDepth(s, i) < LoopDepth(s, n)
    OBVIOUS
  <2>1. n \in D(n) /\ n \notin D(i)
    OBVIOUS
  <2>2. Cardinality(D(n)) # Cardinality(D(i))
    BY <1>1, <2>1, FS_Subset
  <2> QED
    BY <1>2, <2>2 DEF LoopDepth
<1> QED
  BY <1>2, <1>3, <1>4

\* Opening a statement: a loop pushes its labels, another leaves them alone.
LEMMA MatchedPush ==
    ASSUME NEW s \in Seq(FrameType), NEW l \in Seq(Labels), Matched(s, l),
           NEW f \in FrameType, NEW x \in Labels
    PROVE  /\ f.k \notin LoopKinds => Matched(Append(s, f), l)
           /\ f.k \in LoopKinds /\ x.end = f.exit => Matched(Append(s, f), Append(l, x))
<1> DEFINE t == Append(s, f)
           n == Len(s)
           m == Append(l, x)
<1>1. /\ n \in Nat /\ DOMAIN s = 1..n /\ Len(t) = n + 1 /\ DOMAIN t = 1..(n + 1)
      /\ (\A i \in 1..n : t[i] = s[i]) /\ t[n + 1] = f
      /\ Len(l) \in Nat /\ DOMAIN l = 1..Len(l) /\ Len(m) = Len(l) + 1
      /\ (\A i \in 1..Len(l) : m[i] = l[i]) /\ m[Len(l) + 1] = x
  OBVIOUS
<1> HIDE DEF t, n, m
<1>2. \A i \in 0..n : LoopDepth(t, i) = LoopDepth(s, i)
  BY <1>1, DepthSame
<1>3. /\ LoopDepth(t, n) = Len(l)
      /\ LoopDepth(t, n + 1) = IF f.k \in LoopKinds THEN Len(l) + 1 ELSE Len(l)
  <2>1. LoopDepth(t, n) = Len(l)
    BY <1>1, <1>2 DEF Matched, n
  <2>2. LoopDepth(t, n + 1) = IF t[n + 1].k \in LoopKinds THEN LoopDepth(t, n) + 1
                                                          ELSE LoopDepth(t, n)
    BY <1>1, DepthFacts
  <2> QED
    BY <1>1, <2>1, <2>2
<1>4. \A i \in 1..n : s[i].k \in LoopKinds => LoopDepth(s, i) \in 1..Len(l)
  <2> SUFFICES ASSUME NEW i \in 1..n, s[i].k \in LoopKinds
               PROVE  LoopDepth(s, i) \in 1..Len(l)
    OBVIOUS
  <2>1. i \in Nat /\ i <= n /\ i > 0
    BY <1>1
  <2>2. LoopDepth(s, i) \in Nat /\ LoopDepth(s, i) > 0 /\ LoopDepth(s, i) <= LoopDepth(s, n)
    BY <1>1, <2>1, DepthBound, DepthFacts
  <2> QED
    BY <1>1, <1>2, <1>3, <2>2
<1>5. \A i \in 1..n : s[i].k \in LoopKinds => l[LoopDepth(s, i)].end = s[i].exit
  BY <1>1 DEF Matched
<1>6. ASSUME f.k \notin LoopKinds PROVE Matched(t, l)
  <2>1. \A i \in 1..(n + 1) : i \in 1..n \/ i = n + 1
    BY <1>1
  <2> QED
    BY <1>1, <1>2, <1>3, <1>5, <1>6, <2>1 DEF Matched
<1>7. ASSUME f.k \in LoopKinds, x.end = f.exit PROVE Matched(t, m)
  <2>1. \A i \in 1..(n + 1) : i \in 1..n \/ i = n + 1
    BY <1>1
  <2> QED
    BY <1>1, <1>2, <1>3, <1>4, <1>5, <1>7, <2>1 DEF Matched
<1> QED
  BY <1>6, <1>7 DEF t, m

\* Closing the innermost statement: a loop pops its labels.
LEMMA MatchedPop ==
    ASSUME NEW s \in Seq(FrameType), s # <<>>, NEW l \in Seq(Labels), Matched(s, l)
    PROVE  /\ s[Len(s)].k \notin LoopKinds => Matched(Pop(s), l)
           /\ s[Len(s)].k \in LoopKinds => Matched(Pop(s), Pop(l))
<1> DEFINE t == Pop(s)
           n == Len(s)
           m == Pop(l)
<1>1. /\ n \in Nat \ {0} /\ DOMAIN s = 1..n /\ Len(t) = n - 1 /\ DOMAIN t = 1..(n - 1)
      /\ (\A i \in 1..(n - 1) : t[i] = s[i])
  BY PopNonempty
<1>1a. Len(l) \in Nat /\ (Len(l) > 0 => /\ Len(m) = Len(l) - 1
                                        /\ \A i \in 1..(Len(l) - 1) : m[i] = l[i])
  <2>1. Len(l) \in Nat /\ (Len(l) > 0 => l # <<>>)
    OBVIOUS
  <2> QED
    BY <2>1, PopNonempty
<1> HIDE DEF t, n, m
<1>2. \A i \in 0..(n - 1) : LoopDepth(t, i) = LoopDepth(s, i)
  BY <1>1, DepthSame
<1>3. /\ LoopDepth(s, n) = Len(l) /\ n - 1 \in Nat /\ (n - 1) + 1 = n
      /\ LoopDepth(s, n - 1) \in Nat
      /\ LoopDepth(s, n) = IF s[n].k \in LoopKinds THEN LoopDepth(s, n - 1) + 1
                                                   ELSE LoopDepth(s, n - 1)
  <2>1. n - 1 \in Nat /\ (n - 1) + 1 = n
    BY <1>1
  <2> QED
    BY <2>1, DepthFacts DEF Matched, n
<1>4. \A i \in 1..(n - 1) : s[i].k \in LoopKinds => LoopDepth(s, i) \in 1..LoopDepth(s, n - 1)
  <2> SUFFICES ASSUME NEW i \in 1..(n - 1), s[i].k \in LoopKinds
               PROVE  LoopDepth(s, i) \in 1..LoopDepth(s, n - 1)
    OBVIOUS
  <2>1. i \in Nat /\ i <= n - 1 /\ i > 0
    BY <1>1
  <2>2. /\ LoopDepth(s, i) \in Nat /\ LoopDepth(s, i) > 0
        /\ LoopDepth(s, i) <= LoopDepth(s, n - 1)
    BY <1>3, <2>1, DepthBound, DepthFacts
  <2> QED
    BY <1>3, <2>2
<1>5. \A i \in 1..(n - 1) : s[i].k \in LoopKinds => l[LoopDepth(s, i)].end = s[i].exit
  BY <1>1 DEF Matched
<1>6. ASSUME s[n].k \notin LoopKinds PROVE Matched(t, l)
  BY <1>1, <1>2, <1>3, <1>5, <1>6 DEF Matched
<1>7. ASSUME s[n].k \in LoopKinds PROVE Matched(t, m)
  BY <1>1, <1>1a, <1>2, <1>3, <1>4, <1>5, <1>7 DEF Matched
<1> QED
  BY <1>6, <1>7 DEF t, m, n

\* The next arm of an if or case of a match changes neither kind nor exit.
LEMMA MatchedAdvance ==
    ASSUME NEW s \in Seq(FrameType), s # <<>>, NEW l, Matched(s, l), NEW j \in Nat
    PROVE  /\ Matched([s EXCEPT ![Len(s)].idx = j], l)
           /\ [s EXCEPT ![Len(s)].idx = j] \in Seq(FrameType)
<1> DEFINE t == [s EXCEPT ![Len(s)].idx = j]
           n == Len(s)
<1>1. /\ n \in Nat /\ DOMAIN s = 1..n /\ DOMAIN t = 1..n /\ Len(t) = n
      /\ t \in Seq(FrameType) /\ \A i \in 1..n : t[i].k = s[i].k /\ t[i].exit = s[i].exit
  <2> DEFINE f == [s[n] EXCEPT !.idx = j]
  <2>1. n \in Nat \ {0} /\ DOMAIN s = 1..n /\ s[n] \in FrameType
    OBVIOUS
  <2>2. f \in FrameType /\ f.k = s[n].k /\ f.exit = s[n].exit
    BY <2>1 DEF FrameType
  <2>3. t = [s EXCEPT ![n] = f]
    BY <2>1
  <2>4. DOMAIN t = 1..n /\ t \in Seq(FrameType) /\ t[n] = f /\ \A i \in (1..n) \ {n} : t[i] = s[i]
    BY <2>1, <2>2, <2>3
  <2>5. \A i \in 1..n : t[i].k = s[i].k /\ t[i].exit = s[i].exit
    BY <2>1, <2>2, <2>4
  <2>6. Len(t) = n
    BY <2>1, <2>4
  <2> QED
    BY <2>1, <2>4, <2>5, <2>6
<1> HIDE DEF t, n
<1>2. \A i \in 0..n : LoopDepth(t, i) = LoopDepth(s, i)
  BY <1>1, DepthSame
<1>3. Matched(t, l)
  <2>1. \A i \in DOMAIN t : t[i].k \in LoopKinds => l[LoopDepth(t, i)].end = t[i].exit
    BY <1>1, <1>2 DEF Matched
  <2>2. Len(l) = LoopDepth(t, Len(t))
    BY <1>1, <1>2 DEF Matched, n
  <2> QED
    BY <2>1, <2>2 DEF Matched
<1> QED
  BY <1>1, <1>3 DEF t

\* Every step keeps the labels and the loops that are open in step.
LEMMA NextLoops ==
    ASSUME TypeOK, TypeOK', LoopStackMatches, [Next]_vars
    PROVE  LoopStackMatches'
<1> USE DEF LoopKinds
<1>0. /\ loops \in Seq(Labels) /\ open \in Seq(FrameType)
      /\ loops' \in Seq(Labels) /\ open' \in Seq(FrameType)
      /\ Matched(open, loops) /\ LoopStackMatches' = Matched(open, loops)'
  BY DEF TypeOK, LoopsType, FramesType, Labels, LoopStackMatches, Matched
<1> SUFFICES Matched(open, loops)'
  BY <1>0
<1>1. ASSUME UNCHANGED <<loops, open>> PROVE Matched(open, loops)'
  BY <1>0, <1>1 DEF Matched
<1>2. ASSUME NEW s \in Seq(FrameType), Matched(s, loops), NEW k, NEW h, NEW b, NEW i, NEW e, NEW n,
             open' = Append(s, Frame(k, h, b, i, e, n)),
             IF k \in LoopKinds THEN \E c : enter_loop(e, c) ELSE loops' = loops
      PROVE  Matched(open, loops)'
  <2> DEFINE f == Frame(k, h, b, i, e, n)
  <2>1. f.k = k /\ f.exit = e
    BY DEF Frame
  <2> HIDE DEF f
  <2>2. f = open'[Len(s) + 1] /\ Len(s) + 1 \in DOMAIN open'
    BY <1>0, <1>2 DEF f
  <2>3. f \in FrameType
    BY <1>0, <2>2
  <2>4. CASE k \in LoopKinds
    <3>1. PICK c : enter_loop(e, c)
      BY <1>2, <2>4
    <3> DEFINE x == [end |-> e, continue |-> c]
    <3>2. loops' = Append(loops, x) /\ x.end = f.exit
      BY <2>1, <3>1 DEF enter_loop
    <3> HIDE DEF x
    <3>3. x = loops'[Len(loops) + 1] /\ Len(loops) + 1 \in DOMAIN loops'
      BY <1>0, <3>2
    <3>4. x \in Labels
      BY <1>0, <3>3
    <3> QED
      BY <1>0, <1>2, <2>1, <2>3, <2>4, <3>2, <3>4, MatchedPush DEF f
  <2>5. CASE k \notin LoopKinds
    <3>1. [end |-> 0, continue |-> 0] \in Labels
      BY DEF Labels
    <3> QED
      BY <1>0, <1>2, <2>1, <2>3, <2>5, <3>1, MatchedPush DEF f
  <2> QED
    BY <2>4, <2>5
<1>3. ASSUME open # <<>>, open' = Pop(open),
             IF Top.k \in LoopKinds THEN exit_loop ELSE loops' = loops
      PROVE  Matched(open, loops)'
  BY <1>0, <1>3, MatchedPop DEF Top, exit_loop
<1>4. ASSUME open # <<>>, NEW j \in Nat
      PROVE  LET s == [open EXCEPT ![Len(open)].idx = j]
             IN  Matched(s, loops) /\ s \in Seq(FrameType)
  BY <1>0, <1>4, MatchedAdvance
<1>5. CASE UNCHANGED vars
  BY <1>1, <1>5 DEF vars
<1>6. CASE emit_simple_stmt \/ emit_break_stmt \/ emit_continue_stmt \/ emit_return_stmt
           \/ emit_pattern_match \/ emit_question_expr \/ emit_propagate_expr \/ finish_cfg_build
  BY <1>1, <1>6 DEF emit_simple_stmt, emit_break_stmt, emit_continue_stmt, emit_return_stmt,
     emit_pattern_match, emit_pattern, emit_question_expr, emit_propagate_expr, finish_cfg_build
<1>7. CASE emit_if_stmt \/ emit_match_stmt \/ emit_fallible_else
  <2>1. PICK k, h, b, i, e, n :
           /\ k \in {"if", "match", "fallible"}
           /\ open' = Append(open, Frame(k, h, b, i, e, n))
           /\ loops' = loops
    BY <1>7 DEF emit_if_stmt, begin_if, emit_match_stmt, begin_match, emit_fallible_else, Enter
  <2> QED
    BY <1>0, <1>2, <2>1
<1>8. CASE emit_while_stmt \/ emit_for_stmt \/ emit_iter_stmt
           \/ emit_index_iter_stmt \/ emit_channel_iter_stmt
  <2>1. PICK k, h, b, i, e, c :
           /\ k \in LoopKinds
           /\ open' = Append(open, Frame(k, h, b, i, e, 0))
           /\ enter_loop(e, c)
    BY <1>8 DEF emit_while_stmt, begin_while, emit_for_stmt, begin_for, emit_iter_stmt,
       emit_index_iter_stmt, emit_channel_iter_stmt, Enter
  <2> QED
    BY <1>0, <1>2, <2>1
<1>9. CASE emit_else
  <2>1. open # <<>> /\ open' = [open EXCEPT ![Len(open)].idx = 1] /\ loops' = loops
    BY <1>9 DEF emit_else, IsOpen
  <2> QED
    BY <1>4, <2>1
<1>10. CASE end_if \/ end_match \/ end_fallible_else \/ emit_case_body
  BY <1>3, <1>10 DEF end_if, end_match, end_fallible_else, emit_case_body, emit_case, IsOpen, Leave
<1>11. CASE end_while \/ end_for \/ end_iter \/ end_index_iter \/ end_channel_iter
  BY <1>3, <1>11 DEF end_while, end_for, end_iter, end_index_iter, end_channel_iter, IsOpen, Leave
<1>12. CASE emit_match_case
  <2> DEFINE s == [open EXCEPT ![Len(open)].idx = Top.idx + 1]
  <2>1. open # <<>> /\ loops' = loops
    BY <1>12 DEF emit_match_case, IsOpen
  <2>2. Top \in FrameType
    BY <1>0, <2>1 DEF Top
  <2>3. Top.idx + 1 \in Nat
    BY <2>2 DEF FrameType
  <2>4. Matched(s, loops) /\ s \in Seq(FrameType)
    BY <1>4, <2>1, <2>3
  <2>5. PICK p, b, e : open' = Append(s, Frame("pattern", p, b, e, e, 0))
    BY <1>12 DEF emit_match_case
  <2> HIDE DEF s
  <2> QED
    BY <1>2, <2>1, <2>4, <2>5
<1> QED
  BY <1>5, <1>6, <1>7, <1>8, <1>9, <1>10, <1>11, <1>12 DEF Next

\* Whatever is nested in it, a loop's labels are on the loop stack for as long
\* as its body is lowered and gone afterwards, so break and continue concern
\* the innermost loop around them (enter_loop, exit_loop, get_break_label).
THEOREM LoopsMatched == Spec => []LoopStackMatches
<1>1. Init => LoopStackMatches
  BY DepthFacts DEF Init, LoopStackMatches
<1>2. IInv /\ IInv' /\ LoopStackMatches /\ [Next]_vars => LoopStackMatches'
  BY NextLoops DEF IInv
<1> QED
  BY <1>1, <1>2, InductiveInvariant, PTL DEF Spec
=============================================================================
