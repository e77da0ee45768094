------------------------ MODULE SchemaResolverProofs ------------------------
(***************************************************************************)
(* SchemaResolver for any texts of any documents: the inductive invariant  *)
(* IInv and what follows from it.                                          *)
(***************************************************************************)
EXTENDS SchemaResolver, ProofLemmas, TLAPS

-----------------------------------------------------------------------------
(* The table of documents *)

LEMMA AddValidatorsKeys ==
  ASSUME NEW t, NEW doc, NEW frags, NEW f,
         \A d \in DOMAIN t : HasKey(t, d)
  PROVE  \A d \in DOMAIN AddValidators(t, doc, frags, f) : HasKey(AddValidators(t, doc, frags, f), d)
BY DEF AddValidators, Over, HasKey

-----------------------------------------------------------------------------
(* Induction                                                               *)

LEMMA Greatest ==
  ASSUME NEW n \in Nat, NEW S \in SUBSET (1..n), S # {}
  PROVE  Max(S) \in S /\ \A m \in S : m <= Max(S)
<1> DEFINE Gaps == {n - m : m \in S}
<1>1. Gaps \in SUBSET Nat /\ Gaps # {}
  <2>1. \A m \in S : n - m \in Nat
    OBVIOUS
  <2>2. QED
    BY <2>1
<1>2. PICK g \in Gaps : \A h \in Gaps : g <= h
  BY <1>1, HasLeast
<1>3. PICK x \in S : g = n - x
  OBVIOUS
<1>4. \A m \in S : x >= m
  <2> TAKE m \in S
  <2>1. n - x <= n - m
    BY <1>2, <1>3
  <2>2. QED
    BY <2>1
<1>5. QED
  BY <1>4 DEF Max

-----------------------------------------------------------------------------
(* The stack of bases *)

LEMMA SubSeqIs ==
  ASSUME NEW s, NEW n \in Nat, Len(s) \in Nat, n <= Len(s)
  PROVE  Len(SubSeq(s, 1, n)) = n /\ \A i \in 1..n : SubSeq(s, 1, n)[i] = s[i]
OBVIOUS

LEMMA BasesExist ==
  ASSUME NEW stack, NEW visit, Len(visit) \in Nat
  PROVE  \E a : a = [n \in 0..Len(visit) |-> IF n = 0 THEN stack ELSE After(a[n - 1], visit[n])]
<1> DEFINE
      Good(N) == \E a : a = [n \in 0..N |-> IF n = 0 THEN stack ELSE After(a[n - 1], visit[n])]
      Bad == {N \in Nat : ~Good(N)}
<1>1. SUFFICES ASSUME Bad # {} PROVE FALSE
  OBVIOUS
<1> HIDE DEF Good
<1>2. PICK N \in Bad : \A M \in Bad : N <= M
  BY <1>1, HasLeast
<1>3. N # 0
  <2> DEFINE z == [n \in 0..0 |-> stack]
  <2>1. z = [n \in 0..0 |-> IF n = 0 THEN stack ELSE After(z[n - 1], visit[n])]
    OBVIOUS
  <2>2. Good(0)
    BY <2>1 DEF Good
  <2>3. QED
    BY <2>2
<1>4. N - 1 \in Nat /\ Good(N - 1)
  BY <1>2, <1>3
<1>5. PICK a : a = [n \in 0..(N - 1) |-> IF n = 0 THEN stack ELSE After(a[n - 1], visit[n])]
  BY <1>4 DEF Good
<1> DEFINE b == [n \in 0..N |-> IF n = N THEN After(a[N - 1], visit[N]) ELSE a[n]]
<1>6. \A n \in 0..N : b[n] = IF n = 0 THEN stack ELSE After(b[n - 1], visit[n])
  <2> TAKE n \in 0..N
  <2>1. CASE n = N
    BY <1>2, <1>3, <1>4, <2>1
  <2>2. CASE n # N
    <3>1. n \in 0..(N - 1) /\ (n # 0 => n - 1 \in 0..(N - 1))
      BY <1>2, <2>2
    <3>2. a[n] = IF n = 0 THEN stack ELSE After(a[n - 1], visit[n])
      BY <1>5, <3>1
    <3>3. b[n] = a[n] /\ (n # 0 => b[n - 1] = a[n - 1])
      BY <2>2, <3>1
    <3>4. QED
      BY <3>2, <3>3
  <2>3. QED
    BY <2>1, <2>2
<1>7. b = [n \in 0..N |-> IF n = 0 THEN stack ELSE After(b[n - 1], visit[n])]
  BY <1>6
<1>8. Good(N)
  BY <1>7 DEF Good
<1>9. QED
  BY <1>2, <1>8

(* The recursion of Bases does have a solution: the stack, node by node.   *)
LEMMA BasesStep ==
  ASSUME NEW stack, NEW visit, Len(visit) \in Nat
  PROVE  /\ Bases(stack, visit)[0] = stack
         /\ \A n \in 1..Len(visit) :
              Bases(stack, visit)[n] = After(Bases(stack, visit)[n - 1], visit[n])
<1>1. Bases(stack, visit) =
        [n \in 0..Len(visit) |->
           IF n = 0 THEN stack ELSE After(Bases(stack, visit)[n - 1], visit[n])]
  BY BasesExist DEF Bases
<1>2. QED
  BY <1>1

(* bases is stack with the ids of around pushed on it, each in the base of *)
(* the one before.                                                         *)
Rooted(bases, stack, around) ==
  /\ Len(bases) = Len(stack) + Len(around)
  /\ \A i \in 1..Len(stack) : bases[i] = stack[i]
  /\ \A i \in 1..Len(around) :
       bases[Len(stack) + i] = AddBase(around[i], bases[Len(stack) + i - 1])

LEMMA EnteredIsUri ==
  ASSUME NEW node, IsNode(node)
  PROVE  node.uri # NoId /\ Len(node.around) \in Nat
<1>1. node.uri = Uri(node.uri.doc, node.uri.frag)
  BY DEF IsNode, IsUri
<1>2. node.uri # NoId
  BY <1>1 DEF Uri, NoId
<1>3. QED
  BY <1>2 DEF IsNode

LEMMA AfterRooted ==
  ASSUME NEW stack, NEW bases, NEW node, IsNode(node), Len(stack) \in Nat \ {0},
         Rooted(bases, stack, node.around)
  PROVE  Rooted(After(bases, node), stack, AroundNext(node))
<1>1. node.uri # NoId /\ Len(node.around) \in Nat
  BY EnteredIsUri
<1>2. Len(bases) \in Nat /\ Len(bases) # 0 /\ bases # <<>>
  BY <1>1 DEF Rooted
<1>3. CASE node.do = "enter"
  <2>1. /\ AroundNext(node) = Append(node.around, node.uri)
        /\ After(bases, node) = Append(bases, AddBase(node.uri, bases[Len(bases)]))
    BY <1>1, <1>2, <1>3 DEF AroundNext, After, EnterId, PushUri, Scope
  <2> DEFINE a == Append(node.around, node.uri)
             b == Append(bases, AddBase(node.uri, bases[Len(bases)]))
  <2>2. /\ Len(a) = Len(node.around) + 1
        /\ \A i \in 1..Len(node.around) : a[i] = node.around[i]
        /\ a[Len(node.around) + 1] = node.uri
    BY <1>1
  <2>3. /\ Len(b) = Len(bases) + 1
        /\ \A i \in 1..Len(bases) : b[i] = bases[i]
        /\ b[Len(bases) + 1] = AddBase(node.uri, bases[Len(bases)])
    BY <1>2
  <2> HIDE DEF a, b
  <2>4. Rooted(b, stack, a)
    <3>1. Len(b) = Len(stack) + Len(a)
      BY <1>1, <2>2, <2>3 DEF Rooted
    <3>2. \A i \in 1..Len(stack) : b[i] = stack[i]
      BY <1>1, <2>3 DEF Rooted
    <3>3. ASSUME NEW i \in 1..Len(node.around)
          PROVE  b[Len(stack) + i] = AddBase(a[i], b[Len(stack) + i - 1])
      <4>1. Len(stack) + i \in 1..Len(bases) /\ Len(stack) + i - 1 \in 1..Len(bases)
        BY <1>1 DEF Rooted
      <4>2. b[Len(stack) + i] = bases[Len(stack) + i]
        BY <2>3, <4>1
      <4>3. b[Len(stack) + i - 1] = bases[Len(stack) + i - 1]
        BY <2>3, <4>1
      <4>4. QED
        BY <2>2, <4>2, <4>3 DEF Rooted
    <3>4. b[Len(stack) + Len(a)] = AddBase(a[Len(a)], b[Len(stack) + Len(a) - 1])
      BY <1>1, <1>2, <2>2, <2>3 DEF Rooted
    <3>5. QED
      BY <1>1, <2>2, <3>1, <3>2, <3>3, <3>4, SMTT(30) DEF Rooted
  <2>5. QED
    BY <2>1, <2>4 DEF a, b
<1>4. CASE node.do = "exit"
  <2> DEFINE m == Len(node.around) - 1
             n == Len(bases) - 1
             a == SubSeq(node.around, 1, m)
             b == SubSeq(bases, 1, n)
  <2>1. node.around # <<>> /\ node.around \in Seq({node.around[i] : i \in DOMAIN node.around})
    BY <1>4 DEF IsNode
  <2>2. Len(node.around) # 0
    BY <2>1
  <2>3. m \in Nat /\ n \in Nat /\ n = Len(stack) + m
    BY <1>1, <1>2, <2>2 DEF Rooted
  <2>4. AroundNext(node) = a /\ After(bases, node) = b
    BY <1>1, <1>2, <1>4 DEF AroundNext, After, ExitId, PopUri
  <2>5. Len(a) = m /\ \A i \in 1..m : a[i] = node.around[i]
    BY <1>1, <2>3, SubSeqIs
  <2>6. Len(b) = n /\ \A i \in 1..n : b[i] = bases[i]
    BY <1>2, <2>3, SubSeqIs
  <2> HIDE DEF a, b
  <2> HIDE DEF m, n
  <2>7. m \in Nat /\ m < Len(node.around)
    BY <1>1, <2>2 DEF m
  <2>8. \A i \in 1..Len(stack) : b[i] = stack[i]
    BY <2>3, <2>6 DEF Rooted
  <2>9. ASSUME NEW i \in 1..m
        PROVE  b[Len(stack) + i] = AddBase(a[i], b[Len(stack) + i - 1])
    <3>1. Len(stack) + i \in 1..n /\ Len(stack) + i - 1 \in 1..n /\ i \in 1..Len(node.around)
      BY <1>1, <2>3, <2>7
    <3>2. b[Len(stack) + i] = bases[Len(stack) + i]
      BY <2>6, <3>1
    <3>3. b[Len(stack) + i - 1] = bases[Len(stack) + i - 1]
      BY <2>6, <3>1
    <3>4. QED
      BY <2>5, <3>1, <3>2, <3>3 DEF Rooted
  <2>10. Rooted(b, stack, a)
    BY <2>3, <2>5, <2>6, <2>8, <2>9 DEF Rooted
  <2>11. QED
    BY <2>4, <2>10
<1>5. CASE node.do = "ref"
  BY <1>5 DEF AroundNext, After
<1>6. QED
  BY <1>3, <1>4, <1>5 DEF IsNode

(* At every node of a visit the bases are those of the ids around it.      *)
LEMMA VisitRooted ==
  ASSUME NEW stack, Len(stack) \in Nat \ {0}, NEW visit, IsVisit(visit)
  PROVE  \A n \in DOMAIN visit : Rooted(Bases(stack, visit)[n - 1], stack, visit[n].around)
<1> DEFINE Bad == {n \in DOMAIN visit : ~Rooted(Bases(stack, visit)[n - 1], stack, visit[n].around)}
<1>1. Len(visit) \in Nat /\ DOMAIN visit = 1..Len(visit)
  BY DEF IsVisit
<1>2. SUFFICES ASSUME Bad # {} PROVE FALSE
  OBVIOUS
<1>3. PICK n \in Bad : \A m \in Bad : n <= m
  <2>1. Bad \in SUBSET Nat
    BY <1>1
  <2> HIDE DEF Bad
  <2>2. QED
    BY <1>2, <2>1, HasLeast
<1>4. n \in 1..Len(visit)
  BY <1>1
<1>5. n # 1
  <2>1. ASSUME n = 1 PROVE FALSE
    <3>1. visit[n].around = <<>> /\ n - 1 = 0
      BY <1>1, <1>4, <2>1 DEF IsVisit
    <3>2. Bases(stack, visit)[n - 1] = stack
      BY <1>1, <3>1, BasesStep
    <3>3. Rooted(stack, stack, <<>>)
      BY DEF Rooted
    <3>4. QED
      BY <3>1, <3>2, <3>3
  <2>2. QED
    BY <2>1
<1>6. n - 1 \in DOMAIN visit /\ n - 1 \notin Bad
  BY <1>1, <1>3, <1>4, <1>5
<1>7. Rooted(Bases(stack, visit)[n - 2], stack, visit[n - 1].around)
  BY <1>6
<1>8. IsNode(visit[n - 1]) /\ visit[n].around = AroundNext(visit[n - 1])
  BY <1>1, <1>4, <1>5, <1>6 DEF IsVisit
<1>9. Bases(stack, visit)[n - 1] = After(Bases(stack, visit)[n - 2], visit[n - 1])
  <2>1. n - 1 \in 1..Len(visit) /\ (n - 1) - 1 = n - 2
    BY <1>1, <1>4, <1>6
  <2>2. QED
    BY <1>1, <2>1, BasesStep
<1>10. QED
  BY <1>7, <1>8, <1>9, AfterRooted

(* In an absolute base the innermost base is the nearest id that names a   *)
(* document, or else what is at the root.                                  *)
IsBase(u) == u = [doc |-> u.doc, frag |-> u.frag, absolute |-> TRUE]

LEMMA AddBaseIs ==
  ASSUME NEW u, IsUri(u), NEW base, IsBase(base)
  PROVE  AddBase(u, base) =
           [doc |-> IF u.doc = Here THEN base.doc ELSE u.doc, frag |-> u.frag, absolute |-> TRUE]
<1>1. PICK d, fr : u = [doc |-> d, frag |-> fr, absolute |-> FALSE]
  BY DEF IsUri, Uri
<1>2. PICK e, gr : base = [doc |-> e, frag |-> gr, absolute |-> TRUE]
  BY DEF IsBase
<1>3. base.absolute
  BY <1>2
<1>4. CASE u.doc = Here
  <2>1. AddBase(u, base) = [base EXCEPT !.frag = u.frag]
    BY <1>3, <1>4 DEF AddBase
  <2>2. QED
    BY <1>1, <1>2, <1>4, <2>1
<1>5. CASE u.doc # Here
  <2>1. AddBase(u, base) = [u EXCEPT !.absolute = TRUE]
    BY <1>3, <1>5 DEF AddBase
  <2>2. QED
    BY <1>1, <1>5, <2>1
<1>6. QED
  BY <1>4, <1>5

NamingUpTo(around, j) == {i \in 1..j : around[i].doc # Here}

LEMMA RootedDocument ==
  ASSUME NEW stack, Len(stack) \in Nat \ {0}, IsBase(Scope(stack)),
         NEW around, Len(around) \in Nat, \A i \in 1..Len(around) : IsUri(around[i]),
         NEW bases, Rooted(bases, stack, around), NEW j \in 0..Len(around)
  PROVE  /\ IsBase(bases[Len(stack) + j])
         /\ bases[Len(stack) + j].doc =
              IF NamingUpTo(around, j) = {} THEN Scope(stack).doc
              ELSE around[Max(NamingUpTo(around, j))].doc
<1> DEFINE
      Good(k) ==
        /\ IsBase(bases[Len(stack) + k])
        /\ bases[Len(stack) + k].doc =
             IF NamingUpTo(around, k) = {} THEN Scope(stack).doc
             ELSE around[Max(NamingUpTo(around, k))].doc
      Bad == {k \in 0..Len(around) : ~Good(k)}
<1>1. SUFFICES ASSUME Bad # {} PROVE FALSE
  OBVIOUS
<1>2. PICK k \in Bad : \A l \in Bad : k <= l
  <2>1. Bad \in SUBSET Nat
    OBVIOUS
  <2> HIDE DEF Bad
  <2>2. QED
    BY <1>1, <2>1, HasLeast
<1>3. k \in 0..Len(around) /\ ~Good(k)
  OBVIOUS
<1>4. k # 0
  <2>1. NamingUpTo(around, 0) = {} /\ bases[Len(stack) + 0] = Scope(stack)
    BY DEF NamingUpTo, Rooted, Scope
  <2>2. Good(0)
    BY <2>1
  <2> HIDE DEF Good
  <2>3. QED
    BY <1>3, <2>2
<1>5. k - 1 \in 0..Len(around) /\ Good(k - 1)
  <2>1. k - 1 \in 0..Len(around) /\ ~(k <= k - 1)
    BY <1>3, <1>4
  <2> HIDE DEF Good
  <2>2. QED
    BY <1>2, <2>1
<1>6. k \in 1..Len(around) /\ IsUri(around[k])
  BY <1>3, <1>4
<1> DEFINE base == bases[Len(stack) + k - 1]
<1>7. bases[Len(stack) + k] = AddBase(around[k], base)
  BY <1>6 DEF Rooted
<1>8. base = bases[Len(stack) + (k - 1)]
  BY <1>6
<1>9. IsBase(base)
  BY <1>5, <1>8
<1> HIDE DEF base
<1>10. /\ AddBase(around[k], base).absolute = TRUE
       /\ AddBase(around[k], base).doc = IF around[k].doc = Here THEN base.doc ELSE around[k].doc
       /\ IsBase(AddBase(around[k], base))
  <2>1. AddBase(around[k], base) =
          [doc |-> IF around[k].doc = Here THEN base.doc ELSE around[k].doc,
           frag |-> around[k].frag, absolute |-> TRUE]
    BY <1>6, <1>9, AddBaseIs
  <2>2. QED
    BY <2>1 DEF IsBase
<1>11. IsBase(bases[Len(stack) + k])
  BY <1>7, <1>10 DEF base
<1>12. CASE around[k].doc = Here
  <2>1. NamingUpTo(around, k) = NamingUpTo(around, k - 1)
    BY <1>6, <1>12 DEF NamingUpTo
  <2>2. QED
    BY <1>3, <1>5, <1>7, <1>8, <1>10, <1>11, <1>12, <2>1 DEF base
<1>13. CASE around[k].doc # Here
  <2>1. k \in NamingUpTo(around, k) /\ NamingUpTo(around, k) \in SUBSET (1..k) /\ k \in Nat
    BY <1>6, <1>13 DEF NamingUpTo
  <2>2. /\ Max(NamingUpTo(around, k)) \in NamingUpTo(around, k)
        /\ k <= Max(NamingUpTo(around, k))
    BY <2>1, Greatest
  <2>3. Max(NamingUpTo(around, k)) = k
    BY <2>1, <2>2
  <2>4. QED
    BY <1>3, <1>7, <1>10, <1>11, <1>13, <2>1, <2>3 DEF base
<1>14. QED
  BY <1>12, <1>13

-----------------------------------------------------------------------------
(* What a text comes to *)

LEMMA RootBasesStand ==
  ASSUME NEW f, NEW text, NEW kind
  PROVE  Len(RootBases(f, text, kind)) \in Nat \ {0}
<1>1. PICK r : r = PushUri(<<>>, RootScope(f, kind))
  OBVIOUS
<1>2. Len(r) = 1
  BY <1>1 DEF PushUri
<1>3. CASE text.id = NoId
  BY <1>1, <1>2, <1>3 DEF RootBases, EnterId
<1>4. CASE text.id # NoId
  <2>1. PICK u : RootBases(f, text, kind) = Append(r, u)
    BY <1>1, <1>4 DEF RootBases, EnterId, PushUri
  <2>2. Len(r) \in Nat
    BY <1>2
  <2>3. Len(Append(r, u)) = Len(r) + 1
    BY <2>2
  <2>4. QED
    BY <1>2, <2>1, <2>3
<1>5. QED
  BY <1>3, <1>4

(* The keys of what is added for the document itself.                      *)
LEMMA SchemasAdded ==
  ASSUME NEW f, NEW text, NEW base, NEW t, t = CollectSchemas(f, text, base)
  PROVE  \A doc \in DOMAIN t : HasKey(t, doc)
<1> DEFINE root == AddValidators(NoFragments, base.doc,
                                 [x \in {base.frag} |-> [file |-> f, frag |-> RootFragment]], f)
           home == AddBase(Uri(Here, RootFragment), base).doc
           defs == [d \in text.defs |-> [file |-> f, frag |-> d]]
           both == AddValidators(root, home, defs, f)
<1>1. DOMAIN NoFragments = {}
  BY DEF NoFragments
<1>2. \A doc \in DOMAIN root : HasKey(root, doc)
  BY <1>1, AddValidatorsKeys
<1>3. t = root \/ t = both
  BY DEF CollectSchemas
<1> HIDE DEF root, home, defs
<1>4. \A doc \in DOMAIN both : HasKey(both, doc)
  BY <1>2, AddValidatorsKeys
<1>5. QED
  BY <1>2, <1>3, <1>4

(* Whatever a text is parsed as, keys tell documents and what a reference  *)
(* leads to is in the table.                                               *)
LEMMA ParsedKeys ==
  ASSUME NEW f, NEW kind, NEW c, c = Parsed(f, kind)
  PROVE  /\ \A doc \in DOMAIN c.table : HasKey(c.table, doc)
         /\ \A r \in c.refs : r.doc \in DOMAIN c.table
<1>1. PICK t : t = CollectSchemas(f, world[f], Base(f, kind))
  OBVIOUS
<1>2. \A doc \in DOMAIN t : HasKey(t, doc)
  BY <1>1, SchemasAdded
<1> DEFINE
      target(n) == Scope(PushUri(Bases(RootBases(f, world[f], kind), world[f].visit)[n - 1],
                                 world[f].visit[n].uri))
      referring == {n \in DOMAIN world[f].visit : world[f].visit[n].do = "ref"}
<1>3. /\ c.table = AddDocuments(t, {target(n).doc : n \in referring}, f)
      /\ c.refs = {[file |-> f, node |-> n, doc |-> target(n).doc, frag |-> target(n).frag] :
                     n \in referring}
  BY <1>1 DEF Parsed, Collect, Base
<1> HIDE DEF target, referring
<1>4. \A doc \in DOMAIN c.table : HasKey(c.table, doc)
  BY <1>2, <1>3 DEF AddDocuments, Over, HasKey
<1>5. \A r \in c.refs : r.doc \in DOMAIN c.table
  BY <1>3 DEF AddDocuments, Over
<1>6. QED
  BY <1>4, <1>5

LEMMA SchemasWhole ==
  ASSUME NEW f, NEW text, NEW base, IsBase(base), base.frag = RootFragment,
         NEW t, t = CollectSchemas(f, text, base)
  PROVE  /\ DOMAIN t = {base.doc}
         /\ t[base.doc].frags = [x \in {RootFragment} \cup text.defs |-> [file |-> f, frag |-> x]]
<1> DEFINE root == AddValidators(NoFragments, base.doc,
                                 [x \in {base.frag} |-> [file |-> f, frag |-> RootFragment]], f)
           home == AddBase(Uri(Here, RootFragment), base).doc
           defs == [d \in text.defs |-> [file |-> f, frag |-> d]]
<1>1. home = base.doc
  <2>1. IsUri(Uri(Here, RootFragment)) /\ Uri(Here, RootFragment).doc = Here
    BY DEF IsUri, Uri, Here, Relative
  <2>2. QED
    BY <2>1, AddBaseIs
<1>2. DOMAIN root = {base.doc} /\ root[base.doc].frags = [x \in {RootFragment} |-> [file |-> f, frag |-> x]]
  BY DEF AddValidators, Over, NoFragments
<1>3. CASE text.defs = {}
  BY <1>2, <1>3 DEF CollectSchemas
<1>4. CASE text.defs # {}
  <2>1. t = AddValidators(root, base.doc, defs, f)
    BY <1>1, <1>4 DEF CollectSchemas
  <2> HIDE DEF root, defs
  <2>2. DOMAIN t = {base.doc} /\ t[base.doc].frags = Over(root[base.doc].frags, defs)
    <3>1. PICK whole : whole = Over(root[base.doc].frags, defs)
      OBVIOUS
    <3>2. t = [d \in {base.doc} |-> [key |-> root[base.doc].key, frags |-> whole]]
      BY <1>2, <2>1, <3>1 DEF AddValidators
    <3>3. QED
      BY <3>1, <3>2
  <2>3. Over(root[base.doc].frags, defs) = [x \in {RootFragment} \cup text.defs |-> [file |-> f, frag |-> x]]
    BY <1>2 DEF Over, defs
  <2>4. QED
    BY <2>2, <2>3
<1>5. QED
  BY <1>3, <1>4

(* A document that is parsed under a base of its own comes in full, and of *)
(* every other document only the name; its references lead where they mean *)
(* to.                                                                     *)
LEMMA ParsedWhole ==
  ASSUME world \in Worlds, NEW f \in Files, NEW kind, NEW c, c = Parsed(f, kind),
         IsBase(Base(f, kind)), Base(f, kind).frag = RootFragment,
         NEW home, home = Base(f, kind).doc, TextOf(home) = f, home # Here
  PROVE  /\ home \in DOMAIN c.table /\ Whole(c.table, home)
         /\ \A doc \in DOMAIN c.table : doc # Here /\ (doc = home \/ IsEmpty(c.table, doc))
         /\ \A r \in c.refs : LeadsTo(r, c.table)
<1> DEFINE
      text == world[f]
      stack == RootBases(f, text, kind)
      bases == Bases(stack, text.visit)
      target(n) == Scope(PushUri(bases[n - 1], text.visit[n].uri))
      referring == {n \in DOMAIN text.visit : text.visit[n].do = "ref"}
<1>1. PICK t : t = CollectSchemas(f, text, Base(f, kind))
  OBVIOUS
<1>2. /\ DOMAIN t = {home}
      /\ t[home].frags = [x \in {RootFragment} \cup text.defs |-> [file |-> f, frag |-> x]]
  BY <1>1, SchemasWhole
<1>3. /\ c.table = AddDocuments(t, {target(n).doc : n \in referring}, f)
      /\ c.refs = {[file |-> f, node |-> n, doc |-> target(n).doc, frag |-> target(n).frag] :
                     n \in referring}
  BY <1>1 DEF Parsed, Collect, Base
<1>4. Len(stack) \in Nat \ {0} /\ Scope(stack) = Base(f, kind)
  BY RootBasesStand DEF Base
<1>5. IsVisit(text.visit)
  BY WorldsAssumption
<1>6. ASSUME NEW n \in referring
      PROVE  /\ target(n).frag = text.visit[n].uri.frag
             /\ target(n).doc # Here
             /\ TextOf(target(n).doc) = MeantDocument(f, text.visit[n])
  <2> DEFINE node == text.visit[n]
             top == Scope(bases[n - 1])
  <2>1. n \in DOMAIN text.visit /\ IsNode(node) /\ Rooted(bases[n - 1], stack, node.around)
    BY <1>4, <1>5, VisitRooted DEF IsVisit
  <2>2. PICK b : b = bases[n - 1]
    OBVIOUS
  <2>3. target(n) = Scope(PushUri(b, node.uri)) /\ top = Scope(b) /\ Rooted(b, stack, node.around)
    BY <2>1, <2>2
  <2> HIDE DEF bases, stack, text, target, node, top
  <2>4. PICK around : around = node.around
    OBVIOUS
  <2>5. Len(around) \in Nat /\ DOMAIN around = 1..Len(around) /\ \A i \in 1..Len(around) : IsUri(around[i])
    BY <2>1, <2>4 DEF IsNode
  <2>6. Len(b) = Len(stack) + Len(around)
    BY <2>3, <2>4 DEF Rooted
  <2>7. top = b[Len(stack) + Len(around)]
    BY <2>3, <2>6 DEF Scope
  <2>8. NamingUpTo(around, Len(around)) = Naming(node)
    BY <2>4, <2>5 DEF NamingUpTo, Naming
  <2>9. IsBase(Scope(stack)) /\ Len(around) \in 0..Len(around) /\ Rooted(b, stack, around)
    BY <1>4, <2>3, <2>4, <2>5
  <2>10. /\ IsBase(b[Len(stack) + Len(around)])
         /\ b[Len(stack) + Len(around)].doc =
              IF NamingUpTo(around, Len(around)) = {} THEN Scope(stack).doc
              ELSE around[Max(NamingUpTo(around, Len(around)))].doc
    BY <1>4, <2>5, <2>9, RootedDocument, ZenonT(60)
  <2>11. /\ IsBase(top)
         /\ top.doc = IF Naming(node) = {} THEN home ELSE around[Max(Naming(node))].doc
    BY <1>4, <2>7, <2>8, <2>10
  <2>12. target(n) = AddBase(node.uri, top)
    <3>1. Len(b) \in Nat /\ b # <<>>
      BY <1>4, <2>5, <2>6
    <3>2. PICK e : e = AddBase(node.uri, top)
      OBVIOUS
    <3>3. PushUri(b, node.uri) = Append(b, e)
      BY <2>3, <3>1, <3>2 DEF PushUri
    <3>4. Scope(Append(b, e)) = e
      BY <3>1 DEF Scope
    <3>5. QED
      BY <2>3, <3>2, <3>3, <3>4
  <2>13. target(n) =
          [doc |-> IF node.uri.doc = Here THEN top.doc ELSE node.uri.doc,
           frag |-> node.uri.frag, absolute |-> TRUE]
    BY <2>1, <2>11, <2>12, AddBaseIs DEF IsNode
  <2>14. Naming(node) # {} =>
          /\ Max(Naming(node)) \in DOMAIN around
          /\ around[Max(Naming(node))].doc # Here
          /\ around[Max(Naming(node))].doc # Relative
    <3>1. Naming(node) \in SUBSET (1..Len(around))
      BY <2>4, <2>5 DEF Naming
    <3>2. Naming(node) # {} => Max(Naming(node)) \in Naming(node)
      BY <2>5, <3>1, Greatest
    <3>3. QED
      BY <2>4, <2>5, <3>2 DEF Naming, IsUri
  <2>15. node.uri.doc # Relative
    BY <2>1 DEF IsNode, IsUri
  <2>16. CASE node.uri.doc # Here
    BY <2>13, <2>15, <2>16 DEF MeantDocument, TextOf, node
  <2>17. CASE node.uri.doc = Here /\ Naming(node) # {}
    <3>1. target(n).doc = node.around[Max(Naming(node))].doc
      BY <2>4, <2>11, <2>13, <2>17
    <3>2. MeantDocument(f, node) = node.around[Max(Naming(node))].doc
      BY <2>17 DEF MeantDocument
    <3>3. QED
      BY <2>4, <2>13, <2>14, <2>17, <3>1, <3>2 DEF TextOf, node
  <2>18. CASE node.uri.doc = Here /\ Naming(node) = {}
    BY <2>11, <2>13, <2>18 DEF MeantDocument, node
  <2>19. QED
    BY <2>16, <2>17, <2>18
<1> HIDE DEF target, referring, stack, bases
<1>7. /\ DOMAIN c.table = {home} \cup {target(n).doc : n \in referring}
      /\ c.table[home] = t[home]
      /\ \A doc \in {target(n).doc : n \in referring} : doc # home => c.table[doc].frags = NoFragments
  BY <1>2, <1>3 DEF AddDocuments, Over
<1>8. home \in DOMAIN c.table /\ Whole(c.table, home)
  BY <1>2, <1>7 DEF Whole
<1>9. \A doc \in DOMAIN c.table : doc # Here /\ (doc = home \/ IsEmpty(c.table, doc))
  BY <1>6, <1>7 DEF IsEmpty, NoFragments
<1>10. ASSUME NEW r \in c.refs PROVE LeadsTo(r, c.table)
  <2>1. PICK n \in referring :
          r = [file |-> f, node |-> n, doc |-> target(n).doc, frag |-> target(n).frag]
    BY <1>3
  <2>2. n \in DOMAIN text.visit
    BY DEF referring
  <2>3. r.doc \in DOMAIN c.table
    BY <1>7, <2>1
  <2>4. QED
    BY <1>6, <2>1, <2>2, <2>3 DEF LeadsTo
<1>11. QED
  BY <1>8, <1>9, <1>10

-----------------------------------------------------------------------------
(* Init and the steps *)

(* The scopes that Disciplined allows, as bases.                           *)
LEMMA RootScopeIs ==
  ASSUME NEW f \in Files
  PROVE  /\ IsBase(RootScope(f, "uri")) /\ RootScope(f, "uri").frag = RootFragment
         /\ RootScope(f, "uri").doc = f /\ TextOf(f) = f /\ f # Here
         /\ IsBase(RootScope(f, "relative")) /\ RootScope(f, "relative").frag = RootFragment
         /\ RootScope(f, "relative").doc = Relative /\ TextOf(Relative) = First /\ Relative # Here
BY FirstAssumption DEF RootScope, IsBase, TextOf, Relative, Here

LEMMA InitIInv == InitResolver => IInv
<1> SUFFICES ASSUME InitResolver PROVE IInv
  OBVIOUS
<1>1. world \in Worlds /\ ResolverIdle
  BY DEF InitResolver
<1>2. PICK c : c = Parsed(First, own) /\ table = c.table /\ refs = c.refs
  BY DEF InitResolver
<1>3. /\ \A doc \in DOMAIN c.table : HasKey(c.table, doc)
      /\ \A r \in c.refs : r.doc \in DOMAIN c.table
  BY <1>2, ParsedKeys
<1>4. DOMAIN source.table = {}
  BY <1>1 DEF ResolverIdle, NoSource, NoFragments
<1>5. LoopInv
  BY <1>1, <1>2, <1>3, <1>4 DEF LoopInv, ResolverIdle
<1>6. ASSUME Disciplined PROVE WholeInv
  <2>1. PICK home : /\ home = Base(First, own).doc /\ TextOf(home) = First /\ home # Here
                    /\ IsBase(Base(First, own)) /\ Base(First, own).frag = RootFragment
    BY <1>6, FirstAssumption, RootScopeIs DEF Disciplined
  <2>2. /\ home \in DOMAIN c.table /\ Whole(c.table, home)
        /\ \A doc \in DOMAIN c.table : doc # Here /\ (doc = home \/ IsEmpty(c.table, doc))
        /\ \A r \in c.refs : LeadsTo(r, c.table)
    BY <1>1, <1>2, <2>1, FirstAssumption, ParsedWhole
  <2>3. link = <<>> /\ at = "start"
    BY <1>1 DEF ResolverIdle
  <2>4. QED
    BY <1>2, <2>2, <2>3 DEF WholeInv
<1>7. QED
  BY <1>5, <1>6 DEF IInv

(* Discipline is kept only by having been kept.                            *)
LEMMA DisciplineBefore ==
  ASSUME UNCHANGED <<world, own>>, scopes \subseteq scopes', Disciplined'
  PROVE  Disciplined
BY DEF Disciplined, Base

LEMMA WholeUnchanged ==
  ASSUME WholeInv, UNCHANGED <<world, table, refs, link, source>>, at' \notin {"steal", "name"}
  PROVE  WholeInv'
BY DEF WholeInv, Whole, LeadsTo, Meant, Has, IsEmpty

LEMMA IdleStep ==
  ASSUME IInv, StartResolving \/ (\E doc \in DOMAIN table : NextDocument(doc)) \/ AllResolved \/ ClientFails
  PROVE  IInv'
<1>1. UNCHANGED <<world, table, refs, link, source, own, scopes>> /\ at' \notin {"steal", "name"}
  BY DEF StartResolving, NextDocument, AllResolved, ClientFails
<1>2. LoopInv
  BY DEF IInv
<1>3. /\ world' \in Worlds
      /\ (\A doc \in DOMAIN table : HasKey(table, doc))'
      /\ (\A doc \in DOMAIN source.table : HasKey(source.table, doc))'
      /\ (Unresolved(table))' = Unresolved(table)
  BY <1>1, <1>2 DEF LoopInv, HasKey, Unresolved, IsEmpty
<1>4. CASE StartResolving
  <2>1. at = "start" /\ at' = "loop" /\ previous = NoKey /\ UNCHANGED <<asked, previous, missing>>
    BY <1>2, <1>4 DEF LoopInv, StartResolving
  <2>2. LoopInv'
    BY <1>3, <2>1 DEF LoopInv
  <2>3. QED
    BY <1>1, <2>2, DisciplineBefore, WholeUnchanged DEF IInv
<1>5. CASE \E doc \in DOMAIN table : NextDocument(doc)
  <2>1. PICK doc \in DOMAIN table : NextDocument(doc)
    BY <1>5
  <2>2. /\ at = "loop" /\ doc \in DOMAIN table /\ IsEmpty(table, doc)
        /\ at' = IF table[doc].key = previous THEN "failed" ELSE "ask"
        /\ asked' = doc /\ previous' = table[doc].key /\ missing' = missing
    BY <2>1 DEF NextDocument, Unresolved
  <2>3. PICK k : table[doc].key = <<k, doc>>
    BY <1>2 DEF LoopInv, HasKey
  <2>4. table[doc].key # previous
    <3>1. previous # NoKey => doc # asked /\ previous = <<previous[1], asked>>
      BY <1>2, <2>2 DEF LoopInv
    <3>2. <<k, doc>> # <<>> /\ (doc # asked => <<k, doc>> # <<previous[1], asked>>)
      OBVIOUS
    <3>3. QED
      BY <2>3, <3>1, <3>2 DEF NoKey
  <2>5. at' = "ask" /\ previous' = <<previous'[1], asked'>>
    BY <2>2, <2>3, <2>4
  <2>6. (asked \in DOMAIN table /\ IsEmpty(table, asked))'
    BY <1>1, <2>2 DEF IsEmpty
  <2>7. LoopInv'
    BY <1>3, <2>5, <2>6 DEF LoopInv
  <2>8. QED
    BY <1>1, <2>7, DisciplineBefore, WholeUnchanged DEF IInv
<1>6. CASE AllResolved
  <2>1. at' = "resolved" /\ Unresolved(table) = {} /\ UNCHANGED <<asked, previous, missing>>
    BY <1>6 DEF AllResolved
  <2>2. LoopInv'
    BY <1>2, <1>3, <2>1 DEF LoopInv
  <2>3. QED
    BY <1>1, <2>2, DisciplineBefore, WholeUnchanged DEF IInv
<1>7. CASE ClientFails
  <2>1. at' = "failed" /\ missing' /\ UNCHANGED <<asked, previous>>
    BY <1>7 DEF ClientFails
  <2>2. LoopInv'
    BY <1>2, <1>3, <2>1 DEF LoopInv
  <2>3. QED
    BY <1>1, <2>2, DisciplineBefore, WholeUnchanged DEF IInv
<1>8. QED
  BY <1>4, <1>5, <1>6, <1>7

LEMMA ClientSuppliesStep ==
  ASSUME IInv, NEW kind \in Kinds, ClientSupplies(kind)
  PROVE  IInv'
<1>1. /\ UNCHANGED <<world, table, refs, link, asked, previous, own, missing>>
      /\ at = "ask" /\ at' = "steal" /\ asked \in Files
      /\ scopes' = scopes \cup {<<asked, kind>>}
  BY DEF ClientSupplies
<1>2. PICK c : c = Parsed(asked, kind)
  OBVIOUS
<1>3. source' = [table |-> c.table, refs |-> c.refs, file |-> asked]
  BY <1>2 DEF ClientSupplies
<1>4. source'.table = c.table /\ source'.refs = c.refs /\ source'.file = asked
  BY <1>3
<1>5. LoopInv
  BY DEF IInv
<1>6. LoopInv'
  <2>1. /\ world' \in Worlds
        /\ (\A doc \in DOMAIN table : HasKey(table, doc))'
        /\ (asked \in DOMAIN table /\ IsEmpty(table, asked))'
    BY <1>1, <1>5 DEF LoopInv, HasKey, IsEmpty
  <2>2. \A doc \in DOMAIN c.table : HasKey(c.table, doc)
    BY <1>2, ParsedKeys
  <2>3. (\A doc \in DOMAIN source.table : HasKey(source.table, doc))'
    BY <1>4, <2>2 DEF HasKey
  <2>4. QED
    BY <1>1, <1>5, <2>1, <2>3 DEF LoopInv
<1>7. ASSUME Disciplined' PROVE WholeInv'
  <2>1. WholeInv
    BY <1>1, <1>7, DisciplineBefore DEF IInv
  <2>2. Base(asked, kind) = RootScope(asked, "uri")
    <3>1. <<asked, kind>> \in scopes' /\ <<asked, kind>>[1] = asked /\ <<asked, kind>>[2] = kind
      BY <1>1
    <3>2. \A s \in scopes' : Base(s[1], s[2]) = RootScope(s[1], "uri")
      BY <1>1, <1>7 DEF Disciplined, Base
    <3>3. QED
      BY <3>1, <3>2
  <2>3. /\ IsBase(Base(asked, kind)) /\ Base(asked, kind).frag = RootFragment
        /\ asked = Base(asked, kind).doc /\ TextOf(asked) = asked /\ asked # Here
    BY <1>1, <2>2, RootScopeIs
  <2>4. /\ asked \in DOMAIN c.table /\ Whole(c.table, asked)
        /\ \A doc \in DOMAIN c.table : doc # Here /\ (doc = asked \/ IsEmpty(c.table, doc))
        /\ \A r \in c.refs : LeadsTo(r, c.table)
    BY <1>1, <1>2, <1>5, <2>3, ParsedWhole DEF LoopInv
  <2>5. /\ (\A doc \in DOMAIN table : IsEmpty(table, doc) \/ Whole(table, doc))'
        /\ (\A r \in refs : LeadsTo(r, table))'
        /\ (\A r \in DOMAIN link : link[r] = Meant(r))'
    BY <1>1, <2>1 DEF WholeInv, Whole, LeadsTo, Meant, Has, IsEmpty
  <2>6. (\A doc \in DOMAIN source.table : doc # Here /\ (doc = asked \/ IsEmpty(source.table, doc)))'
    BY <1>1, <1>4, <2>4 DEF IsEmpty
  <2>7. (\A r \in source.refs : LeadsTo(r, source.table))'
    BY <1>1, <1>4, <2>4 DEF LeadsTo
  <2>8. (asked \in DOMAIN source.table /\ Whole(source.table, asked))'
    BY <1>1, <1>4, <2>4 DEF Whole
  <2>9. QED
    BY <1>1, <1>4, <2>5, <2>6, <2>7, <2>8 DEF WholeInv
<1>8. QED
  BY <1>6, <1>7 DEF IInv

LEMMA StealStep ==
  ASSUME IInv, StealDocuments
  PROVE  IInv'
<1>1. /\ UNCHANGED <<world, link, asked, previous, source, inRecursion, own, scopes, missing>>
      /\ at = "steal" /\ at' = "name" /\ refs' = refs \cup source.refs
  BY DEF StealDocuments
<1>2. PICK docs \in Stolen(table, source.table) :
        table' = Over([doc \in docs |-> source.table[doc]], table)
  BY DEF StealDocuments
<1>3. docs \subseteq DOMAIN source.table
  BY <1>2 DEF Stolen, Stealable
<1>4. /\ DOMAIN table' = docs \cup DOMAIN table
      /\ \A doc \in docs : table'[doc] = source.table[doc]
      /\ \A doc \in DOMAIN table \ docs : table'[doc] = table[doc]
  BY <1>2 DEF Over
<1>5. LoopInv
  BY DEF IInv
<1>6. LoopInv'
  <2>1. (\A doc \in DOMAIN table : HasKey(table, doc))'
    BY <1>3, <1>4, <1>5 DEF LoopInv, HasKey
  <2>2. (\A doc \in DOMAIN source.table : HasKey(source.table, doc))'
    BY <1>1, <1>5 DEF LoopInv, HasKey
  <2>3. QED
    BY <1>1, <1>5, <2>1, <2>2 DEF LoopInv
<1>7. ASSUME Disciplined' PROVE WholeInv'
  <2>1. WholeInv
    BY <1>1, <1>7, DisciplineBefore DEF IInv
  <2>2. /\ source.file = asked /\ asked \in DOMAIN source.table /\ Whole(source.table, asked)
        /\ \A doc \in DOMAIN source.table : doc # Here /\ (doc = asked \/ IsEmpty(source.table, doc))
        /\ \A r \in source.refs : LeadsTo(r, source.table)
    BY <1>1, <2>1 DEF WholeInv
  <2>3. asked \in DOMAIN table /\ IsEmpty(table, asked)
    BY <1>1, <1>5 DEF LoopInv
  <2>4. Conflicts(table, source.table) = {}
    BY <2>2, <2>3 DEF Conflicts
  <2>5. docs = Stealable(table, source.table)
    BY <1>2, <2>4 DEF Stolen
  <2>6. asked \in docs /\ DOMAIN source.table \subseteq DOMAIN table'
    BY <1>4, <2>2, <2>3, <2>5 DEF Stealable
  <2>7. /\ Whole(table', asked)
        /\ \A doc \in DOMAIN table' : IsEmpty(table', doc) \/ Whole(table', doc)
    BY <1>3, <1>4, <2>1, <2>2, <2>6, SMTT(30) DEF WholeInv, IsEmpty, Whole
  <2>8. \A r \in refs' : LeadsTo(r, table')
    BY <1>1, <1>4, <2>1, <2>2, <2>6 DEF WholeInv, LeadsTo
  <2>9. (\A r \in DOMAIN link : link[r] = Meant(r))'
    BY <1>1, <2>1 DEF WholeInv, Meant, Has
  <2>10. /\ (\A doc \in DOMAIN table : IsEmpty(table, doc) \/ Whole(table, doc))'
         /\ (Whole(table, asked))'
    BY <1>1, <2>7 DEF IsEmpty, Whole
  <2>11. (\A r \in refs : LeadsTo(r, table))'
    BY <1>1, <2>8 DEF LeadsTo
  <2>12. (source.file = asked /\ asked \in DOMAIN table)'
    BY <1>1, <1>4, <2>2, <2>6
  <2>13. QED
    BY <1>1, <2>9, <2>10, <2>11, <2>12 DEF WholeInv
<1>8. QED
  BY <1>6, <1>7 DEF IInv

LEMMA NameStep ==
  ASSUME IInv, NameDocument
  PROVE  IInv'
<1> DEFINE root == [x \in {RootFragment} |-> [file |-> source.file, frag |-> RootFragment]]
<1>1. /\ UNCHANGED <<world, refs, link, asked, previous, inRecursion, own, scopes, missing>>
      /\ at = "name" /\ at' = "loop" /\ source' = NoSource
      /\ table' = AddValidators(table, asked, root, First)
  BY DEF NameDocument
<1>2. LoopInv
  BY DEF IInv
<1>3. DOMAIN root = {RootFragment} /\ root[RootFragment] = [file |-> source.file, frag |-> RootFragment]
  OBVIOUS
<1> HIDE DEF root
<1>4. /\ DOMAIN table' = DOMAIN table \cup {asked}
      /\ \A d \in DOMAIN table \ {asked} : table'[d] = table[d]
      /\ table'[asked].frags =
           Over(IF asked \in DOMAIN table THEN table[asked].frags ELSE NoFragments, root)
  <2>1. PICK whole : whole = Over(IF asked \in DOMAIN table THEN table[asked].frags ELSE NoFragments, root)
    OBVIOUS
  <2>2. asked \notin DOMAIN table => whole = root
    BY <1>3, <2>1 DEF Over, NoFragments, root
  <2>3. /\ DOMAIN table' = DOMAIN table \cup {asked}
        /\ \A d \in DOMAIN table \ {asked} : table'[d] = table[d]
    BY <1>1 DEF AddValidators
  <2>4. CASE asked \in DOMAIN table
    <3>1. table'[asked] = [key |-> table[asked].key, frags |-> whole]
      BY <1>1, <2>1, <2>4 DEF AddValidators
    <3>2. table'[asked].frags = whole
      BY <3>1
    <3>3. QED
      BY <2>1, <2>3, <3>2
  <2>5. CASE asked \notin DOMAIN table
    <3>1. table'[asked] = [key |-> <<First, asked>>, frags |-> root]
      BY <1>1, <2>5 DEF AddValidators
    <3>2. table'[asked].frags = whole
      BY <2>2, <2>5, <3>1
    <3>3. QED
      BY <2>1, <2>3, <3>2
  <2>6. QED
    BY <2>4, <2>5
<1>5. asked \in DOMAIN table' /\ ~IsEmpty(table', asked)
  BY <1>3, <1>4 DEF IsEmpty, Over
<1>6. LoopInv'
  <2>1. \A d \in DOMAIN table' : HasKey(table', d)
    BY <1>1, <1>2, AddValidatorsKeys DEF LoopInv
  <2>2. (\A doc \in DOMAIN table : HasKey(table, doc))'
    BY <2>1 DEF HasKey
  <2>3. (\A doc \in DOMAIN source.table : HasKey(source.table, doc))'
    BY <1>1 DEF NoSource, NoFragments
  <2>4. (asked \in DOMAIN table /\ ~IsEmpty(table, asked))'
    BY <1>1, <1>5 DEF IsEmpty
  <2>5. QED
    BY <1>1, <1>2, <2>2, <2>3, <2>4 DEF LoopInv
<1>7. ASSUME Disciplined' PROVE WholeInv'
  <2>1. WholeInv
    BY <1>1, <1>7, DisciplineBefore DEF IInv
  <2>2. source.file = asked /\ asked \in DOMAIN table /\ Whole(table, asked)
    BY <1>1, <2>1 DEF WholeInv
  <2>3. TextOf(asked) = asked
    BY <1>1, <1>2, RootScopeIs DEF LoopInv
  <2>4. Over(table[asked].frags, root) = table[asked].frags
    BY <1>3, <2>2 DEF Over, Whole
  <2>5. DOMAIN table' = DOMAIN table /\ \A d \in DOMAIN table : table'[d].frags = table[d].frags
    BY <1>4, <2>2, <2>4
  <2>6. (\A doc \in DOMAIN table : IsEmpty(table, doc) \/ Whole(table, doc))'
    BY <1>1, <2>1, <2>5 DEF WholeInv, IsEmpty, Whole
  <2>7. (\A r \in refs : LeadsTo(r, table))'
    BY <1>1, <2>1, <2>5 DEF WholeInv, LeadsTo
  <2>8. (\A r \in DOMAIN link : link[r] = Meant(r))'
    BY <1>1, <2>1 DEF WholeInv, Meant, Has
  <2>9. QED
    BY <1>1, <2>6, <2>7, <2>8 DEF WholeInv
<1>8. QED
  BY <1>6, <1>7 DEF IInv

(* In a whole table a reference finds what it means.                       *)
LEMMA LookupIsMeant ==
  ASSUME WholeInv, LoopInv, NEW r \in refs, ~IsEmpty(table, r.doc)
  PROVE  LookupValidator(table, r.doc, r.frag) = Meant(r)
<1>1. LeadsTo(r, table) /\ Whole(table, r.doc)
  BY DEF WholeInv, LeadsTo
<1> DEFINE node == world[r.file].visit[r.node]
           f == TextOf(r.doc)
<1>2. f = MeantDocument(r.file, node) /\ r.frag = node.uri.frag /\ r.doc \in DOMAIN table
  BY <1>1 DEF LeadsTo
<1>3. table[r.doc].frags = [frag \in {RootFragment} \cup world[f].defs |-> [file |-> f, frag |-> frag]]
  BY <1>1 DEF Whole
<1>4. Meant(r) = IF r.frag \in {RootFragment} \cup world[f].defs THEN [file |-> f, frag |-> r.frag] ELSE NotFound
  BY <1>2 DEF Meant, Has
<1> HIDE DEF node, f
<1>5. QED
  BY <1>2, <1>3, <1>4 DEF LookupValidator

LEMMA FollowStep ==
  ASSUME IInv, NEW r \in refs, FollowReference(r)
  PROVE  IInv'
<1>1. /\ UNCHANGED <<world, table, refs, at, asked, previous, source, inRecursion, own, scopes, missing>>
      /\ at \in {"start", "resolved"}
      /\ LookupValidator(table, r.doc, r.frag) # NotFound
      /\ link' = Over(link, [x \in {r} |-> LookupValidator(table, r.doc, r.frag)])
  BY DEF FollowReference
<1>2. LoopInv
  BY DEF IInv
<1>3. LoopInv'
  BY <1>1, <1>2 DEF LoopInv, HasKey, IsEmpty, Unresolved
<1>4. ASSUME Disciplined' PROVE WholeInv'
  <2>1. WholeInv
    BY <1>1, <1>4, DisciplineBefore DEF IInv
  <2>2. ~IsEmpty(table, r.doc)
    BY <1>1 DEF LookupValidator, IsEmpty
  <2>3. LookupValidator(table, r.doc, r.frag) = Meant(r)
    BY <1>2, <2>1, <2>2, LookupIsMeant
  <2>4. \A x \in DOMAIN link' : link'[x] = Meant(x)
    BY <1>1, <2>1, <2>3 DEF WholeInv, Over
  <2>5. (\A x \in DOMAIN link : link[x] = Meant(x))'
    BY <1>1, <2>4 DEF Meant, Has
  <2>6. (\A doc \in DOMAIN table : IsEmpty(table, doc) \/ Whole(table, doc))'
    BY <1>1, <2>1 DEF WholeInv, IsEmpty, Whole
  <2>7. (\A x \in refs : LeadsTo(x, table))'
    BY <1>1, <2>1 DEF WholeInv, LeadsTo
  <2>8. QED
    BY <1>1, <2>5, <2>6, <2>7 DEF WholeInv
<1>5. QED
  BY <1>3, <1>4 DEF IInv

LEMMA ResolverStep == IInv /\ [ResolverNext]_resolverVars => IInv'
<1> SUFFICES ASSUME IInv, [ResolverNext]_resolverVars PROVE IInv'
  OBVIOUS
<1>1. CASE StartResolving \/ (\E doc \in DOMAIN table : NextDocument(doc)) \/ AllResolved \/ ClientFails
  BY <1>1, IdleStep
<1>2. CASE \E kind \in Kinds : ClientSupplies(kind)
  BY <1>2, ClientSuppliesStep
<1>3. CASE StealDocuments
  BY <1>3, StealStep
<1>4. CASE NameDocument
  BY <1>4, NameStep
<1>5. CASE \E r \in refs : FollowReference(r)
  BY <1>5, FollowStep
<1>6. CASE UNCHANGED resolverVars
  BY <1>6, ZenonT(60) DEF resolverVars, IInv, LoopInv, HasKey, IsEmpty, Unresolved, Disciplined, Base, WholeInv,
              Whole, LeadsTo, Meant, Has
<1>7. QED
  BY <1>1, <1>2, <1>3, <1>4, <1>5, <1>6 DEF ResolverNext, Resolving

-----------------------------------------------------------------------------
(* The resolver's loop, what the client is asked for and what the table    *)
(* holds agree at every step, for any documents, references and scopes.    *)
THEOREM ResolverInductive == ResolverSpec => []IInv
<1>1. IInv /\ [ResolverNext]_resolverVars => IInv'
  BY ResolverStep
<1>2. QED
  BY InitIInv, <1>1, PTL DEF ResolverSpec

(* jschema_resolve says false only for a document the client could not     *)
(* supply, and true only when all are there, of however many documents     *)
(* with whatever references, supplied under whatever scopes.               *)
THEOREM AlwaysResolveAnswers == ResolverSpec => []ResolveAnswers
<1>1. IInv => ResolveAnswers
  BY DEF IInv, LoopInv, ResolveAnswers
<1>2. QED
  BY ResolverInductive, <1>1, PTL

(* Of documents parsed under the names they are asked for by, every        *)
(* reference under whatever nested ids finds the part it means.            *)
THEOREM AlwaysReferencesFind == ResolverSpec => []ReferencesFind
<1>1. IInv => ReferencesFind
  <2> SUFFICES ASSUME IInv, Disciplined PROVE ReferencesFind
    BY DEF ReferencesFind
  <2>1. LoopInv /\ WholeInv
    BY DEF IInv
  <2>2. ASSUME at = "resolved", NEW r \in refs
        PROVE  LookupValidator(table, r.doc, r.frag) = Meant(r)
    <3>1. ~IsEmpty(table, r.doc)
      BY <2>1, <2>2 DEF LoopInv, WholeInv, LeadsTo, Unresolved
    <3>2. QED
      BY <2>1, <3>1, LookupIsMeant
  <2>3. QED
    BY <2>1, <2>2 DEF ReferencesFind, WholeInv
<1>2. QED
  BY ResolverInductive, <1>1, PTL

(* A fragment once in the table stays what it is: documents only come and  *)
(* grow, so a reference that a validation has followed would find the same *)
(* part again.  Of texts under any scopes.                                 *)
Stays ==
  \A doc \in DOMAIN table : \A frag \in DOMAIN table[doc].frags :
    LookupValidator(table', doc, frag) = table[doc].frags[frag]

THEOREM FragmentsStay == ResolverSpec => [][Stays]_resolverVars
<1>1. ASSUME ResolverNext PROVE Stays
  <2>1. CASE UNCHANGED table
    BY <2>1 DEF Stays, LookupValidator
  <2>2. CASE StealDocuments
    <3>1. PICK docs \in Stolen(table, source.table) :
            table' = Over([doc \in docs |-> source.table[doc]], table)
      BY <2>2 DEF StealDocuments
    <3>2. \A doc \in docs : doc \in DOMAIN table => IsEmpty(table, doc)
      BY <3>1 DEF Stolen, Stealable
    <3>3. QED
      BY <3>1, <3>2 DEF Stays, LookupValidator, IsEmpty, Over
  <2>3. CASE NameDocument
    <3>1. PICK root : table' = AddValidators(table, asked, root, First)
      BY <2>3 DEF NameDocument
    <3>2. QED
      BY <3>1 DEF Stays, LookupValidator, AddValidators, Over
  <2>4. QED
    BY <1>1, <2>1, <2>2, <2>3 DEF ResolverNext, Resolving, StartResolving, NextDocument, AllResolved,
       ClientSupplies, ClientFails, FollowReference
<1>2. ResolverNext => Stays
  BY <1>1
<1>3. QED
  BY <1>2, PTL DEF ResolverSpec

=============================================================================
