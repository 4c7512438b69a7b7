----------------------------- MODULE LexerProofs -----------------------------
(***************************************************************************)
(* lex and destroy_tokens for every text and every initial capacity.       *)
(*                                                                         *)
(*   IInv     memory: a register of the live blocks, a set of pairs        *)
(*            <<owner, block>> that is one to one between the owners the   *)
(*            state has now and the blocks that are not freed yet          *)
(*   TInv     types, and where every scanner ends, which rests on what     *)
(*            its recursive functions compute                              *)
(*   Tracked  lines and columns, up to a token with a newline inside       *)
(*   Inside   literals are read in the text, or the text is cut off        *)
(***************************************************************************)
EXTENDS Lexemes, FiniteSetTheorems, SequenceTheorems, NaturalsInduction, WellFoundedInduction,
        TLAPS

-----------------------------------------------------------------------------
(* Registers.                                                              *)

Registered(R, h) ==
    /\ h \in Seq(Nat)
    /\ \A r \in R : r = <<r[1], r[2]>> /\ r[2] \in 1..Len(h) /\ h[r[2]] = 0
    /\ \A r, q \in R : r[1] = q[1] <=> r[2] = q[2]
    /\ \A b \in 1..Len(h) : h[b] = 1 \/ (h[b] = 0 /\ \E r \in R : r[2] = b)

Without(R, o) == {r \in R : r[1] # o}
Owns(R, o, b) == <<o, b>> \in R
IsNew(R, o) == \A r \in R : r[1] # o

\* The owner o has b now, instead of what it had.
Moved(R, o, b) == Without(R, o) \cup {<<o, b>>}

\* malloc: the heap is one block longer, and the block is live.
LEMMA MallocFacts ==
    ASSUME NEW h \in Seq(Nat)
    PROVE  /\ malloc(h) \in Seq(Nat)
           /\ Len(malloc(h)) = Len(h) + 1
           /\ malloc(h)[Len(h) + 1] = 0
           /\ \A b \in 1..Len(h) : malloc(h)[b] = h[b]
BY DEF malloc

\* free: the block is freed once more, and no other.
LEMMA FreeFacts ==
    ASSUME NEW h \in Seq(Nat), NEW b \in 1..Len(h)
    PROVE  /\ free(h, b) \in Seq(Nat)
           /\ Len(free(h, b)) = Len(h)
           /\ free(h, b)[b] = h[b] + 1
           /\ \A c \in 1..Len(h) : c # b => free(h, b)[c] = h[c]
BY DEF free

\* A new block with a new owner.
LEMMA Allocated ==
    ASSUME NEW R, NEW h, Registered(R, h), NEW o, IsNew(R, o)
    PROVE  Registered(R \cup {<<o, Len(h) + 1>>}, malloc(h))
<1> DEFINE S == R \cup {<<o, Len(h) + 1>>}
<1>0. /\ h \in Seq(Nat) /\ Len(h) \in Nat
      /\ malloc(h) \in Seq(Nat) /\ Len(malloc(h)) = Len(h) + 1 /\ malloc(h)[Len(h) + 1] = 0
      /\ \A b \in 1..Len(h) : malloc(h)[b] = h[b]
  <2>1. h \in Seq(Nat)
    BY DEF Registered
  <2> QED BY <2>1, MallocFacts, SMTT(40)
<1>1. \A r \in S : r = <<r[1], r[2]>> /\ r[2] \in 1..Len(malloc(h)) /\ malloc(h)[r[2]] = 0
  <2>1. ASSUME NEW r \in R
        PROVE  r = <<r[1], r[2]>> /\ r[2] \in 1..Len(malloc(h)) /\ malloc(h)[r[2]] = 0
    BY <1>0 DEF Registered
  <2>2. ASSUME NEW r, r = <<o, Len(h) + 1>>
        PROVE  r = <<r[1], r[2]>> /\ r[2] \in 1..Len(malloc(h)) /\ malloc(h)[r[2]] = 0
    BY <1>0, <2>2
  <2> QED BY <2>1, <2>2
<1>2. \A r, q \in S : r[1] = q[1] <=> r[2] = q[2]
  <2> SUFFICES ASSUME NEW r \in S, NEW q \in S PROVE r[1] = q[1] <=> r[2] = q[2]
    OBVIOUS
  <2>1. CASE r \in R /\ q \in R
    BY <2>1 DEF Registered
  <2>2. CASE r \in R /\ q = <<o, Len(h) + 1>>
    BY <2>2, <1>0 DEF Registered, IsNew
  <2>3. CASE r = <<o, Len(h) + 1>> /\ q \in R
    BY <2>3, <1>0 DEF Registered, IsNew
  <2> QED BY <2>1, <2>2, <2>3
<1>3. \A b \in 1..Len(malloc(h)) :
          malloc(h)[b] = 1 \/ (malloc(h)[b] = 0 /\ \E r \in S : r[2] = b)
  <2> SUFFICES ASSUME NEW b \in 1..Len(malloc(h))
               PROVE  malloc(h)[b] = 1 \/ (malloc(h)[b] = 0 /\ \E r \in S : r[2] = b)
    OBVIOUS
  <2>1. CASE b = Len(h) + 1
    <3>1. <<o, Len(h) + 1>> \in S /\ <<o, Len(h) + 1>>[2] = b
      BY <2>1
    <3> QED BY <1>0, <2>1, <3>1
  <2>2. CASE b \in 1..Len(h)
    BY <1>0, <2>2 DEF Registered
  <2> QED BY <1>0, <2>1, <2>2
<1> QED BY <1>0, <1>1, <1>2, <1>3 DEF Registered

\* A block that its owner frees.
LEMMA Freed ==
    ASSUME NEW R, NEW h, Registered(R, h), NEW o, NEW b, Owns(R, o, b)
    PROVE  Registered(Without(R, o), free(h, b))
<1> DEFINE S == Without(R, o)
<1>0. /\ h \in Seq(Nat) /\ b \in 1..Len(h) /\ h[b] = 0
      /\ free(h, b) \in Seq(Nat) /\ Len(free(h, b)) = Len(h) /\ free(h, b)[b] = h[b] + 1
      /\ \A c \in 1..Len(h) : c # b => free(h, b)[c] = h[c]
  <2>1. h \in Seq(Nat) /\ b \in 1..Len(h) /\ h[b] = 0
    BY DEF Registered, Owns
  <2> QED BY <2>1, FreeFacts
<1>1. \A r \in S : r \in R /\ r[2] # b
  BY DEF Registered, Owns, Without
<1>2. \A r \in S : r = <<r[1], r[2]>> /\ r[2] \in 1..Len(h) /\ free(h, b)[r[2]] = 0
  BY <1>0, <1>1 DEF Registered
<1>3. \A r, q \in S : r[1] = q[1] <=> r[2] = q[2]
  BY <1>1 DEF Registered
<1>4. \A c \in 1..Len(h) : free(h, b)[c] = 1 \/ (free(h, b)[c] = 0 /\ \E r \in S : r[2] = c)
  <2> SUFFICES ASSUME NEW c \in 1..Len(h)
               PROVE  free(h, b)[c] = 1 \/ (free(h, b)[c] = 0 /\ \E r \in S : r[2] = c)
    OBVIOUS
  <2>1. CASE c = b
    BY <1>0, <2>1
  <2>2. CASE c # b /\ h[c] = 1
    BY <1>0, <2>2
  <2>3. CASE c # b /\ h[c] # 1
    <3>1. h[c] = 0
      BY <2>3 DEF Registered
    <3>2. PICK r \in R : r[2] = c
      BY <2>3 DEF Registered
    <3>3. r \in S
      BY <2>3, <3>2 DEF Registered, Owns, Without
    <3> QED BY <1>0, <2>3, <3>1, <3>2, <3>3
  <2> QED BY <2>1, <2>2, <2>3
<1> QED BY <1>0, <1>2, <1>3, <1>4 DEF Registered

\* A block that passes from one owner to a new one.
LEMMA Passed ==
    ASSUME NEW R, NEW h, Registered(R, h), NEW o, NEW b, Owns(R, o, b), NEW n, IsNew(R, n)
    PROVE  Registered(Without(R, o) \cup {<<n, b>>}, h)
<1> DEFINE S == Without(R, o) \cup {<<n, b>>}
<1>0. h \in Seq(Nat) /\ b \in 1..Len(h) /\ h[b] = 0
  BY DEF Registered, Owns
<1>1. \A r \in Without(R, o) : r \in R /\ r[2] # b /\ r[1] # n
  BY DEF Registered, Owns, Without, IsNew
<1>2. \A r \in S : r = <<r[1], r[2]>> /\ r[2] \in 1..Len(h) /\ h[r[2]] = 0
  BY <1>0, <1>1 DEF Registered
<1>3. \A r, q \in S : r[1] = q[1] <=> r[2] = q[2]
  BY <1>1 DEF Registered
<1>4. ASSUME NEW c \in 1..Len(h), h[c] # 1 PROVE h[c] = 0 /\ \E r \in S : r[2] = c
  <2>1. PICK r \in R : r[2] = c
    BY <1>4 DEF Registered
  <2>2. CASE c = b
    <3>1. <<n, b>> \in S /\ <<n, b>>[2] = c
      BY <2>2
    <3> QED BY <1>0, <2>2, <3>1
  <2>3. CASE c # b
    <3>1. r \in S
      BY <2>1, <2>3 DEF Registered, Owns, Without
    <3> QED BY <1>4, <2>1, <3>1 DEF Registered
  <2> QED BY <2>2, <2>3
<1> QED BY <1>0, <1>2, <1>3, <1>4 DEF Registered

\* An owner that allocates a block and frees the one it had: realloc in two steps.
LEMMA Replaced ==
    ASSUME NEW R, NEW h, Registered(R, h), NEW o, NEW b, Owns(R, o, b)
    PROVE  Registered(Moved(R, o, Len(h) + 1), free(malloc(h), b))
<1>0. h \in Seq(Nat) /\ Len(h) \in Nat /\ b \in 1..Len(h)
  BY DEF Registered, Owns
<1>1. Registered(Without(R, o), free(h, b))
  BY Freed
<1>2. IsNew(Without(R, o), o)
  BY DEF IsNew, Without
<1>3. Registered(Without(R, o) \cup {<<o, Len(free(h, b)) + 1>>}, malloc(free(h, b)))
  BY <1>1, <1>2, Allocated
<1>4. Len(free(h, b)) = Len(h)
  BY <1>0, FreeFacts
<1>5. malloc(free(h, b)) = free(malloc(h), b)
  <2>1. /\ free(h, b) \in Seq(Nat) /\ malloc(h) \in Seq(Nat)
        /\ free(h, b)[b] = h[b] + 1 /\ \A c \in 1..Len(h) : c # b => free(h, b)[c] = h[c]
        /\ Len(malloc(h)) = Len(h) + 1 /\ malloc(h)[Len(h) + 1] = 0
        /\ \A c \in 1..Len(h) : malloc(h)[c] = h[c]
    BY <1>0, FreeFacts, MallocFacts
  <2>2. /\ malloc(free(h, b)) \in Seq(Nat) /\ Len(malloc(free(h, b))) = Len(h) + 1
        /\ malloc(free(h, b))[Len(h) + 1] = 0
        /\ \A c \in 1..Len(h) : malloc(free(h, b))[c] = free(h, b)[c]
    BY <1>4, <2>1, MallocFacts
  <2>3. /\ free(malloc(h), b) \in Seq(Nat) /\ Len(free(malloc(h), b)) = Len(h) + 1
        /\ free(malloc(h), b)[b] = malloc(h)[b] + 1
        /\ \A c \in 1..(Len(h) + 1) : c # b => free(malloc(h), b)[c] = malloc(h)[c]
    <3>1. b \in 1..Len(malloc(h))
      BY <1>0, <2>1
    <3> QED BY <2>1, <3>1, FreeFacts
  <2>4. ASSUME NEW c \in 1..(Len(h) + 1) PROVE malloc(free(h, b))[c] = free(malloc(h), b)[c]
    <3>1. CASE c = Len(h) + 1
      BY <1>0, <2>1, <2>2, <2>3, <3>1
    <3>2. CASE c = b
      BY <1>0, <2>1, <2>2, <2>3, <3>2
    <3>3. CASE c \in 1..Len(h) /\ c # b
      BY <1>0, <2>1, <2>2, <2>3, <3>3
    <3> QED BY <1>0, <3>1, <3>2, <3>3
  <2> QED BY <2>2, <2>3, <2>4
<1> QED BY <1>3, <1>4, <1>5 DEF Moved

-----------------------------------------------------------------------------
(* Arrays.  The elements are of no set that could be named.                *)

IsList(q) == \E S : q \in Seq(S)
IsArray(a) == /\ a = [buf |-> a.buf, items |-> a.items, capacity |-> a.capacity]
              /\ IsList(a.items)

\* One element more, and the others where they were.
LEMMA AppendFacts ==
    ASSUME NEW q, IsList(q), NEW e
    PROVE  /\ IsList(Append(q, e))
           /\ Len(Append(q, e)) = Len(q) + 1
           /\ Append(q, e)[Len(q) + 1] = e
           /\ \A k \in 1..Len(q) : Append(q, e)[k] = q[k]
<1>1. PICK S : q \in Seq(S)
  BY DEF IsList
<1>2. q \in Seq(S \cup {e})
  BY <1>1
<1>3. Append(q, e) \in Seq(S \cup {e})
  BY <1>2
<1> QED BY <1>2, <1>3 DEF IsList

\* array_push_back adds its element, and its owner has the buffer it returns.
LEMMA PushedBack ==
    ASSUME NEW R, NEW h, Registered(R, h), NEW o, NEW a, IsArray(a), Owns(R, o, a.buf), NEW x
    PROVE  LET p == array_push_back(a, x, h)
           IN /\ IsArray(p.arr)
              /\ p.arr.items = Append(a.items, x)
              /\ Registered(Moved(R, o, p.arr.buf), p.heap)
<1> DEFINE p == array_push_back(a, x, h)
<1>0. IsList(Append(a.items, x))
  <2>1. IsList(a.items)
    BY DEF IsArray
  <2> QED BY <2>1, AppendFacts
<1>1. CASE at_capacity(a)
  <2>1. /\ p.arr = [buf |-> Len(h) + 1, items |-> Append(a.items, x), capacity |-> 2 * a.capacity]
        /\ p.heap = free(malloc(h), a.buf)
    BY <1>1 DEF array_push_back
  <2>2. Registered(Moved(R, o, Len(h) + 1), free(malloc(h), a.buf))
    BY Replaced
  <2> QED BY <1>0, <2>1, <2>2 DEF IsArray
<1>2. CASE ~ at_capacity(a)
  <2>1. p.arr = [a EXCEPT !.items = Append(@, x)] /\ p.heap = h
    BY <1>2 DEF array_push_back
  <2>2. p.arr = [buf |-> a.buf, items |-> Append(a.items, x), capacity |-> a.capacity]
    BY <2>1 DEF IsArray
  <2>3. Moved(R, o, a.buf) = R
    <3>1. ASSUME NEW r \in R, r[1] = o PROVE r = <<o, a.buf>>
      BY <3>1 DEF Registered, Owns
    <3> QED BY <3>1 DEF Moved, Without, Owns
  <2> QED BY <1>0, <2>1, <2>2, <2>3 DEF IsArray
<1> QED BY <1>1, <1>2

-----------------------------------------------------------------------------
(* The owners in a state.                                                  *)

Messages(alerts) == {<<<<"message", k>>, alerts[k].alert_msg>> : k \in 1..Len(alerts)}

Literals(toks, from) ==
    {<<<<"literal", k>>, toks[k].str_val>> :
        k \in {j \in from..Len(toks) : toks[j].token_type = "TK_STRLIT"}}

\* What the caller of lex has, with the literals from index `from' on.
Result(a, from) == {<<<<"tokens", 0>>, a.buf>>} \cup Literals(a.items, from)

\* What the lexer has besides: itself and its queue of alerts.
Own(q) == {<<<<"lexer", 0>>, LEXER>>, <<<<"queue", 0>>, QUEUE>>,
           <<<<"queue_array", 0>>, QUEUE_ARRAY>>, <<<<"alerts", 0>>, q.buf>>}
          \cup Messages(q.items)

\* The array of an open string literal.
Held(label, a) == IF label = "str_body" THEN {<<<<"array", 0>>, a.buf>>} ELSE {}

Owned == CASE pc = "done"     -> {}
           [] pc = "destroy"  -> Result(tokens, i)
           [] pc = "returned" -> Result(tokens, 1)
           [] OTHER           -> Result(tokens, 1) \cup Own(queue) \cup Held(pc, arr)

\* Where a token is in the making, and where lex runs.
Open == {"numeric", "char", "char_body", "wide", "wide_close", "wide_rest", "string",
         "str_body", "identifier", "punctuator"}
Ended == {"returned", "destroy", "done"}
Stopped == {"exit", "overrun"}

TokenFields == {"token_type", "int_val", "str_val", "chars", "loc", "size", "line",
                "line_num", "col_num"}

IsRecord(t) == DOMAIN t = TokenFields

Shaped == /\ IsArray(tokens) /\ IsArray(queue)
          /\ \A k \in 1..Len(tokens.items) : IsRecord(tokens.items[k])
          /\ pc = "str_body" => IsArray(arr) /\ width \in {CW_UTF8, CW_UTF16, CW_UTF32}
          /\ i \in Nat

Labelled ==
    /\ pc \in Open \cup Ended \cup Stopped \cup {"loop", "report"}
    /\ pc \in Open \cup {"report"} => Len(tokens.items) >= 1
    /\ pc \in Open => tokens.items[Len(tokens.items)].token_type = "TK_UNKNOWN"

Pointing ==
    /\ pc \in Ended \cup {"loop"} => queue.items = <<>>
    /\ \A k \in 1..Len(queue.items) : queue.items[k].tok = tok
    /\ Len(queue.items) > 0 => Len(tokens.items) >= 1

\* The inductive invariant.  A run that stops inside a literal leaves its array.
IInv ==
    /\ Shaped
    /\ Labelled
    /\ Pointing
    /\ pc \notin Stopped => Registered(Owned, heap)
    /\ pc \in Stopped => \E X : Registered(Owned \cup X, heap)

\* The literals when a token is added that is none.
LEMMA LiteralsAppend ==
    ASSUME NEW toks, IsList(toks), NEW t, t.token_type # "TK_STRLIT"
    PROVE  Literals(Append(toks, t), 1) = Literals(toks, 1)
<1> DEFINE all == Append(toks, t)
<1>1. /\ Len(toks) \in Nat /\ Len(all) = Len(toks) + 1 /\ all[Len(toks) + 1] = t
      /\ \A k \in 1..Len(toks) : all[k] = toks[k]
  <2>1. Len(toks) \in Nat
    BY DEF IsList
  <2> QED BY <2>1, AppendFacts
<1>2. {j \in 1..Len(all) : all[j].token_type = "TK_STRLIT"}
        = {j \in 1..Len(toks) : toks[j].token_type = "TK_STRLIT"}
  BY <1>1
<1> QED BY <1>1, <1>2 DEF Literals

\* The literals when the token in the making is set.
LEMMA LiteralsSet ==
    ASSUME NEW toks, IsList(toks), Len(toks) >= 1, toks[Len(toks)].token_type # "TK_STRLIT",
           NEW t, NEW set, Len(set) = Len(toks), set[Len(toks)] = t,
           \A k \in 1..(Len(toks) - 1) : set[k] = toks[k]
    PROVE  /\ t.token_type # "TK_STRLIT" => Literals(set, 1) = Literals(toks, 1)
           /\ t.token_type = "TK_STRLIT" =>
                  Literals(set, 1) = Literals(toks, 1) \cup {<<<<"literal", Len(toks)>>, t.str_val>>}
           /\ IsNew(Literals(toks, 1), <<"literal", Len(toks)>>)
<1> DEFINE n == Len(toks)
<1>1. n \in Nat \ {0}
  BY DEF IsList
<1>2. ASSUME t.token_type # "TK_STRLIT" PROVE Literals(set, 1) = Literals(toks, 1)
  <2>1. {j \in 1..n : set[j].token_type = "TK_STRLIT"}
          = {j \in 1..n : toks[j].token_type = "TK_STRLIT"}
    BY <1>1, <1>2
  <2>2. \A j \in {j \in 1..n : toks[j].token_type = "TK_STRLIT"} : set[j] = toks[j]
    BY <1>1
  <2> QED BY <1>1, <2>1, <2>2 DEF Literals
<1>3. ASSUME t.token_type = "TK_STRLIT"
      PROVE  Literals(set, 1) = Literals(toks, 1) \cup {<<<<"literal", n>>, t.str_val>>}
  <2>1. {j \in 1..n : set[j].token_type = "TK_STRLIT"}
          = {j \in 1..n : toks[j].token_type = "TK_STRLIT"} \cup {n}
    BY <1>1, <1>3
  <2>2. \A j \in {j \in 1..n : toks[j].token_type = "TK_STRLIT"} : set[j] = toks[j]
    BY <1>1
  <2> QED BY <1>1, <2>1, <2>2 DEF Literals
<1>4. IsNew(Literals(toks, 1), <<"literal", n>>)
  BY <1>1 DEF IsNew, Literals
<1> QED BY <1>1, <1>2, <1>3, <1>4

\* An alert more: a message, and perhaps a larger buffer of the queue.
LEMMA AlertPushed ==
    ASSUME NEW a, NEW A, \A r \in A : r[1] = <<"array", 0>>, IsArray(queue), NEW h,
           Registered(Result(a, 1) \cup Own(queue) \cup A, h),
           NEW type, NEW tk, NEW msg
    PROVE  /\ IsArray(alert_queue_push(type, tk, msg, h).queue)
           /\ \E alert : /\ alert.tok = tk
                         /\ alert_queue_push(type, tk, msg, h).queue.items = Append(queue.items, alert)
           /\ Registered(Result(a, 1) \cup Own(alert_queue_push(type, tk, msg, h).queue) \cup A,
                         alert_queue_push(type, tk, msg, h).heap)
<1> DEFINE R == Result(a, 1) \cup Own(queue) \cup A
           n == Len(queue.items)
           b == Len(h) + 1
           o == <<"message", n + 1>>
           alert == [alert_type |-> type, tok |-> tk, alert_msg |-> b, msg |-> msg]
           p == array_push_back(queue, alert, malloc(h))
           q == alert_queue_push(type, tk, msg, h)
<1>0. q.queue = p.arr /\ q.heap = p.heap
  BY DEF alert_queue_push
<1>1. n \in Nat /\ IsList(queue.items)
  BY DEF IsArray, IsList
<1>2. IsNew(R, o)
  BY <1>1 DEF IsNew, Result, Own, Messages, Literals
<1>3. Registered(R \cup {<<o, b>>}, malloc(h))
  BY <1>2, Allocated
<1>4. Owns(R \cup {<<o, b>>}, <<"alerts", 0>>, queue.buf)
  BY DEF Owns, Own
<1>5. /\ IsArray(p.arr) /\ p.arr.items = Append(queue.items, alert)
      /\ Registered(Moved(R \cup {<<o, b>>}, <<"alerts", 0>>, p.arr.buf), p.heap)
  <2> DEFINE S == R \cup {<<o, b>>}
             g == malloc(h)
  <2>1. Registered(S, g) /\ Owns(S, <<"alerts", 0>>, queue.buf)
    BY <1>3, <1>4
  <2> HIDE DEF S, g, alert
  <2>2. /\ IsArray(array_push_back(queue, alert, g).arr)
        /\ array_push_back(queue, alert, g).arr.items = Append(queue.items, alert)
        /\ Registered(Moved(S, <<"alerts", 0>>, array_push_back(queue, alert, g).arr.buf),
                      array_push_back(queue, alert, g).heap)
    BY <2>1, PushedBack
  <2> QED BY <2>2 DEF S, g
<1>6. Messages(p.arr.items) = Messages(queue.items) \cup {<<o, b>>}
  <2>0. alert.alert_msg = b
    OBVIOUS
  <2> HIDE DEF p, alert
  <2>1. /\ Len(p.arr.items) = n + 1 /\ p.arr.items[n + 1] = alert
        /\ \A k \in 1..n : p.arr.items[k] = queue.items[k]
    BY <1>1, <1>5, AppendFacts
  <2>2. p.arr.items[n + 1].alert_msg = b
    BY <2>0, <2>1
  <2>3. \A k \in 1..n : p.arr.items[k].alert_msg = queue.items[k].alert_msg
    BY <2>1
  <2>4. 1..(n + 1) = 1..n \cup {n + 1}
    BY <1>1
  <2>5. {<<<<"message", k>>, p.arr.items[k].alert_msg>> : k \in 1..(n + 1)}
          = {<<<<"message", k>>, queue.items[k].alert_msg>> : k \in 1..n} \cup {<<<<"message", n + 1>>, b>>}
    BY <2>2, <2>3, <2>4
  <2>6. /\ Messages(p.arr.items) = {<<<<"message", k>>, p.arr.items[k].alert_msg>> : k \in 1..(n + 1)}
        /\ Messages(queue.items) = {<<<<"message", k>>, queue.items[k].alert_msg>> : k \in 1..n}
    BY <2>1 DEF Messages
  <2> QED BY <2>5, <2>6
<1>7. Moved(R \cup {<<o, b>>}, <<"alerts", 0>>, p.arr.buf) = Result(a, 1) \cup Own(p.arr) \cup A
  <2>1. Without(Result(a, 1) \cup A \cup {<<o, b>>}, <<"alerts", 0>>) = Result(a, 1) \cup A \cup {<<o, b>>}
    BY DEF Without, Result, Literals
  <2>2. Without(Own(queue), <<"alerts", 0>>)
          = {<<<<"lexer", 0>>, LEXER>>, <<<<"queue", 0>>, QUEUE>>, <<<<"queue_array", 0>>, QUEUE_ARRAY>>}
            \cup Messages(queue.items)
    BY DEF Without, Own, Messages
  <2>3. Without(R \cup {<<o, b>>}, <<"alerts", 0>>)
          = Without(Result(a, 1) \cup A \cup {<<o, b>>}, <<"alerts", 0>>) \cup Without(Own(queue), <<"alerts", 0>>)
    BY DEF Without
  <2> QED BY <1>6, <2>1, <2>2, <2>3 DEF Moved, Own
<1>8. alert.tok = tk
  OBVIOUS
<1> QED BY <1>0, <1>5, <1>7, <1>8

\* The queue and the heap behind no alert, or one about the token in the making.
AlertsTo(q, h) ==
    \/ q = queue /\ h = heap
    \/ \E type, msg : /\ q = alert_queue_push(type, tok, msg, heap).queue
                      /\ h = alert_queue_push(type, tok, msg, heap).heap
Alerting == AlertsTo(queue', heap')

\* Alerting with the tokens in a.
LEMMA Queued ==
    ASSUME IInv, NEW q, NEW h, AlertsTo(q, h),
           NEW a, NEW A, \A r \in A : r[1] = <<"array", 0>>,
           Registered(Result(a, 1) \cup Own(queue) \cup A, heap)
    PROVE  /\ IsArray(q)
           /\ \A k \in 1..Len(q.items) : q.items[k].tok = tok
           /\ Registered(Result(a, 1) \cup Own(q) \cup A, h)
<1>0. IsArray(queue) /\ \A k \in 1..Len(queue.items) : queue.items[k].tok = tok
  BY DEF IInv, Shaped, Pointing
<1>1. CASE q = queue /\ h = heap
  BY <1>0, <1>1
<1>2. ASSUME NEW type, NEW msg, q = alert_queue_push(type, tok, msg, heap).queue,
             h = alert_queue_push(type, tok, msg, heap).heap
      PROVE  /\ IsArray(q)
             /\ \A k \in 1..Len(q.items) : q.items[k].tok = tok
             /\ Registered(Result(a, 1) \cup Own(q) \cup A, h)
  <2>1. /\ IsArray(q)
        /\ \E alert : alert.tok = tok /\ q.items = Append(queue.items, alert)
        /\ Registered(Result(a, 1) \cup Own(q) \cup A, h)
    <3>1. /\ IsArray(alert_queue_push(type, tok, msg, heap).queue)
          /\ \E alert : /\ alert.tok = tok
                        /\ alert_queue_push(type, tok, msg, heap).queue.items = Append(queue.items, alert)
          /\ Registered(Result(a, 1) \cup Own(alert_queue_push(type, tok, msg, heap).queue) \cup A,
                        alert_queue_push(type, tok, msg, heap).heap)
      BY <1>0, AlertPushed
    <3> QED BY <1>2, <3>1
  <2>2. PICK alert : alert.tok = tok /\ q.items = Append(queue.items, alert)
    BY <2>1
  <2>3. IsList(queue.items) /\ Len(queue.items) \in Nat
    BY <1>0 DEF IsArray, IsList
  <2>4. /\ Len(q.items) = Len(queue.items) + 1
        /\ q.items[Len(queue.items) + 1] = alert
        /\ \A k \in 1..Len(queue.items) : q.items[k] = queue.items[k]
    BY <2>2, <2>3, AppendFacts
  <2>5. ASSUME NEW k \in 1..Len(q.items) PROVE q.items[k].tok = tok
    <3>1. CASE k = Len(queue.items) + 1
      BY <2>2, <2>4, <3>1
    <3>2. CASE k \in 1..Len(queue.items)
      BY <1>0, <2>4, <3>2
    <3> QED BY <2>3, <2>4, <3>1, <3>2
  <2> QED BY <2>1, <2>5
<1> QED BY <1>1, <1>2 DEF AlertsTo

\* t takes the place of the token in the making.
Replacing(t) == tokens' = [tokens EXCEPT !.items[Len(tokens.items)] = t]

\* The tokens then.
LEMMA TokenReplaced ==
    ASSUME IInv, pc \in Open, NEW t, IsRecord(t),
           Replacing(t)
    PROVE  /\ IsArray(tokens') /\ Len(tokens'.items) = Len(tokens.items) /\ Len(tokens'.items) >= 1
           /\ \A k \in 1..Len(tokens'.items) : IsRecord(tokens'.items[k])
           /\ tok' = tok
           /\ t.token_type # "TK_STRLIT" => Result(tokens', 1) = Result(tokens, 1)
           /\ t.token_type = "TK_STRLIT" =>
                  Result(tokens', 1) = Result(tokens, 1) \cup {<<<<"literal", Len(tokens.items)>>, t.str_val>>}
           /\ IsNew(Literals(tokens.items, 1), <<"literal", Len(tokens.items)>>)
<1> DEFINE n == Len(tokens.items)
           old == tokens.items[n]
<1>0. /\ IsArray(tokens) /\ IsList(tokens.items) /\ n \in Nat /\ n >= 1
      /\ \A k \in 1..n : IsRecord(tokens.items[k])
      /\ old.token_type # "TK_STRLIT"
  BY DEF IInv, Shaped, Labelled, IsArray, IsList
<1>1. tokens' = [buf |-> tokens.buf, items |-> [tokens.items EXCEPT ![n] = t], capacity |-> tokens.capacity]
  BY <1>0 DEF IsArray, Replacing
<1>2. /\ IsList(tokens'.items) /\ Len(tokens'.items) = n /\ tokens'.items[n] = t
      /\ \A k \in 1..(n - 1) : tokens'.items[k] = tokens.items[k]
  <2>1. tokens'.items = [tokens.items EXCEPT ![n] = t]
    BY <1>1
  <2>2. PICK S : tokens.items \in Seq(S)
    BY <1>0 DEF IsList
  <2>3. tokens.items \in Seq(S \cup {t}) /\ n \in 1..n
    BY <1>0, <2>2
  <2>4. /\ tokens'.items \in Seq(S \cup {t})
        /\ Len(tokens'.items) = n /\ tokens'.items[n] = t
        /\ \A k \in 1..(n - 1) : tokens'.items[k] = tokens.items[k]
    BY <2>1, <2>3
  <2>5. IsList(tokens'.items)
    BY <2>4 DEF IsList
  <2> QED BY <2>4, <2>5
<1>3. /\ t.token_type # "TK_STRLIT" => Literals(tokens'.items, 1) = Literals(tokens.items, 1)
      /\ t.token_type = "TK_STRLIT" =>
             Literals(tokens'.items, 1) = Literals(tokens.items, 1) \cup {<<<<"literal", n>>, t.str_val>>}
      /\ IsNew(Literals(tokens.items, 1), <<"literal", n>>)
  <2>1. IsList(tokens.items) /\ n >= 1 /\ old.token_type # "TK_STRLIT"
    BY <1>0
  <2>2. /\ Len(tokens'.items) = n /\ tokens'.items[n] = t
        /\ \A k \in 1..(n - 1) : tokens'.items[k] = tokens.items[k]
    BY <1>2
  <2>3. PICK a, b : a = tokens.items /\ b = tokens'.items
    OBVIOUS
  <2>4. IsList(a) /\ Len(a) >= 1 /\ a[Len(a)].token_type # "TK_STRLIT"
    BY <2>1, <2>3
  <2>5. /\ Len(b) = Len(a) /\ b[Len(a)] = t
        /\ \A k \in 1..(Len(a) - 1) : b[k] = a[k]
    BY <2>2, <2>3
  <2>6. t.token_type # "TK_STRLIT" => Literals(b, 1) = Literals(a, 1)
    BY <2>4, <2>5, LiteralsSet
  <2>7. t.token_type = "TK_STRLIT" =>
            Literals(b, 1) = Literals(a, 1) \cup {<<<<"literal", Len(a)>>, t.str_val>>}
    BY <2>4, <2>5, LiteralsSet, ZenonT(40)
  <2>8. IsNew(Literals(a, 1), <<"literal", Len(a)>>)
    BY <2>4, <2>5, LiteralsSet
  <2> QED BY <2>3, <2>6, <2>7, <2>8
<1>4. \A k \in 1..n : IsRecord(tokens'.items[k])
  BY <1>0, <1>2
<1>5. tokens'.buf = tokens.buf /\ IsArray(tokens')
  BY <1>1, <1>2 DEF IsArray
<1>6. tok' = tok
  BY <1>2, <1>5 DEF tok, array_at
<1> QED BY <1>0, <1>2, <1>3, <1>4, <1>5, <1>6 DEF Result

\* The token that a sub-lexer accepts.
LEMMA TokenSet ==
    ASSUME IInv, pc \in Open, NEW type, NEW int_val, NEW str_val, NEW chars, NEW end,
           SetToken(type, int_val, str_val, chars, end)
    PROVE  /\ \E t : /\ IsRecord(t) /\ t.token_type = type /\ t.str_val = str_val
                     /\ Replacing(t)
           /\ pc' = "report" /\ i' \in Nat
<1> DEFINE n == Len(tokens.items)
           old == tokens.items[n]
<1>1. PICK t : t = [old EXCEPT !.token_type = type, !.int_val = int_val, !.str_val = str_val,
                               !.chars = chars, !.loc = cur, !.size = end - cur]
  OBVIOUS
<1>2. IsRecord(old)
  BY DEF IInv, Shaped, Labelled, IsArray, IsList
<1>3. IsRecord(t) /\ t.token_type = type /\ t.str_val = str_val
  BY <1>1, <1>2 DEF IsRecord, TokenFields
<1>4. Replacing(t)
  BY <1>1 DEF SetToken, Replacing
<1>5. pc' = "report" /\ i' \in Nat
  BY DEF SetToken
<1> QED BY <1>3, <1>4, <1>5

\* A step with no string literal open that keeps the tokens.
LEMMA Continues ==
    ASSUME IInv, Alerting, tokens' = tokens, i' \in Nat,
           pc \in (Open \ {"str_body"}) \cup {"loop", "report"},
           pc' \in (Open \ {"str_body"}) \cup {"loop", "report"} \cup Stopped,
           pc' \in Open => pc \in Open,
           pc' = "report" => pc \in Open \cup {"report"},
           pc = "loop" <=> pc' = "loop",
           pc' = "loop" => queue' = queue
    PROVE  IInv'
<1> PICK A : A = {}
  OBVIOUS
<1>0. Registered(Result(tokens, 1) \cup Own(queue) \cup A, heap)
  <2>1. pc \notin Ended \cup Stopped \cup {"str_body"}
    BY DEF Open, Ended, Stopped
  <2>2. Owned = Result(tokens, 1) \cup Own(queue) \cup A
    BY <2>1 DEF Owned, Held, Ended
  <2> QED BY <2>1, <2>2 DEF IInv
<1>1. /\ IsArray(queue') /\ \A k \in 1..Len(queue'.items) : queue'.items[k].tok = tok
      /\ Registered(Result(tokens, 1) \cup Own(queue') \cup A, heap')
  <2>1. \A r \in A : r[1] = <<"array", 0>>
    OBVIOUS
  <2> QED BY <1>0, <2>1, Queued DEF Alerting
<1>2. tok' = tok
  BY DEF tok, array_at
<1>3. pc' \notin Ended /\ pc' # "str_body"
  BY DEF Open, Ended, Stopped
<1>4. Owned' = Result(tokens, 1) \cup Own(queue') \cup A
  BY <1>3 DEF Owned, Held, Ended
<1>5. Shaped'
  BY <1>1, <1>3 DEF IInv, Shaped
<1>6. Labelled'
  BY <1>3 DEF IInv, Labelled
<1>7. Pointing'
  <2>1. pc' = "loop" => queue'.items = <<>>
    BY DEF IInv, Pointing
  <2>2. pc' \in Ended \cup {"loop"} => queue'.items = <<>>
    BY <1>3, <2>1
  <2>3. Len(queue'.items) > 0 => Len(tokens.items) >= 1
    <3>1. CASE pc \in Open \cup {"report"}
      BY <3>1 DEF IInv, Labelled
    <3>2. CASE pc = "loop"
      <4>1. queue'.items = <<>>
        BY <2>1, <3>2
      <4> QED BY <4>1
    <3> QED BY <3>1, <3>2 DEF Open
  <2> QED BY <1>1, <1>2, <2>2, <2>3 DEF Pointing
<1>8. Registered(Owned', heap')
  BY <1>1, <1>4
<1>9. \E X : Registered(Owned' \cup X, heap')
  <2>1. Owned' \cup {} = Owned'
    OBVIOUS
  <2> QED BY <1>8, <2>1
<1> QED BY <1>5, <1>6, <1>7, <1>8, <1>9 DEF IInv

\* A step with no string literal open that ends the token in the making.
LEMMA Finishes ==
    ASSUME IInv, Alerting, pc \in Open \ {"str_body"}, pc' = "report", i' \in Nat,
           NEW t, IsRecord(t), t.token_type # "TK_STRLIT",
           Replacing(t)
    PROVE  IInv'
<1> PICK A : A = {}
  OBVIOUS
<1>0. pc \in Open /\ pc \notin Ended \cup Stopped \cup {"str_body"}
  BY DEF Open, Ended, Stopped
<1>1. Registered(Result(tokens, 1) \cup Own(queue) \cup A, heap)
  <2>1. Owned = Result(tokens, 1) \cup Own(queue) \cup A
    BY <1>0 DEF Owned, Held, Ended
  <2> QED BY <1>0, <2>1 DEF IInv
<1>2. /\ IsArray(queue') /\ \A k \in 1..Len(queue'.items) : queue'.items[k].tok = tok
      /\ Registered(Result(tokens, 1) \cup Own(queue') \cup A, heap')
  <2>1. \A r \in A : r[1] = <<"array", 0>>
    OBVIOUS
  <2> QED BY <1>1, <2>1, Queued DEF Alerting
<1>3. /\ IsArray(tokens') /\ Len(tokens'.items) >= 1
      /\ \A k \in 1..Len(tokens'.items) : IsRecord(tokens'.items[k])
      /\ tok' = tok /\ Result(tokens', 1) = Result(tokens, 1)
  BY <1>0, TokenReplaced
<1>4. Owned' = Result(tokens', 1) \cup Own(queue') \cup A
  BY DEF Owned, Held, Ended
<1>5. Shaped'
  BY <1>2, <1>3 DEF Shaped
<1>6. Labelled'
  BY <1>3 DEF Labelled, Open
<1>7. Pointing'
  BY <1>2, <1>3 DEF Pointing, Ended
<1>8. Registered(Owned', heap')
  BY <1>2, <1>3, <1>4
<1>9. pc' \notin Stopped
  BY DEF Stopped
<1> QED BY <1>5, <1>6, <1>7, <1>8, <1>9 DEF IInv

\* The same for a token that is set.
LEMMA Accepts ==
    ASSUME IInv, Alerting, pc \in Open \ {"str_body"}, NEW type, type # "TK_STRLIT",
           NEW int_val, NEW str_val, NEW chars, NEW end, SetToken(type, int_val, str_val, chars, end)
    PROVE  IInv'
<1>1. /\ pc \in Open
      /\ \E t : /\ IsRecord(t) /\ t.token_type = type /\ t.str_val = str_val
                /\ Replacing(t)
      /\ pc' = "report" /\ i' \in Nat
  BY TokenSet
<1>2. PICK t : /\ IsRecord(t) /\ t.token_type = type
               /\ Replacing(t)
  BY <1>1
<1> QED BY <1>1, <1>2, Finishes

-----------------------------------------------------------------------------
(* The steps.                                                              *)

\* The type that a numeric constant gives its token.
LEMMA NumberType ==
    ASSUME NEW p, numeric_constant(p) # NoNumber
    PROVE  numeric_constant(p).type # "TK_STRLIT"
BY DEF numeric_constant, consume_hex, consume_dec_or_oct, int_constant, float_constant,
       exponent_and_suffix, consume_suffix, Numeric, NoNumber, Bad

\* Quiet and Push are the two ways to alert.
LEMMA QuietOrPush ==
    /\ Quiet => Alerting
    /\ \A type, msg : Push(type, msg) => Alerting
BY DEF Quiet, alertVars, Push, Alerting, AlertsTo

\* The sub-lexers, but for the start of a string literal.
LEMMA SubLexerStep ==
    ASSUME IInv, SubLexer, ~ (lex_string_literal /\ pc' = "str_body")
    PROVE  IInv'
<1>1. CASE lex_numeric_constant
  <2>1. pc = "numeric" /\ pc \in Open \ {"str_body"}
    BY <1>1 DEF lex_numeric_constant, Open
  <2>2. CASE numeric_constant(cur) = NoNumber
    <3>1. Goto("char") /\ Quiet
      BY <1>1, <2>2 DEF lex_numeric_constant
    <3> QED BY <2>1, <3>1, QuietOrPush, Continues DEF Goto, Open, IInv, Shaped
  <2>3. CASE numeric_constant(cur) # NoNumber
    <3> PICK n : n = numeric_constant(cur)
      OBVIOUS
    <3>1. SetToken(n.type, n.val, 0, <<>>, n.end) /\ (Quiet \/ Push("ALERT_ERR", n.error))
      BY <1>1, <2>3 DEF lex_numeric_constant
    <3>2. n.type # "TK_STRLIT"
      BY <2>3, NumberType
    <3> QED BY <2>1, <3>1, <3>2, QuietOrPush, Accepts
  <2> QED BY <2>2, <2>3
<1>2. CASE lex_char_literal
  <2>1. pc = "char" /\ pc \in Open \ {"str_body"}
    BY <1>2 DEF lex_char_literal, Open
  <2>2. \/ Goto("string") /\ Quiet
        \/ \E end : SetToken("TK_ICONST", 0, 0, <<>>, end) /\ Push("ALERT_ERR", "empty character literal")
        \/ \E p, w, a : (Enter("wide", p, w, a) \/ Enter("char_body", p, w, a)) /\ Quiet
    BY <1>2 DEF lex_char_literal
  <2>3. CASE Goto("string") /\ Quiet
    BY <2>1, <2>3, QuietOrPush, Continues DEF Goto, Open, IInv, Shaped
  <2>4. ASSUME NEW end, SetToken("TK_ICONST", 0, 0, <<>>, end),
               Push("ALERT_ERR", "empty character literal")
        PROVE  IInv'
    BY <2>1, <2>4, QuietOrPush, Accepts
  <2>5. ASSUME NEW p, NEW w, NEW a, Enter("wide", p, w, a) \/ Enter("char_body", p, w, a), Quiet
        PROVE  IInv'
    BY <2>1, <2>5, QuietOrPush, Continues DEF Enter, Open, IInv, Shaped
  <2> QED BY <2>2, <2>3, <2>4, <2>5
<1>3. CASE lex_string_literal
  <2>1. pc = "string" /\ pc \in Open \ {"str_body"}
    BY <1>3 DEF lex_string_literal, Open
  <2>2. Goto("identifier") /\ Quiet
    BY <1>3 DEF lex_string_literal, Enter
  <2> QED BY <2>1, <2>2, QuietOrPush, Continues DEF Goto, Open, IInv, Shaped
<1>4. CASE lex_identifier
  <2>1. pc = "identifier" /\ pc \in Open \ {"str_body"} /\ Alerting
    BY <1>4, QuietOrPush DEF lex_identifier, Open
  <2>2. \/ Goto("punctuator")
        \/ \E type, end : type # "TK_STRLIT" /\ SetToken(type, 0, 0, <<>>, end)
    BY <1>4 DEF lex_identifier
  <2>3. CASE Goto("punctuator")
    BY <2>1, <2>3, Continues DEF Goto, Open, IInv, Shaped
  <2>4. ASSUME NEW type, NEW end, type # "TK_STRLIT", SetToken(type, 0, 0, <<>>, end)
        PROVE  IInv'
    BY <2>1, <2>4, Accepts
  <2> QED BY <2>2, <2>3, <2>4
<1>5. CASE lex_punctuator
  <2>1. pc = "punctuator" /\ pc \in Open \ {"str_body"}
    BY <1>5 DEF lex_punctuator, Open
  <2>2. \/ \E end : SetToken("TK_PUNCT", 0, 0, <<>>, end) /\ Quiet
        \/ /\ tokens' = [tokens EXCEPT !.items[Len(tokens.items)].size = 1]
           /\ pc' = "report" /\ i' = 1 /\ Push("ALERT_ERR", "unexpected token")
    BY <1>5 DEF lex_punctuator
  <2>3. ASSUME NEW end, SetToken("TK_PUNCT", 0, 0, <<>>, end), Quiet PROVE IInv'
    BY <2>1, <2>3, QuietOrPush, Accepts
  <2>4. ASSUME tokens' = [tokens EXCEPT !.items[Len(tokens.items)].size = 1],
               pc' = "report", i' = 1, Push("ALERT_ERR", "unexpected token")
        PROVE  IInv'
    <3> DEFINE old == tokens.items[Len(tokens.items)]
    <3>1. PICK t : t = [old EXCEPT !.size = 1]
      OBVIOUS
    <3>2. IsRecord(old) /\ old.token_type = "TK_UNKNOWN"
      BY <2>1 DEF IInv, Shaped, Labelled, IsArray, IsList
    <3>3. IsRecord(t) /\ t.token_type # "TK_STRLIT"
      BY <3>1, <3>2 DEF IsRecord, TokenFields
    <3>4. Replacing(t)
      BY <2>4, <3>1 DEF Replacing
    <3>5. Alerting /\ i' \in Nat
      BY <2>4, QuietOrPush
    <3> QED BY <2>1, <2>4, <3>3, <3>4, <3>5, Finishes
  <2> QED BY <2>2, <2>3, <2>4
<1> QED BY <1>1, <1>2, <1>3, <1>4, <1>5 DEF SubLexer

\* The alert of an escape.
LEMMA EscapeAlerts == \A e : AlertsTo(alerted(e).queue, alerted(e).heap)
BY DEF AlertsTo, alerted

\* White space, and a report.
LEMMA QuietStep ==
    ASSUME IInv, SkipNewline \/ SkipSpace \/ ReportAlert
    PROVE  IInv'
<1>1. CASE SkipNewline \/ SkipSpace
  <2>1. /\ Alerting /\ tokens' = tokens /\ pc = "loop" /\ pc' = "loop" /\ queue' = queue
        /\ i' \in Nat
    BY <1>1 DEF SkipNewline, SkipSpace, Alerting, AlertsTo, alertVars, IInv, Shaped
  <2> QED BY <2>1, Continues DEF Open
<1>2. CASE ReportAlert
  <2>1. /\ Alerting /\ tokens' = tokens /\ pc = "report" /\ pc' \in {"report", "exit"}
        /\ i' \in Nat
    BY <1>2 DEF ReportAlert, Reporting, Alerting, AlertsTo, IInv, Shaped
  <2> QED BY <2>1, Continues DEF Open, Stopped
<1> QED BY <1>1, <1>2

\* The bodies of character literals.
LEMMA CharLiteralStep ==
    ASSUME IInv, CharLiteral
    PROVE  IInv'
<1>1. CASE CharBodyClose
  <2>1. pc \in Open \ {"str_body"} /\ Alerting
    BY <1>1, QuietOrPush DEF CharBodyClose, Open
  <2>2. \E c, e : SetToken("TK_ICONST", 0, 0, c, e)
    BY <1>1 DEF CharBodyClose
  <2> QED BY <2>1, <2>2, Accepts
<1>2. CASE CharBodyEscape
  <2>1. /\ pc = "char_body" /\ pc' = pc /\ tokens' = tokens /\ i' \in Nat
        /\ queue' = alerted(escape).queue /\ heap' = alerted(escape).heap
    BY <1>2 DEF CharBodyEscape, Advance, IInv, Shaped
  <2>2. Alerting
    BY <2>1, EscapeAlerts DEF Alerting
  <2> QED BY <2>1, <2>2, Continues DEF Open
<1>3. CASE CharBodyPlain
  <2>1. /\ pc = "char_body" /\ pc' = pc /\ tokens' = tokens /\ i' \in Nat /\ Alerting
    BY <1>3, QuietOrPush DEF CharBodyPlain, Advance, IInv, Shaped
  <2> QED BY <2>1, Continues DEF Open
<1>4. CASE CharBodyUnterminated
  <2>1. /\ pc \in Open \ {"str_body"} /\ Alerting /\ SetToken("TK_ICONST", 0, 0, <<>>, s)
    BY <1>4, QuietOrPush DEF CharBodyUnterminated, Open
  <2> QED BY <2>1, Accepts
<1>5. CASE WideChar
  <2>1. /\ pc = "wide" /\ pc' = "wide_close" /\ tokens' = tokens /\ i' \in Nat
        /\ \/ queue' = alerted(escape).queue /\ heap' = alerted(escape).heap
           \/ queue' = queue /\ heap' = heap
    BY <1>5 DEF WideChar, IInv, Shaped
  <2>2. Alerting
    BY <2>1, EscapeAlerts DEF Alerting, AlertsTo
  <2> QED BY <2>1, <2>2, Continues DEF Open
<1>6. CASE WideClose
  <2>1. pc = "wide_close" /\ pc \in Open \ {"str_body"} /\ Alerting
    BY <1>6, QuietOrPush DEF WideClose, Open
  <2>2. \/ \E v, e : SetToken("TK_ICONST", v, 0, <<>>, e)
        \/ Goto("wide_rest")
    BY <1>6 DEF WideClose
  <2>3. ASSUME NEW v, NEW e, SetToken("TK_ICONST", v, 0, <<>>, e) PROVE IInv'
    BY <2>1, <2>3, Accepts
  <2>4. CASE Goto("wide_rest")
    BY <2>1, <2>4, Continues DEF Goto, Open, IInv, Shaped
  <2> QED BY <2>2, <2>3, <2>4
<1>7. CASE WideRest
  <2>1. pc \in Open \ {"str_body"} /\ Alerting
    BY <1>7, QuietOrPush DEF WideRest, Open
  <2>2. \E v, e : SetToken("TK_ICONST", v, 0, <<>>, e)
    BY <1>7 DEF WideRest
  <2> QED BY <2>1, <2>2, Accepts
<1> QED BY <1>1, <1>2, <1>3, <1>4, <1>5, <1>6, <1>7 DEF CharLiteral

\* lex and the caller of lex stop at a byte that is not UTF-8 and behind the text.
LEMMA StopStep ==
    ASSUME IInv, InvalidUtf8 \/ Overrun
    PROVE  IInv'
<1>1. /\ pc \in Open /\ pc' \in Stopped
      /\ UNCHANGED <<tokens, queue, heap, arr, width, i>>
  BY DEF InvalidUtf8, Overrun, Goto, Quiet, alertVars, Open, Stopped
<1>2. pc \notin Ended \cup Stopped /\ pc' \notin Ended \cup Open \cup {"loop", "report", "str_body"}
  BY <1>1 DEF Open, Ended, Stopped
<1>3. Registered(Result(tokens, 1) \cup Own(queue) \cup Held(pc, arr), heap)
  <2>1. Owned = Result(tokens, 1) \cup Own(queue) \cup Held(pc, arr)
    BY <1>2 DEF Owned, Ended
  <2> QED BY <1>2, <2>1 DEF IInv
<1>4. Owned' \cup Held(pc, arr) = Result(tokens, 1) \cup Own(queue) \cup Held(pc, arr)
  <2>1. Owned' = Result(tokens, 1) \cup Own(queue) \cup {}
    BY <1>1, <1>2 DEF Owned, Held, Ended
  <2> QED BY <2>1
<1>5. \E X : Registered(Owned' \cup X, heap')
  BY <1>1, <1>3, <1>4
<1>6. Shaped' /\ Labelled' /\ Pointing'
  <2>1. Len(queue.items) > 0 => Len(tokens.items) >= 1
    BY DEF IInv, Pointing
  <2>2. tok' = tok
    BY <1>1 DEF tok
  <2> QED BY <1>1, <1>2, <2>1, <2>2 DEF IInv, Shaped, Labelled, Pointing
<1> QED BY <1>1, <1>5, <1>6 DEF IInv

-----------------------------------------------------------------------------
(* String literals.                                                        *)

Array == <<"array", 0>>

\* The array of an open literal belongs to the register.
LEMMA LiteralOpen ==
    ASSUME IInv, pc = "str_body"
    PROVE  /\ Registered(Result(tokens, 1) \cup Own(queue) \cup {<<Array, arr.buf>>}, heap)
           /\ IsArray(arr) /\ pc \in Open
<1>1. Owned = Result(tokens, 1) \cup Own(queue) \cup {<<Array, arr.buf>>}
  BY DEF Owned, Held, Ended, Array
<1> QED BY <1>1 DEF IInv, Shaped, Stopped, Open

\* No other owner has the name of the array.
LEMMA ArrayApart ==
    ASSUME NEW a, NEW q, NEW b
    PROVE  /\ Without(Result(a, 1) \cup Own(q) \cup {<<Array, b>>}, Array) = Result(a, 1) \cup Own(q)
           /\ IsNew(Result(a, 1) \cup Own(q), Array)
<1>1. IsNew(Result(a, 1) \cup Own(q), Array)
  BY DEF IsNew, Array, Result, Own, Literals, Messages
<1> QED BY <1>1 DEF Without, IsNew

\* A character more in an open literal.
LEMMA Extended ==
    ASSUME NEW a, NEW q, NEW b, IsArray(b), NEW h, NEW x,
           Registered(Result(a, 1) \cup Own(q) \cup {<<Array, b.buf>>}, h)
    PROVE  /\ IsArray(array_push_back(b, x, h).arr)
           /\ Registered(Result(a, 1) \cup Own(q) \cup {<<Array, array_push_back(b, x, h).arr.buf>>},
                         array_push_back(b, x, h).heap)
<1> DEFINE R == Result(a, 1) \cup Own(q) \cup {<<Array, b.buf>>}
           p == array_push_back(b, x, h)
<1>1. Owns(R, Array, b.buf)
  BY DEF Owns
<1>2. IsArray(p.arr) /\ Registered(Moved(R, Array, p.arr.buf), p.heap)
  BY <1>1, PushedBack
<1>3. Moved(R, Array, p.arr.buf) = Result(a, 1) \cup Own(q) \cup {<<Array, p.arr.buf>>}
  BY ArrayApart DEF Moved
<1> QED BY <1>2, <1>3

\* A step inside a string literal: the array b, the queue and the heap behind it.
LEMMA ContinuesLiteral ==
    ASSUME IInv, pc = "str_body", pc' = "str_body", tokens' = tokens, width' = width, i' = i,
           IsArray(arr'), IsArray(queue'), \A k \in 1..Len(queue'.items) : queue'.items[k].tok = tok,
           Registered(Result(tokens, 1) \cup Own(queue') \cup {<<Array, arr'.buf>>}, heap')
    PROVE  IInv'
<1>1. Owned' = Result(tokens, 1) \cup Own(queue') \cup {<<Array, arr'.buf>>}
  BY DEF Owned, Held, Ended, Array
<1>2. tok' = tok
  BY DEF tok
<1>3. Shaped' /\ Labelled'
  BY DEF IInv, Shaped, Labelled
<1>4. Pointing'
  BY <1>2 DEF IInv, Pointing, Labelled, Open, Ended
<1> QED BY <1>1, <1>3, <1>4 DEF IInv, Stopped

\* The end of a string literal: its array b becomes the token's.
LEMMA EndsLiteral ==
    ASSUME IInv, pc = "str_body", NEW b, NEW chars, NEW end,
           SetToken("TK_STRLIT", 0, b, chars, end), NEW h,
           Registered(Result(tokens, 1) \cup Own(queue) \cup {<<Array, b>>}, h)
    PROVE  /\ Registered(Result(tokens', 1) \cup Own(queue), h)
           /\ IsArray(tokens') /\ Len(tokens'.items) >= 1
           /\ \A k \in 1..Len(tokens'.items) : IsRecord(tokens'.items[k])
           /\ tok' = tok /\ pc' = "report" /\ i' \in Nat
<1> DEFINE R == Result(tokens, 1) \cup Own(queue) \cup {<<Array, b>>}
           o == <<"literal", Len(tokens.items)>>
<1>1. /\ pc \in Open /\ pc' = "report" /\ i' \in Nat
      /\ \E t : /\ IsRecord(t) /\ t.token_type = "TK_STRLIT" /\ t.str_val = b
                /\ Replacing(t)
  BY TokenSet DEF Open
<1>2. PICK t : IsRecord(t) /\ t.token_type = "TK_STRLIT" /\ t.str_val = b /\ Replacing(t)
  BY <1>1
<1>3. /\ IsArray(tokens') /\ Len(tokens'.items) >= 1
      /\ \A k \in 1..Len(tokens'.items) : IsRecord(tokens'.items[k])
      /\ tok' = tok
      /\ t.token_type = "TK_STRLIT" => Result(tokens', 1) = Result(tokens, 1) \cup {<<o, t.str_val>>}
      /\ IsNew(Literals(tokens.items, 1), o)
  BY <1>1, <1>2, TokenReplaced
<1>4. Result(tokens', 1) = Result(tokens, 1) \cup {<<o, b>>}
  BY <1>2, <1>3
<1>5. IsNew(R, o)
  BY <1>3 DEF IsNew, Result, Own, Messages, Array
<1>6. Owns(R, Array, b)
  BY DEF Owns
<1>7. Registered(Without(R, Array) \cup {<<o, b>>}, h)
  BY <1>5, <1>6, Passed
<1>8. Without(R, Array) \cup {<<o, b>>} = Result(tokens', 1) \cup Own(queue)
  <2>1. Without(R, Array) = Result(tokens, 1) \cup Own(queue)
    BY ArrayApart
  <2> HIDE DEF R, o
  <2> QED BY <1>4, <2>1
<1> QED BY <1>1, <1>3, <1>7, <1>8

\* The state in which the alerts are reported.
LEMMA Settles ==
    ASSUME pc' = "report", i' \in Nat, IsArray(tokens'), Len(tokens'.items) >= 1,
           \A k \in 1..Len(tokens'.items) : IsRecord(tokens'.items[k]),
           IsArray(queue'), \A k \in 1..Len(queue'.items) : queue'.items[k].tok = tok',
           Registered(Result(tokens', 1) \cup Own(queue'), heap')
    PROVE  IInv'
<1>1. Owned' = Result(tokens', 1) \cup Own(queue')
  BY DEF Owned, Held, Ended
<1>2. Shaped' /\ Labelled' /\ Pointing'
  BY DEF Shaped, Labelled, Pointing, Open, Ended
<1> QED BY <1>1, <1>2 DEF IInv, Stopped

\* The start of a string literal.
LEMMA StringOpens ==
    ASSUME IInv, lex_string_literal, pc' = "str_body"
    PROVE  IInv'
<1>1. /\ pc = "string" /\ tokens' = tokens /\ i' = i /\ queue' = queue
      /\ heap' = malloc(heap) /\ arr' = array_init(Len(heap) + 1) /\ width' = prefix.width
  BY DEF lex_string_literal, Goto, Enter
<1>2. Registered(Result(tokens, 1) \cup Own(queue), heap)
  <2>1. Owned = Result(tokens, 1) \cup Own(queue)
    BY <1>1 DEF Owned, Held, Ended
  <2> QED BY <1>1, <2>1 DEF IInv, Stopped
<1>3. IsArray(arr') /\ arr'.buf = Len(heap) + 1
  BY <1>1 DEF array_init, IsArray, IsList
<1>4. Registered(Result(tokens, 1) \cup Own(queue) \cup {<<Array, arr'.buf>>}, heap')
  <2>1. IsNew(Result(tokens, 1) \cup Own(queue), Array)
    BY ArrayApart
  <2>2. Registered(Result(tokens, 1) \cup Own(queue) \cup {<<Array, Len(heap) + 1>>}, malloc(heap))
    BY <1>2, <2>1, Allocated
  <2> QED BY <1>1, <1>3, <2>2
<1>5. width' \in {CW_UTF8, CW_UTF16, CW_UTF32}
  BY <1>1 DEF prefix
<1>6. Owned' = Result(tokens, 1) \cup Own(queue) \cup {<<Array, arr'.buf>>}
  BY <1>1 DEF Owned, Held, Ended, Array
<1>7. tok' = tok
  BY <1>1 DEF tok
<1>8. Shaped' /\ Labelled' /\ Pointing'
  BY <1>1, <1>3, <1>5, <1>7 DEF IInv, Shaped, Labelled, Pointing, Open, Ended
<1> QED BY <1>1, <1>4, <1>6, <1>8 DEF IInv, Stopped

\* The bodies of string literals.
LEMMA StringLiteralStep ==
    ASSUME IInv, StringLiteral
    PROVE  IInv'
<1>0. pc = "str_body"
  BY DEF StringLiteral, StringClose, StringEscape, StringPlain, StringUnterminated
<1>1. /\ Registered(Result(tokens, 1) \cup Own(queue) \cup {<<Array, arr.buf>>}, heap)
      /\ IsArray(arr) /\ pc \in Open
  BY <1>0, LiteralOpen
<1>2. IsArray(queue) /\ \A k \in 1..Len(queue.items) : queue.items[k].tok = tok
  BY DEF IInv, Shaped, Pointing
<1>3. CASE StringClose
  <2> PICK p : p = array_push_back(arr, 0, heap)
    OBVIOUS
  <2>1. heap' = p.heap /\ queue' = queue /\ SetToken("TK_STRLIT", 0, p.arr.buf, p.arr.items, s + 1)
    BY <1>3 DEF StringClose
  <2>2. Registered(Result(tokens, 1) \cup Own(queue) \cup {<<Array, p.arr.buf>>}, p.heap)
    BY <1>1, Extended
  <2>3. /\ Registered(Result(tokens', 1) \cup Own(queue), p.heap)
        /\ IsArray(tokens') /\ Len(tokens'.items) >= 1
        /\ \A k \in 1..Len(tokens'.items) : IsRecord(tokens'.items[k])
        /\ tok' = tok /\ pc' = "report" /\ i' \in Nat
    BY <1>0, <2>1, <2>2, EndsLiteral
  <2> QED BY <1>2, <2>1, <2>3, Settles
<1>4. CASE StringEscape
  <2>1. PICK e : e = escape
    OBVIOUS
  <2>2. PICK q, h : q = alerted(e).queue /\ h = alerted(e).heap
    OBVIOUS
  <2>3. PICK p : p = array_push_back(arr, unit(e.val), h)
    OBVIOUS
  <2>4. /\ heap' = p.heap /\ arr' = p.arr /\ queue' = q /\ pc' = pc /\ tokens' = tokens
        /\ width' = width /\ i' = i
    BY <1>4, <2>1, <2>2, <2>3 DEF StringEscape, Advance
  <2>5. AlertsTo(q, h)
    BY <2>2, EscapeAlerts
  <2>6. /\ IsArray(q) /\ \A k \in 1..Len(q.items) : q.items[k].tok = tok
        /\ Registered(Result(tokens, 1) \cup Own(q) \cup {<<Array, arr.buf>>}, h)
    <3>1. PICK A : A = {<<Array, arr.buf>>}
      OBVIOUS
    <3>2. \A r \in A : r[1] = <<"array", 0>>
      BY <3>1 DEF Array
    <3>3. Registered(Result(tokens, 1) \cup Own(queue) \cup A, heap)
      BY <1>1, <3>1
    <3>4. /\ IsArray(q) /\ \A k \in 1..Len(q.items) : q.items[k].tok = tok
          /\ Registered(Result(tokens, 1) \cup Own(q) \cup A, h)
      BY <2>5, <3>2, <3>3, Queued
    <3> QED BY <3>1, <3>4
  <2>7. IsArray(p.arr) /\ Registered(Result(tokens, 1) \cup Own(q) \cup {<<Array, p.arr.buf>>}, p.heap)
    BY <1>1, <2>3, <2>6, Extended
  <2> QED BY <1>0, <2>4, <2>6, <2>7, ContinuesLiteral
<1>5. CASE StringPlain
  <2> PICK c, b : c = decode_utf8(text, s).code /\ b = text[s]
    OBVIOUS
  <2>1. /\ queue' = queue /\ pc' = pc /\ tokens' = tokens /\ width' = width /\ i' = i
        /\ \E p : /\ heap' = p.heap /\ arr' = p.arr
                  /\ \/ p = array_push_back(arr, b, heap)
                     \/ p = encode_utf16(c, arr, heap)
                     \/ p = encode_utf32(c, arr, heap)
    <3>1. width \in {CW_UTF8, CW_UTF16, CW_UTF32}
      BY <1>0 DEF IInv, Shaped
    <3> QED BY <1>5, <3>1 DEF StringPlain, Advance, CW_UTF8, CW_UTF16, CW_UTF32
  <2>2. PICK p : /\ heap' = p.heap /\ arr' = p.arr
                 /\ \/ p = array_push_back(arr, b, heap)
                    \/ p = encode_utf16(c, arr, heap)
                    \/ p = encode_utf32(c, arr, heap)
    BY <2>1
  <2>3. IsArray(p.arr) /\ Registered(Result(tokens, 1) \cup Own(queue) \cup {<<Array, p.arr.buf>>}, p.heap)
    <3>1. ASSUME NEW x, p = array_push_back(arr, x, heap)
          PROVE  /\ IsArray(p.arr)
                 /\ Registered(Result(tokens, 1) \cup Own(queue) \cup {<<Array, p.arr.buf>>}, p.heap)
      BY <1>1, <3>1, Extended
    <3>2. ASSUME NEW x, NEW y, NEW o, o = array_push_back(arr, x, heap),
                 p = array_push_back(o.arr, y, o.heap)
          PROVE  /\ IsArray(p.arr)
                 /\ Registered(Result(tokens, 1) \cup Own(queue) \cup {<<Array, p.arr.buf>>}, p.heap)
      <4>1. /\ IsArray(o.arr)
            /\ Registered(Result(tokens, 1) \cup Own(queue) \cup {<<Array, o.arr.buf>>}, o.heap)
        BY <1>1, <3>2, Extended
      <4> QED BY <3>2, <4>1, Extended
    <3>3. \/ \E x : p = array_push_back(arr, x, heap)
          \/ \E x, y, o : o = array_push_back(arr, x, heap) /\ p = array_push_back(o.arr, y, o.heap)
      BY <2>2 DEF encode_utf16, encode_utf32
    <3> QED BY <3>1, <3>2, <3>3
  <2> QED BY <1>0, <1>2, <2>1, <2>2, <2>3, ContinuesLiteral
<1>6. CASE StringUnterminated
  <2>1. Alerting /\ SetToken("TK_STRLIT", 0, arr.buf, arr.items, s)
    BY <1>6, QuietOrPush DEF StringUnterminated
  <2>2. /\ Registered(Result(tokens', 1) \cup Own(queue), heap)
        /\ IsArray(tokens') /\ Len(tokens'.items) >= 1
        /\ \A k \in 1..Len(tokens'.items) : IsRecord(tokens'.items[k])
        /\ tok' = tok /\ pc' = "report" /\ i' \in Nat
    BY <1>0, <1>1, <2>1, EndsLiteral
  <2>3. /\ IsArray(queue') /\ \A k \in 1..Len(queue'.items) : queue'.items[k].tok = tok
        /\ Registered(Result(tokens', 1) \cup Own(queue'), heap')
    <3> PICK A, a : A = {} /\ a = tokens'
      OBVIOUS
    <3>1. Registered(Result(a, 1) \cup Own(queue) \cup A, heap)
      BY <2>2
    <3>2. \A r \in A : r[1] = <<"array", 0>>
      OBVIOUS
    <3>3. /\ IsArray(queue') /\ \A k \in 1..Len(queue'.items) : queue'.items[k].tok = tok
          /\ Registered(Result(a, 1) \cup Own(queue') \cup A, heap')
      BY <2>1, <3>1, <3>2, Queued DEF Alerting
    <3> QED BY <3>3
  <2> QED BY <2>2, <2>3, Settles
<1> QED BY <1>3, <1>4, <1>5, <1>6 DEF StringLiteral

-----------------------------------------------------------------------------
(* Tokens, alerts and the end.                                             *)

\* In a state between the literals the register is the result and the lexer's own.
LEMMA Lexing ==
    ASSUME IInv, pc \in {"loop", "report"}
    PROVE  Registered(Result(tokens, 1) \cup Own(queue), heap)
<1>1. Owned = Result(tokens, 1) \cup Own(queue)
  BY DEF Owned, Held, Ended
<1> QED BY <1>1 DEF IInv, Stopped

\* A token more that is no string literal.
LEMMA TokenAdded ==
    ASSUME NEW q, NEW b, IsArray(b), NEW h, NEW t, t.token_type # "TK_STRLIT", IsRecord(t),
           \A k \in 1..Len(b.items) : IsRecord(b.items[k]),
           Registered(Result(b, 1) \cup Own(q), h), NEW p, p = array_push_back(b, t, h)
    PROVE  /\ IsArray(p.arr) /\ Registered(Result(p.arr, 1) \cup Own(q), p.heap)
           /\ Len(p.arr.items) >= 1 /\ \A k \in 1..Len(p.arr.items) : IsRecord(p.arr.items[k])
<1> DEFINE R == Result(b, 1) \cup Own(q)
           o == <<"tokens", 0>>
<1>2. Owns(R, o, b.buf)
  BY DEF Owns, Result
<1>3. /\ IsArray(p.arr) /\ p.arr.items = Append(b.items, t)
      /\ Registered(Moved(R, o, p.arr.buf), p.heap)
  <2>1. /\ IsArray(array_push_back(b, t, h).arr)
        /\ array_push_back(b, t, h).arr.items = Append(b.items, t)
        /\ Registered(Moved(R, o, array_push_back(b, t, h).arr.buf), array_push_back(b, t, h).heap)
    BY <1>2, PushedBack
  <2> QED BY <2>1
<1>4. IsList(b.items) /\ Len(b.items) \in Nat
  BY DEF IsArray, IsList
<1>5. /\ Len(p.arr.items) = Len(b.items) + 1
      /\ p.arr.items[Len(b.items) + 1] = t
      /\ \A k \in 1..Len(b.items) : p.arr.items[k] = b.items[k]
  BY <1>3, <1>4, AppendFacts
<1>6. Literals(p.arr.items, 1) = Literals(b.items, 1)
  BY <1>3, <1>4, LiteralsAppend
<1>7. Moved(R, o, p.arr.buf) = Result(p.arr, 1) \cup Own(q)
  <2>1. Without(R, o) = Literals(b.items, 1) \cup Own(q)
    BY DEF Without, Result, Literals, Own, Messages
  <2> QED BY <1>6, <2>1 DEF Moved, Result
<1>8. \A k \in 1..Len(p.arr.items) : IsRecord(p.arr.items[k])
  <2> SUFFICES ASSUME NEW k \in 1..Len(p.arr.items) PROVE IsRecord(p.arr.items[k])
    OBVIOUS
  <2>1. CASE k = Len(b.items) + 1
    BY <1>5, <2>1
  <2>2. CASE k \in 1..Len(b.items)
    BY <1>5, <2>2
  <2> QED BY <1>4, <1>5, <2>1, <2>2
<1>9. Len(p.arr.items) >= 1
  BY <1>4, <1>5
<1>10. Registered(Result(p.arr, 1) \cup Own(q), p.heap)
  BY <1>3, <1>7
<1> QED BY <1>3, <1>8, <1>9, <1>10

\* The token that lexer_add_token adds, and TK_EOF.
LEMMA NewTokenFacts ==
    /\ NewToken.token_type = "TK_UNKNOWN" /\ IsRecord(NewToken)
    /\ [NewToken EXCEPT !.token_type = "TK_EOF"].token_type = "TK_EOF"
    /\ IsRecord([NewToken EXCEPT !.token_type = "TK_EOF"])
BY DEF NewToken, IsRecord, TokenFields

\* A token begins: no alert points to the buffer that the tokens may leave.
LEMMA AddStep ==
    ASSUME IInv, lexer_add_token
    PROVE  IInv'
<1>1. PICK t : t = NewToken
  OBVIOUS
<1>2. /\ pc = "loop" /\ pc' = "numeric" /\ i' = i /\ queue' = queue
      /\ tokens' = array_push_back(tokens, t, heap).arr
      /\ heap' = array_push_back(tokens, t, heap).heap
  BY <1>1 DEF lexer_add_token
<1>3. /\ IsArray(tokens) /\ \A k \in 1..Len(tokens.items) : IsRecord(tokens.items[k])
      /\ IsArray(queue) /\ i \in Nat /\ queue.items = <<>>
  BY <1>2 DEF IInv, Shaped, Pointing
<1>4. t.token_type = "TK_UNKNOWN" /\ IsRecord(t)
  BY <1>1, NewTokenFacts
<1>5. /\ IsArray(tokens') /\ Registered(Result(tokens', 1) \cup Own(queue), heap')
      /\ Len(tokens'.items) >= 1 /\ \A k \in 1..Len(tokens'.items) : IsRecord(tokens'.items[k])
      /\ tokens'.items[Len(tokens'.items)].token_type = t.token_type
  <2>1. Registered(Result(tokens, 1) \cup Own(queue), heap)
    BY <1>2, Lexing
  <2>2. PICK b, q, h, p : b = tokens /\ q = queue /\ h = heap /\ p = array_push_back(b, t, h)
    OBVIOUS
  <2>3. t.token_type # "TK_STRLIT" /\ IsRecord(t)
    BY <1>4
  <2>4. IsArray(b) /\ \A k \in 1..Len(b.items) : IsRecord(b.items[k])
    BY <1>3, <2>2
  <2>5. Registered(Result(b, 1) \cup Own(q), h) /\ p = array_push_back(b, t, h)
    BY <2>1, <2>2
  <2>6. IsArray(p.arr) /\ Registered(Result(p.arr, 1) \cup Own(q), p.heap)
    BY <2>3, <2>4, <2>5, TokenAdded
  <2>7. Len(p.arr.items) >= 1
    BY <2>3, <2>4, <2>5, TokenAdded
  <2>8. \A k \in 1..Len(p.arr.items) : IsRecord(p.arr.items[k])
    BY <2>3, <2>4, <2>5, TokenAdded
  <2>9. p.arr.items = Append(b.items, t)
    <3>1. IsArray(b) /\ p = array_push_back(b, t, h)
      BY <2>4, <2>5
    <3> QED BY <3>1 DEF array_push_back, IsArray
  <2>10. p.arr.items[Len(p.arr.items)] = t
    <3>1. IsList(b.items)
      BY <2>4 DEF IsArray
    <3> QED BY <2>9, <3>1, AppendFacts
  <2> QED BY <1>2, <2>2, <2>6, <2>7, <2>8, <2>10
<1>6. Owned' = Result(tokens', 1) \cup Own(queue)
  BY <1>2 DEF Owned, Held
<1>7. Shaped' /\ Labelled' /\ Pointing'
  BY <1>2, <1>3, <1>4, <1>5 DEF Shaped, Labelled, Pointing, Open, Ended
<1> QED BY <1>2, <1>5, <1>6, <1>7 DEF IInv, Stopped

\* alert_queue_free_alerts: each message is freed, and freed once.
LEMMA AlertsFreed ==
    ASSUME NEW R, NEW h, Registered(R, h), IsArray(queue), Messages(queue.items) \subseteq R
    PROVE  Registered(R \ Messages(queue.items), free_alerts(h))
<1> DEFINE M == Messages(queue.items)
           K(b) == {k \in DOMAIN queue.items : queue.items[k].alert_msg = b}
           g == free_alerts(h)
<1>1. /\ h \in Seq(Nat) /\ Len(h) \in Nat /\ DOMAIN h = 1..Len(h)
      /\ DOMAIN queue.items = 1..Len(queue.items)
  BY DEF Registered, IsArray, IsList
<1>2. /\ DOMAIN g = 1..Len(h)
      /\ \A b \in 1..Len(h) : g[b] = h[b] + Cardinality(K(b))
  BY <1>1 DEF free_alerts
<1>3. \A r \in M : r \in R /\ \E k \in DOMAIN queue.items : r = <<<<"message", k>>, queue.items[k].alert_msg>>
  BY <1>1 DEF Messages
<1>4. \A k \in DOMAIN queue.items : <<<<"message", k>>, queue.items[k].alert_msg>> \in M
  BY <1>1 DEF Messages
<1>5. ASSUME NEW b \in 1..Len(h), NEW r \in M, r[2] = b PROVE h[b] = 0 /\ g[b] = 1
  <2>1. r \in R /\ h[b] = 0
    BY <1>3, <1>5 DEF Registered
  <2>2. PICK k \in DOMAIN queue.items : r = <<<<"message", k>>, queue.items[k].alert_msg>>
    BY <1>3
  <2>3. k \in K(b)
    BY <1>5, <2>2
  <2>4. ASSUME NEW j \in K(b) PROVE j = k
    <3>1. PICK m : m = <<<<"message", j>>, queue.items[j].alert_msg>>
      OBVIOUS
    <3>2. m \in R /\ m[2] = b /\ m[1] = <<"message", j>>
      BY <1>3, <1>4, <2>4, <3>1
    <3>3. m[1] = r[1]
      BY <1>5, <2>1, <3>2 DEF Registered
    <3>4. <<"message", j>> = <<"message", k>>
      BY <2>2, <3>2, <3>3
    <3> QED BY <3>4
  <2>5. K(b) = {k}
    BY <2>3, <2>4
  <2>6. Cardinality(K(b)) = 1
    BY <2>5, FS_Singleton
  <2> QED BY <1>2, <2>1, <2>6
<1>6. ASSUME NEW b \in 1..Len(h), \A r \in M : r[2] # b PROVE g[b] = h[b]
  <2>1. K(b) = {}
    <3> SUFFICES ASSUME NEW k \in DOMAIN queue.items, queue.items[k].alert_msg = b PROVE FALSE
      OBVIOUS
    <3>1. <<<<"message", k>>, queue.items[k].alert_msg>>[2] # b
      BY <1>4, <1>6
    <3> QED BY <3>1
  <2>2. Cardinality(K(b)) = 0
    BY <2>1, FS_EmptySet
  <2>3. h[b] \in Nat
    BY <1>1
  <2> QED BY <1>2, <2>2, <2>3
<1>7. ASSUME NEW r \in R \ M PROVE \A q \in M : q[2] # r[2]
  <2> SUFFICES ASSUME NEW q \in M, q[2] = r[2] PROVE FALSE
    OBVIOUS
  <2>1. q \in R
    BY <1>3
  <2> QED BY <1>7, <2>1 DEF Registered
<1> HIDE DEF g, K, M
<1>8. \A b \in 1..Len(h) : g[b] = 1 \/ (g[b] = 0 /\ \E r \in R \ M : r[2] = b)
  <2> SUFFICES ASSUME NEW b \in 1..Len(h)
               PROVE  g[b] = 1 \/ (g[b] = 0 /\ \E r \in R \ M : r[2] = b)
    OBVIOUS
  <2>1. CASE \E r \in M : r[2] = b
    BY <1>5, <2>1
  <2>2. CASE \A r \in M : r[2] # b
    <3>1. g[b] = h[b]
      BY <1>6, <2>2
    <3>2. h[b] = 1 \/ (h[b] = 0 /\ \E r \in R : r[2] = b)
      BY DEF Registered
    <3> QED BY <2>2, <3>1, <3>2
  <2> QED BY <2>1, <2>2
<1>9. \A r \in R \ M : r = <<r[1], r[2]>> /\ r[2] \in 1..Len(h) /\ g[r[2]] = 0
  <2> SUFFICES ASSUME NEW r \in R \ M
               PROVE  r = <<r[1], r[2]>> /\ r[2] \in 1..Len(h) /\ g[r[2]] = 0
    OBVIOUS
  <2>1. r = <<r[1], r[2]>> /\ r[2] \in 1..Len(h) /\ h[r[2]] = 0
    BY DEF Registered
  <2>2. g[r[2]] = h[r[2]]
    BY <1>6, <1>7, <2>1
  <2> QED BY <2>1, <2>2
<1>10. \A r, q \in R \ M : r[1] = q[1] <=> r[2] = q[2]
  BY DEF Registered
<1>11. g \in Seq(Nat) /\ Len(g) = Len(h)
  <2>1. \A b \in 1..Len(h) : g[b] \in Nat
    BY <1>8
  <2>2. g = [b \in 1..Len(h) |-> g[b]]
    BY <1>1, <1>2 DEF g, free_alerts
  <2> QED BY <1>1, <2>1, <2>2
<1> QED BY <1>8, <1>9, <1>10, <1>11 DEF Registered, g, M

\* The alerts of a token are reported and dropped.
LEMMA ReportedStep ==
    ASSUME IInv, Reported
    PROVE  IInv'
<1>1. /\ pc = "report" /\ pc' = "loop" /\ i' = i /\ tokens' = tokens
      /\ heap' = free_alerts(heap) /\ queue' = array_clear(queue)
  BY DEF Reported, alert_queue_clear
<1>2. /\ IsArray(tokens) /\ \A k \in 1..Len(tokens.items) : IsRecord(tokens.items[k])
      /\ IsArray(queue) /\ i \in Nat
  BY DEF IInv, Shaped
<1>3. queue' = [buf |-> queue.buf, items |-> <<>>, capacity |-> queue.capacity]
  BY <1>1, <1>2 DEF array_clear, IsArray
<1>4. IsArray(queue') /\ queue'.items = <<>> /\ queue'.buf = queue.buf
  BY <1>3 DEF IsArray, IsList
<1>5. Registered((Result(tokens, 1) \cup Own(queue)) \ Messages(queue.items), heap')
  <2>1. Registered(Result(tokens, 1) \cup Own(queue), heap)
    BY <1>1, Lexing
  <2>2. Messages(queue.items) \subseteq Result(tokens, 1) \cup Own(queue)
    BY DEF Own
  <2> QED BY <1>1, <1>2, <2>1, <2>2, AlertsFreed
<1>6. (Result(tokens, 1) \cup Own(queue)) \ Messages(queue.items) = Result(tokens, 1) \cup Own(queue')
  <2>1. Result(tokens, 1) \cap Messages(queue.items) = {}
    BY DEF Result, Literals, Messages
  <2>2. Own(queue) \ Messages(queue.items) = Own(queue')
    BY <1>4 DEF Own, Messages
  <2> QED BY <2>1, <2>2
<1>7. Owned' = Result(tokens, 1) \cup Own(queue')
  BY <1>1 DEF Owned, Held
<1>8. Shaped' /\ Labelled' /\ Pointing'
  BY <1>1, <1>2, <1>4 DEF Shaped, Labelled, Pointing, Open, Ended
<1> QED BY <1>1, <1>5, <1>6, <1>7, <1>8 DEF IInv, Stopped

\* alert_queue_destroy and lexer_destroy: what the lexer has is freed.
LEMMA OwnFreed ==
    ASSUME NEW a, NEW h, IsArray(queue), Registered(Result(a, 1) \cup Own(queue), h)
    PROVE  Registered(Result(a, 1), free(alert_queue_destroyed(h, QUEUE, QUEUE_ARRAY), LEXER))
<1> DEFINE L == <<<<"lexer", 0>>, LEXER>>
           Q == <<<<"queue", 0>>, QUEUE>>
           A == <<<<"queue_array", 0>>, QUEUE_ARRAY>>
           B == <<<<"alerts", 0>>, queue.buf>>
           h1 == free_alerts(h)
           h2 == free(h1, queue.buf)
           h3 == free(h2, QUEUE_ARRAY)
           h4 == free(h3, QUEUE)
           Z == Result(a, 1)
<1>1. Registered(Z \cup {L, Q, A, B}, h1)
  <2>1. Registered((Z \cup Own(queue)) \ Messages(queue.items), h1)
    BY AlertsFreed DEF Own
  <2>2. (Z \cup Own(queue)) \ Messages(queue.items) = Z \cup {L, Q, A, B}
    <3>1. Z \cap Messages(queue.items) = {}
      BY DEF Result, Literals, Messages
    <3>2. Own(queue) \ Messages(queue.items) = {L, Q, A, B}
      BY DEF Own, Messages
    <3> QED BY <3>1, <3>2
  <2> QED BY <2>1, <2>2
<1>2. \A r \in Z : r[1] \notin {L[1], Q[1], A[1], B[1]}
  BY DEF Result, Literals
<1>3. /\ L[1] = <<"lexer", 0>> /\ Q[1] = <<"queue", 0>>
      /\ A[1] = <<"queue_array", 0>> /\ B[1] = <<"alerts", 0>>
  OBVIOUS
<1> HIDE DEF Z, h1
<1>4. Registered(Z \cup {L, Q, A}, h2)
  <2>1. Registered(Without(Z \cup {L, Q, A, B}, <<"alerts", 0>>), h2)
    BY <1>1, Freed DEF Owns
  <2>2. Without(Z \cup {L, Q, A, B}, <<"alerts", 0>>) = Z \cup {L, Q, A}
    BY <1>2, <1>3 DEF Without
  <2> QED BY <2>1, <2>2
<1> HIDE DEF h2
<1>5. Registered(Z \cup {L, Q}, h3)
  <2>1. Registered(Without(Z \cup {L, Q, A}, <<"queue_array", 0>>), h3)
    BY <1>4, Freed DEF Owns
  <2>2. Without(Z \cup {L, Q, A}, <<"queue_array", 0>>) = Z \cup {L, Q}
    BY <1>2, <1>3 DEF Without
  <2> QED BY <2>1, <2>2
<1> HIDE DEF h3
<1>6. Registered(Z \cup {L}, h4)
  <2>1. Registered(Without(Z \cup {L, Q}, <<"queue", 0>>), h4)
    BY <1>5, Freed DEF Owns
  <2>2. Without(Z \cup {L, Q}, <<"queue", 0>>) = Z \cup {L}
    BY <1>2, <1>3 DEF Without
  <2> QED BY <2>1, <2>2
<1> HIDE DEF h4
<1>7. Registered(Z, free(h4, LEXER))
  <2>1. Registered(Without(Z \cup {L}, <<"lexer", 0>>), free(h4, LEXER))
    BY <1>6, Freed DEF Owns
  <2>2. Without(Z \cup {L}, <<"lexer", 0>>) = Z
    BY <1>2, <1>3 DEF Without
  <2> QED BY <2>1, <2>2
<1> QED BY <1>7 DEF Z, h1, h2, h3, h4, alert_queue_destroyed, array_destroy

\* The last token, and the lexer is gone.
LEMMA EndStep ==
    ASSUME IInv, EndOfText
    PROVE  IInv'
<1>1. PICK t : t = [NewToken EXCEPT !.token_type = "TK_EOF"]
  OBVIOUS
<1>2. /\ pc = "loop" /\ pc' = "returned" /\ i' = i /\ queue' = queue
      /\ tokens' = array_push_back(tokens, t, heap).arr
      /\ heap' = free(alert_queue_destroyed(array_push_back(tokens, t, heap).heap, QUEUE, QUEUE_ARRAY),
                      LEXER)
  BY <1>1 DEF EndOfText
<1>3. /\ IsArray(tokens) /\ \A k \in 1..Len(tokens.items) : IsRecord(tokens.items[k])
      /\ IsArray(queue) /\ i \in Nat /\ queue.items = <<>>
  BY <1>2 DEF IInv, Shaped, Pointing, Ended
<1>4. t.token_type # "TK_STRLIT" /\ IsRecord(t)
  <2>1. t.token_type = "TK_EOF" /\ IsRecord(t)
    BY <1>1, NewTokenFacts
  <2> QED BY <2>1
<1>5. PICK b, q, h, p : b = tokens /\ q = queue /\ h = heap /\ p = array_push_back(b, t, h)
  OBVIOUS
<1>6. Registered(Result(b, 1) \cup Own(q), h) /\ p = array_push_back(b, t, h)
  <2>1. Registered(Result(tokens, 1) \cup Own(queue), heap)
    BY <1>2, Lexing
  <2> QED BY <1>5, <2>1
<1>7. IsArray(b) /\ \A k \in 1..Len(b.items) : IsRecord(b.items[k])
  BY <1>3, <1>5
<1>8. IsArray(p.arr) /\ Registered(Result(p.arr, 1) \cup Own(q), p.heap)
  BY <1>4, <1>6, <1>7, TokenAdded
<1>9. \A k \in 1..Len(p.arr.items) : IsRecord(p.arr.items[k])
  BY <1>4, <1>6, <1>7, TokenAdded
<1>10. tokens' = p.arr /\ Registered(Result(p.arr, 1), heap')
  <2>1. PICK a, g : a = p.arr /\ g = p.heap
    OBVIOUS
  <2>2. Registered(Result(a, 1) \cup Own(queue), g)
    BY <1>5, <1>8, <2>1
  <2>3. Registered(Result(a, 1), free(alert_queue_destroyed(g, QUEUE, QUEUE_ARRAY), LEXER))
    BY <1>3, <2>2, OwnFreed
  <2> QED BY <1>2, <1>5, <2>1, <2>3
<1>11. Registered(Owned', heap') /\ pc' \notin Stopped
  BY <1>2, <1>10 DEF Owned, Stopped
<1>12. Shaped' /\ Labelled' /\ Pointing'
  BY <1>2, <1>3, <1>8, <1>9, <1>10 DEF Shaped, Labelled, Pointing, Open, Ended
<1> QED BY <1>11, <1>12 DEF IInv

-----------------------------------------------------------------------------
(* destroy_tokens.                                                         *)

\* The literals from one index on, and from the next.
LEMMA LiteralsNext ==
    ASSUME NEW a, IsArray(a), NEW j \in Nat
    PROVE  /\ j > Len(a.items) => Literals(a.items, j) = {}
           /\ j <= Len(a.items) /\ a.items[j].token_type # "TK_STRLIT" =>
                  Literals(a.items, j) = Literals(a.items, j + 1)
           /\ j <= Len(a.items) /\ a.items[j].token_type = "TK_STRLIT" =>
                  /\ <<<<"literal", j>>, a.items[j].str_val>> \in Literals(a.items, j)
                  /\ Without(Literals(a.items, j), <<"literal", j>>) = Literals(a.items, j + 1)
<1> DEFINE q == a.items
           n == Len(q)
<1>1. n \in Nat
  BY DEF IsArray, IsList
<1>2. ASSUME j > n PROVE Literals(q, j) = {}
  BY <1>1, <1>2 DEF Literals
<1>3. ASSUME j <= n PROVE j..n = {j} \cup (j + 1)..n /\ j \notin (j + 1)..n
  BY <1>1, <1>3
<1>4. ASSUME j <= n, q[j].token_type # "TK_STRLIT" PROVE Literals(q, j) = Literals(q, j + 1)
  <2>1. {k \in j..n : q[k].token_type = "TK_STRLIT"} = {k \in (j + 1)..n : q[k].token_type = "TK_STRLIT"}
    BY <1>3, <1>4
  <2> QED BY <2>1 DEF Literals
<1>5. ASSUME j <= n, q[j].token_type = "TK_STRLIT"
      PROVE  /\ <<<<"literal", j>>, q[j].str_val>> \in Literals(q, j)
             /\ Without(Literals(q, j), <<"literal", j>>) = Literals(q, j + 1)
  <2>1. {k \in j..n : q[k].token_type = "TK_STRLIT"}
          = {j} \cup {k \in (j + 1)..n : q[k].token_type = "TK_STRLIT"}
    BY <1>3, <1>5
  <2>2. Literals(q, j) = {<<<<"literal", j>>, q[j].str_val>>} \cup Literals(q, j + 1)
    BY <2>1 DEF Literals
  <2>3. \A r \in Literals(q, j + 1) : r[1] # <<"literal", j>>
    BY <1>3, <1>5 DEF Literals
  <2> QED BY <2>2, <2>3 DEF Without
<1> QED BY <1>2, <1>4, <1>5

\* A state of destroy_tokens: the register is what is left of the result.
LEMMA Destroying ==
    ASSUME IInv, pc \in {"returned", "destroy"}
    PROVE  /\ IsArray(tokens) /\ i \in Nat
           /\ pc = "returned" => Registered(Result(tokens, 1), heap)
           /\ pc = "destroy" => Registered(Result(tokens, i), heap)
<1>1. pc = "returned" => Owned = Result(tokens, 1)
  BY DEF Owned
<1>2. pc = "destroy" => Owned = Result(tokens, i)
  BY DEF Owned
<1>3. Registered(Owned, heap)
  BY DEF IInv, Stopped
<1> QED BY <1>1, <1>2, <1>3 DEF IInv, Shaped

\* The caller frees the literals one by one, then the tokens.
LEMMA DestroyStep ==
    ASSUME IInv, destroy_tokens \/ FreeLiteral \/ FreeTokens
    PROVE  IInv'
<1>1. /\ tokens' = tokens /\ queue' = queue /\ pc \in {"returned", "destroy"}
      /\ pc' \in {"destroy", "done"} /\ i' \in Nat
  <2>1. i \in Nat
    BY DEF IInv, Shaped
  <2> QED BY <2>1 DEF destroy_tokens, FreeLiteral, FreeTokens, alertVars, next_token
<1>2. Shaped' /\ Labelled' /\ Pointing'
  BY <1>1 DEF IInv, Shaped, Labelled, Pointing, Open, Ended
<1>3. IsArray(tokens) /\ i \in Nat
  BY <1>1, Destroying
<1>4. Registered(Owned', heap')
  <2>1. CASE destroy_tokens
    <3>1. pc = "returned" /\ pc' = "destroy" /\ i' = 1 /\ heap' = heap
      BY <2>1 DEF destroy_tokens, alertVars
    <3>2. Owned' = Result(tokens, 1)
      BY <1>1, <3>1 DEF Owned
    <3> QED BY <3>1, <3>2, Destroying
  <2>2. CASE FreeLiteral
    <3>1. /\ pc = "destroy" /\ pc' = "destroy" /\ i' = i + 1 /\ i <= Len(tokens.items)
          /\ heap' = IF tokens.items[i].token_type = "TK_STRLIT"
                     THEN free(heap, tokens.items[i].str_val) ELSE heap
      BY <2>2 DEF FreeLiteral, next_token
    <3>2. Owned' = Result(tokens, i + 1)
      BY <1>1, <3>1 DEF Owned
    <3>3. Registered(Result(tokens, i), heap)
      BY <3>1, Destroying
    <3>4. CASE tokens.items[i].token_type # "TK_STRLIT"
      <4>1. Literals(tokens.items, i) = Literals(tokens.items, i + 1)
        BY <1>3, <3>1, <3>4, LiteralsNext
      <4>2. Result(tokens, i) = Result(tokens, i + 1)
        BY <4>1 DEF Result
      <4> QED BY <3>1, <3>2, <3>3, <3>4, <4>2
    <3>5. CASE tokens.items[i].token_type = "TK_STRLIT"
      <4>1. /\ <<<<"literal", i>>, tokens.items[i].str_val>> \in Literals(tokens.items, i)
            /\ Without(Literals(tokens.items, i), <<"literal", i>>) = Literals(tokens.items, i + 1)
        BY <1>3, <3>1, <3>5, LiteralsNext
      <4>2. Owns(Result(tokens, i), <<"literal", i>>, tokens.items[i].str_val)
        BY <4>1 DEF Owns, Result
      <4>3. Without(Result(tokens, i), <<"literal", i>>) = Result(tokens, i + 1)
        BY <4>1 DEF Without, Result
      <4>4. Registered(Without(Result(tokens, i), <<"literal", i>>), free(heap, tokens.items[i].str_val))
        BY <3>3, <4>2, Freed
      <4> QED BY <3>1, <3>2, <3>5, <4>3, <4>4
    <3> QED BY <3>4, <3>5
  <2>3. CASE FreeTokens
    <3>1. pc = "destroy" /\ pc' = "done" /\ i > Len(tokens.items) /\ heap' = free(heap, tokens.buf)
      BY <2>3 DEF FreeTokens, array_destroy
    <3>2. Owned' = {}
      BY <3>1 DEF Owned
    <3>3. Result(tokens, i) = {<<<<"tokens", 0>>, tokens.buf>>}
      <4>1. Literals(tokens.items, i) = {}
        BY <1>3, <3>1, LiteralsNext
      <4> QED BY <4>1 DEF Result
    <3>4. Owns(Result(tokens, i), <<"tokens", 0>>, tokens.buf)
      BY <3>3 DEF Owns
    <3>5. Without(Result(tokens, i), <<"tokens", 0>>) = {}
      BY <3>3 DEF Without
    <3>6. Registered(Without(Result(tokens, i), <<"tokens", 0>>), free(heap, tokens.buf))
      BY <3>1, <3>4, Destroying, Freed
    <3> QED BY <3>1, <3>2, <3>5, <3>6
  <2> QED BY <2>1, <2>2, <2>3
<1> QED BY <1>1, <1>2, <1>4 DEF IInv, Stopped

-----------------------------------------------------------------------------
(* The theorems.                                                           *)

\* lexer_init: five blocks with five owners.
LEMMA InitIInv == Init => IInv
<1> SUFFICES ASSUME Init PROVE IInv
  OBVIOUS
<1>1. /\ tokens = [buf |-> 2, items |-> <<>>, capacity |-> INITIAL_CAPACITY]
      /\ queue = [buf |-> 5, items |-> <<>>, capacity |-> INITIAL_CAPACITY]
      /\ heap = <<0, 0, 0, 0, 0>> /\ pc = "loop" /\ i = 1
  BY DEF Init, array_init, TOKENS, ALERTS
<1>2. IsList(<<>>) /\ Len(<<>>) = 0
  BY DEF IsList
<1>3. Shaped /\ Labelled /\ Pointing
  BY <1>1, <1>2 DEF Shaped, Labelled, Pointing, IsArray, Open, Ended
<1>4. Owned = {<<<<"tokens", 0>>, 2>>, <<<<"lexer", 0>>, 1>>, <<<<"queue", 0>>, 3>>,
               <<<<"queue_array", 0>>, 4>>, <<<<"alerts", 0>>, 5>>}
  <2>1. Literals(<<>>, 1) = {} /\ Messages(<<>>) = {}
    BY <1>2 DEF Literals, Messages
  <2>2. Owned = Result(tokens, 1) \cup Own(queue)
    BY <1>1 DEF Owned, Held
  <2> QED BY <1>1, <2>1, <2>2 DEF Result, Own, LEXER, QUEUE, QUEUE_ARRAY
<1>5. Registered(Owned, heap)
  <2>1. heap \in Seq(Nat) /\ Len(heap) = 5 /\ \A b \in 1..5 : heap[b] = 0
    BY <1>1
  <2>2. \A r \in Owned : r = <<r[1], r[2]>> /\ r[2] \in 1..5
    BY <1>4
  <2>3. \A r, q \in Owned : r[1] = q[1] <=> r[2] = q[2]
    BY <1>4
  <2>4. \A b \in 1..5 : \E r \in Owned : r[2] = b
    <3> SUFFICES ASSUME NEW b \in 1..5 PROVE \E r \in Owned : r[2] = b
      OBVIOUS
    <3>1. <<<<"tokens", 0>>, 2>>[2] = 2 /\ <<<<"lexer", 0>>, 1>>[2] = 1 /\ <<<<"queue", 0>>, 3>>[2] = 3
          /\ <<<<"queue_array", 0>>, 4>>[2] = 4 /\ <<<<"alerts", 0>>, 5>>[2] = 5
      OBVIOUS
    <3>2. b = 1 \/ b = 2 \/ b = 3 \/ b = 4 \/ b = 5
      OBVIOUS
    <3> QED BY <1>4, <3>1, <3>2
  <2> QED BY <2>1, <2>2, <2>3, <2>4 DEF Registered
<1> QED BY <1>1, <1>3, <1>5 DEF IInv, Stopped

\* Every step keeps the register.
LEMMA NextIInv == IInv /\ [Next]_vars => IInv'
<1> SUFFICES ASSUME IInv, [Next]_vars PROVE IInv'
  OBVIOUS
<1>1. CASE UNCHANGED vars
  <2>1. UNCHANGED <<tokens, queue, heap, arr, width, i, pc>>
    BY <1>1 DEF vars, lexVars, alertVars
  <2> QED BY <2>1 DEF IInv, Shaped, Labelled, Pointing, Owned, tok
<1>2. CASE SkipNewline \/ SkipSpace \/ ReportAlert
  BY <1>2, QuietStep
<1>3. CASE lexer_add_token
  BY <1>3, AddStep
<1>4. CASE SubLexer
  <2>1. CASE lex_string_literal /\ pc' = "str_body"
    BY <2>1, StringOpens
  <2> QED BY <1>4, <2>1, SubLexerStep
<1>5. CASE CharLiteral
  BY <1>5, CharLiteralStep
<1>6. CASE StringLiteral
  BY <1>6, StringLiteralStep
<1>7. CASE InvalidUtf8 \/ Overrun
  BY <1>7, StopStep
<1>8. CASE Reported
  BY <1>8, ReportedStep
<1>9. CASE EndOfText
  BY <1>9, EndStep
<1>10. CASE destroy_tokens \/ FreeLiteral \/ FreeTokens
  BY <1>10, DestroyStep
<1> QED BY <1>1, <1>2, <1>3, <1>4, <1>5, <1>6, <1>7, <1>8, <1>9, <1>10 DEF Next

\* The register is kept by every execution of lex and destroy_tokens: each block that
\* is not freed has one owner, and no owner has a block that is freed.
THEOREM RegisterKept == Spec => []IInv
<1>1. Init => IInv
  BY InitIInv
<1>2. IInv /\ [Next]_vars => IInv'
  BY NextIInv
<1> QED BY <1>1, <1>2, PTL DEF Spec

\* A block with an owner is live, and no block is freed twice.
LEMMA OwnedLive ==
    ASSUME NEW R, NEW h, Registered(R, h)
    PROVE  /\ \A o, b : Owns(R, o, b) => h[b] = 0
           /\ \A b \in DOMAIN h : h[b] <= 1
<1>1. \A o, b : Owns(R, o, b) => h[b] = 0
  <2> SUFFICES ASSUME NEW o, NEW b, Owns(R, o, b) PROVE h[b] = 0
    OBVIOUS
  <2>1. PICK r \in R : r = <<o, b>>
    BY DEF Owns
  <2>2. h[r[2]] = 0 /\ r[2] = b
    BY <2>1 DEF Registered
  <2> QED BY <2>2
<1>2. \A b \in DOMAIN h : h[b] <= 1
  BY DEF Registered
<1> QED BY <1>1, <1>2

\* What the register says of a state: what is in use has an owner.
LEMMA RegisterSays ==
    ASSUME IInv
    PROVE  /\ \A b \in DOMAIN heap : heap[b] <= 1
           /\ pc # "done" => heap[tokens.buf] = 0
           /\ pc = "str_body" => heap[arr.buf] = 0
           /\ pc \notin Ended => /\ heap[queue.buf] = 0
                                 /\ \A k \in DOMAIN queue.items : heap[queue.items[k].alert_msg] = 0
           /\ pc \notin {"destroy", "done"} =>
                  \A k \in DOMAIN tokens.items :
                      tokens.items[k].token_type = "TK_STRLIT" => heap[tokens.items[k].str_val] = 0
           /\ pc = "done" => \A b \in DOMAIN heap : heap[b] = 1
<1>1. PICK R : Registered(R, heap) /\ Owned \subseteq R /\ (pc \notin Stopped => R = Owned)
  <2>1. CASE pc \in Stopped
    <3>1. PICK X : Registered(Owned \cup X, heap)
      BY <2>1 DEF IInv
    <3> QED BY <2>1, <3>1
  <2>2. CASE pc \notin Stopped
    BY <2>2 DEF IInv
  <2> QED BY <2>1, <2>2
<1>2. /\ DOMAIN queue.items = 1..Len(queue.items)
      /\ DOMAIN tokens.items = 1..Len(tokens.items)
  BY DEF IInv, Shaped, IsArray, IsList
<1>3. pc \notin Ended => Result(tokens, 1) \cup Own(queue) \cup Held(pc, arr) \subseteq R
  BY <1>1 DEF Owned, Ended
<1>4. pc \notin {"destroy", "done"} => Result(tokens, 1) \subseteq R
  BY <1>1 DEF Owned
<1>5. ASSUME pc # "done" PROVE heap[tokens.buf] = 0
  <2>1. Owns(R, <<"tokens", 0>>, tokens.buf)
    BY <1>1, <1>5 DEF Owns, Owned, Result
  <2> QED BY <1>1, <2>1, OwnedLive
<1>6. ASSUME pc = "str_body" PROVE heap[arr.buf] = 0
  <2>1. Owns(R, <<"array", 0>>, arr.buf)
    BY <1>3, <1>6 DEF Owns, Held, Ended
  <2> QED BY <1>1, <2>1, OwnedLive
<1>7. ASSUME pc \notin Ended
      PROVE  /\ heap[queue.buf] = 0
             /\ \A k \in DOMAIN queue.items : heap[queue.items[k].alert_msg] = 0
  <2>1. Owns(R, <<"alerts", 0>>, queue.buf)
    BY <1>3, <1>7 DEF Owns, Own
  <2>2. \A k \in DOMAIN queue.items : Owns(R, <<"message", k>>, queue.items[k].alert_msg)
    BY <1>2, <1>3, <1>7 DEF Owns, Own, Messages
  <2>3. heap[queue.buf] = 0
    BY <1>1, <2>1, OwnedLive
  <2>4. ASSUME NEW k \in DOMAIN queue.items PROVE heap[queue.items[k].alert_msg] = 0
    <3>1. PICK o, b : o = <<"message", k>> /\ b = queue.items[k].alert_msg
      OBVIOUS
    <3>2. Owns(R, o, b)
      BY <2>2, <3>1
    <3>3. heap[b] = 0
      BY <1>1, <3>2, OwnedLive
    <3> QED BY <3>1, <3>3
  <2> QED BY <2>3, <2>4
<1>8. ASSUME pc \notin {"destroy", "done"}, NEW k \in DOMAIN tokens.items,
             tokens.items[k].token_type = "TK_STRLIT"
      PROVE  heap[tokens.items[k].str_val] = 0
  <2>1. <<<<"literal", k>>, tokens.items[k].str_val>> \in Literals(tokens.items, 1)
    BY <1>2, <1>8 DEF Literals
  <2>2. Owns(R, <<"literal", k>>, tokens.items[k].str_val)
    BY <1>4, <1>8, <2>1 DEF Owns, Result
  <2> QED BY <1>1, <2>2, OwnedLive
<1>9. ASSUME pc = "done", NEW b \in DOMAIN heap PROVE heap[b] = 1
  <2>1. R = {}
    BY <1>1, <1>9 DEF Owned, Stopped
  <2> QED BY <1>1, <2>1 DEF Registered
<1>10. \A b \in DOMAIN heap : heap[b] <= 1
  BY <1>1, OwnedLive
<1> QED BY <1>5, <1>6, <1>7, <1>8, <1>9, <1>10

\* A queued alert points at the token in the making, in the buffer that the token
\* array has now, for every text: lexer_add_token, which may move the tokens, runs
\* only when the queue is empty.
THEOREM AlertsLive == Spec => []AlertsPointToLive
<1>1. IInv => AlertsPointToLive
  <2> SUFFICES ASSUME IInv, NEW k \in DOMAIN queue.items
               PROVE  /\ queue.items[k].tok = tok
                      /\ tokens.items # <<>>
                      /\ heap[tokens.buf] = 0
    BY DEF AlertsPointToLive
  <2>1. DOMAIN queue.items = 1..Len(queue.items) /\ Len(queue.items) \in Nat
    BY DEF IInv, Shaped, IsArray, IsList
  <2>2. queue.items[k].tok = tok /\ Len(queue.items) > 0
    BY <2>1 DEF IInv, Pointing
  <2>3. Len(tokens.items) >= 1
    BY <2>2 DEF IInv, Pointing
  <2>4. pc # "done"
    BY <2>1, <2>2 DEF IInv, Pointing, Ended
  <2>5. heap[tokens.buf] = 0
    BY <2>4, RegisterSays
  <2> QED BY <2>2, <2>3, <2>5
<1> QED BY <1>1, RegisterKept, PTL

\* No block is freed twice or used after it was freed, and destroy_tokens leaves none
\* behind, for every text and every initial capacity of the arrays.
THEOREM LexerFreesOnce == Spec => []BlocksFreedOnce
<1>1. IInv => BlocksFreedOnce
  <2> SUFFICES ASSUME IInv PROVE BlocksFreedOnce
    OBVIOUS
  <2>1. Ended = {"returned", "destroy", "done"}
    BY DEF Ended
  <2>2. pc # "done" => /\ heap[tokens.buf] = 0
                       /\ pc = "str_body" => heap[arr.buf] = 0
    BY RegisterSays
  <2>3. /\ pc \notin Ended => /\ heap[queue.buf] = 0
                              /\ \A k \in DOMAIN queue.items : heap[queue.items[k].alert_msg] = 0
        /\ pc \notin {"destroy", "done"} =>
               \A k \in DOMAIN tokens.items :
                   tokens.items[k].token_type = "TK_STRLIT" => heap[tokens.items[k].str_val] = 0
    BY RegisterSays
  <2>4. /\ \A b \in DOMAIN heap : heap[b] <= 1
        /\ pc = "done" => \A b \in DOMAIN heap : heap[b] = 1
    BY RegisterSays
  <2> QED BY <2>1, <2>2, <2>3, <2>4 DEF BlocksFreedOnce
<1> QED BY <1>1, RegisterKept, PTL

-----------------------------------------------------------------------------
(* Least elements, and functions defined by recursion.                     *)

\* A set of naturals that is not empty has a least element.
LEMMA LeastElement ==
    ASSUME NEW T \in SUBSET Nat, T # {}
    PROVE  \E m \in T : \A k \in T : m <= k
<1>1. IsWellFoundedOn({ss \in Nat \X Nat : ss[1] < ss[2]}, Nat)
  BY NatLessThanWellFounded DEF OpToRel
<1>2. PICK m \in T : \A y \in T : ~(<<y, m>> \in {ss \in Nat \X Nat : ss[1] < ss[2]})
  BY <1>1, WFMin
<1>3. ASSUME NEW k \in T PROVE m <= k
  <2>1. PICK z \in Nat \X Nat : z = <<k, m>>
    OBVIOUS
  <2>2. z[1] = k /\ z[2] = m
    BY <2>1
  <2>3. ~(z[1] < z[2])
    BY <1>2, <2>1
  <2> QED BY <2>2, <2>3
<1> QED BY <1>3

\* Min is the least element.
LEMMA MinFacts ==
    ASSUME NEW T \in SUBSET Nat, T # {}
    PROVE  Min(T) \in T /\ \A k \in T : Min(T) <= k
<1>1. \E m \in T : \A k \in T : m <= k
  BY LeastElement
<1> QED BY <1>1 DEF Min

\* What holds first and is passed on holds throughout.
LEMMA PassedOn ==
    ASSUME NEW p \in Nat, NEW q \in Nat, NEW G, p \in G,
           \A k \in p..q : k \in G /\ k < q => k + 1 \in G
    PROVE  \A k \in p..q : k \in G
<1> PICK T : T = {k \in p..q : k \notin G}
  OBVIOUS
<1> SUFFICES ASSUME T # {} PROVE FALSE
  OBVIOUS
<1>1. T \in SUBSET Nat
  OBVIOUS
<1>2. PICK m \in T : \A k \in T : m <= k
  BY <1>1, LeastElement
<1>3. m \in p..q /\ m \notin G /\ m # p
  OBVIOUS
<1>4. m - 1 \in p..q /\ m - 1 < q /\ ~ (m <= m - 1)
  BY <1>3
<1>5. m - 1 \notin T
  BY <1>2, <1>4
<1>6. m - 1 \in G
  BY <1>4, <1>5
<1>7. (m - 1) + 1 \in G
  BY <1>4, <1>6
<1>8. (m - 1) + 1 = m
  BY <1>3
<1> QED BY <1>3, <1>7, <1>8

\* Some function into V is what the recursion over p..q from a says.
Solvable(p, q, V, a, step) ==
    \E f \in [p..q -> V] : \A k \in p..q : f[k] = IF k = p THEN a ELSE step[k][f[k - 1]]

\* A recursion over p..q whose step stays in V defines a function into V.
LEMMA RecursionDefined ==
    ASSUME NEW p \in Nat, NEW q \in Nat, p <= q, NEW V, NEW a \in V,
           NEW step, \A k \in (p + 1)..q : \A x \in V : step[k][x] \in V
    PROVE  Solvable(p, q, V, a, step)
<1> DEFINE Defined(n) == \E f \in [p..n -> V] :
                             \A k \in p..n : f[k] = IF k = p THEN a ELSE step[k][f[k - 1]]
<1>0. PICK G : G = {n \in p..q : Defined(n)}
  OBVIOUS
<1>1. p \in G
  <2>1. PICK f : f = [k \in p..p |-> a]
    OBVIOUS
  <2>2. f \in [p..p -> V] /\ \A k \in p..p : f[k] = IF k = p THEN a ELSE step[k][f[k - 1]]
    BY <2>1
  <2>3. Defined(p) /\ p \in p..q
    BY <2>2
  <2> HIDE DEF Defined
  <2> QED BY <1>0, <2>3
<1>2. ASSUME NEW n \in p..q, n \in G, n < q PROVE n + 1 \in G
  <2>1. PICK f \in [p..n -> V] :
            \A k \in p..n : f[k] = IF k = p THEN a ELSE step[k][f[k - 1]]
    BY <1>0, <1>2
  <2>2. PICK g : g = [k \in p..(n + 1) |-> IF k = n + 1 THEN step[n + 1][f[n]] ELSE f[k]]
    OBVIOUS
  <2>3. n \in p..n /\ n + 1 \in (p + 1)..q /\ n + 1 \in p..q /\ f[n] \in V /\ step[n + 1][f[n]] \in V
    BY <1>2
  <2>4. g[n + 1] = step[n + 1][f[n]] /\ \A k \in p..n : g[k] = f[k]
    BY <2>2
  <2>5. g \in [p..(n + 1) -> V]
    BY <2>2, <2>3
  <2>6. ASSUME NEW k \in p..(n + 1) PROVE g[k] = IF k = p THEN a ELSE step[k][g[k - 1]]
    <3>1. CASE k = n + 1
      BY <2>3, <2>4, <3>1
    <3>2. CASE k = p
      <4>1. p \in p..n /\ p # n + 1
        BY <1>2
      <4> QED BY <2>1, <2>4, <3>2, <4>1
    <3>3. CASE k # n + 1 /\ k # p
      <4>1. k \in p..n /\ k - 1 \in p..n
        BY <3>3
      <4> QED BY <2>1, <2>4, <3>3, <4>1
    <3> QED BY <3>1, <3>2, <3>3
  <2>7. Defined(n + 1)
    BY <2>5, <2>6
  <2> HIDE DEF Defined
  <2> QED BY <1>0, <2>3, <2>7
<1>3. q \in G
  <2>1. \A k \in p..q : k \in G /\ k < q => k + 1 \in G
    BY <1>2
  <2>2. \A k \in p..q : k \in G
    BY <1>1, <2>1, PassedOn
  <2> QED BY <2>2
<1>4. Defined(q)
  <2> HIDE DEF Defined
  <2> QED BY <1>0, <1>3
<1> QED BY <1>4 DEF Solvable

-----------------------------------------------------------------------------
(* Scanning.                                                               *)

\* The text in hand.
Given == text \in Inputs

\* A text is bytes, and its end is its only NUL.
LEMMA TextFacts ==
    ASSUME Given
    PROVE  /\ text \in Seq(0..255) /\ Len(text) \in Nat \ {0}
           /\ \A p \in Positions : text[p] \in 0..255 /\ (text[p] = NUL <=> p = Len(text))
           /\ Len(text) \in Positions /\ text[Len(text)] = NUL
<1>1. /\ text \in Seq(0..255) /\ text # <<>>
      /\ \A k \in 1..Len(text) : text[k] = NUL <=> k = Len(text)
  BY TextsEndWithNul DEF Given
<1>2. Len(text) \in Nat \ {0}
  BY <1>1
<1>3. \A p \in 1..Len(text) : text[p] \in 0..255
  <2>1. ASSUME NEW S, NEW t \in Seq(S) PROVE \A p \in 1..Len(t) : t[p] \in S
    OBVIOUS
  <2>2. text \in Seq(0..255)
    BY <1>1
  <2> QED BY <2>1, <2>2
<1>4. Len(text) \in 1..Len(text) /\ text[Len(text)] = NUL
  BY <1>1, <1>2
<1> QED BY <1>1, <1>2, <1>3, <1>4 DEF Positions

\* Behind a character that is not the NUL there is another.
LEMMA NextPosition ==
    ASSUME Given, NEW p \in Positions, text[p] # NUL
    PROVE  p + 1 \in Positions
<1>1. Len(text) \in Nat /\ p # Len(text)
  BY TextFacts
<1> QED BY <1>1 DEF Positions

\* A scan over a class without the NUL ends in the text, at the first character
\* that is not of the class.
LEMMA SkipFacts ==
    ASSUME Given, NEW p \in Positions, NEW class, NUL \notin class
    PROVE  /\ Skip(p, class) \in p..Len(text)
           /\ Skip(p, class) \in Positions
           /\ text[Skip(p, class)] \notin class
           /\ \A k \in p..(Skip(p, class) - 1) : text[k] \in class
<1>1. Len(text) \in p..Len(text) /\ text[Len(text)] \notin class
  BY TextFacts DEF Positions
<1>2. PICK T : T = {j \in p..Len(text) : text[j] \notin class}
  OBVIOUS
<1>3. T \in SUBSET Nat /\ T # {}
  BY <1>1, <1>2 DEF Positions
<1>4. PICK m \in T : \A k \in T : m <= k
  BY <1>3, LeastElement
<1>5. m \in p..Len(text) /\ text[m] \notin class
  BY <1>2
<1>6. ASSUME NEW k \in p..(m - 1) PROVE text[k] \in class
  <2>1. k \in p..Len(text) /\ ~ (m <= k)
    BY <1>5, TextFacts DEF Positions
  <2> QED BY <1>2, <1>4, <2>1
<1>7. \E j \in p..Len(text) : text[j] \notin class /\ \A k \in p..(j - 1) : text[k] \in class
  BY <1>5, <1>6
<1>8. /\ Skip(p, class) \in p..Len(text)
      /\ text[Skip(p, class)] \notin class
      /\ \A k \in p..(Skip(p, class) - 1) : text[k] \in class
  BY <1>7 DEF Skip
<1>9. \A k \in p..Len(text) : k \in Positions
  BY TextFacts DEF Positions
<1> QED BY <1>8, <1>9

\* The character classes do not hold the NUL.
LEMMA Classes ==
    /\ NUL \notin is_word_char /\ NUL \notin is_hex_exp_char /\ NUL \notin is_dec_exp_char
    /\ NUL \notin isdigit /\ NUL \notin isoctal /\ NUL \notin isxdigit
    /\ NUL \notin Chars("xX") /\ NUL \notin Chars("+-") /\ NUL \notin Chars("fFlL")
    /\ NUL \notin 0..255 \ {NUL, NL, QUOTE}
    /\ NUL # DOT /\ NUL # QUOTE /\ NUL # DQUOTE /\ NUL # BACKSLASH /\ NUL # Ord("x")
<1>1. /\ NUL \notin Chars("_") /\ NUL \notin Chars("xX") /\ NUL \notin Chars("pP")
      /\ NUL \notin Chars("eE") /\ NUL \notin Chars("+-") /\ NUL \notin Chars("fFlL")
      /\ Ord("x") # NUL
  <2>1. /\ NUL \notin {95} /\ NUL \notin {88, 120} /\ NUL \notin {80, 112} /\ NUL \notin {69, 101}
        /\ NUL \notin {43, 45} /\ NUL \notin {70, 76, 102, 108} /\ 120 # NUL
    BY DEF NUL
  <2>2. /\ Chars("_") = {95} /\ Chars("xX") = {88, 120} /\ Chars("pP") = {80, 112}
        /\ Chars("eE") = {69, 101} /\ Chars("+-") = {43, 45}
        /\ Chars("fFlL") = {70, 76, 102, 108} /\ Ord("x") = 120
    BY LiteralsAssumption
  <2> QED BY <2>1, <2>2, Zenon
<1>2. NUL \notin is_word_char
  <2>1. NUL \notin isalpha /\ NUL \notin isdigit
    BY DEF isdigit, isalpha, NUL
  <2> QED BY <1>1, <2>1 DEF is_word_char
<1>6. NUL \notin is_hex_exp_char /\ NUL \notin is_dec_exp_char
  BY <1>1 DEF is_hex_exp_char, is_dec_exp_char
<1>3. NUL \notin isdigit /\ NUL \notin isoctal /\ NUL \notin isxdigit
  BY DEF isdigit, isoctal, isxdigit, NUL
<1>4. NUL # DOT /\ NUL # QUOTE /\ NUL # DQUOTE /\ NUL # BACKSLASH
  BY DEF NUL, DOT, QUOTE, DQUOTE, BACKSLASH
<1>5. NUL \notin 0..255 \ {NUL, NL, QUOTE}
  OBVIOUS
<1> QED BY <1>1, <1>2, <1>3, <1>4, <1>5, <1>6

\* What matches a string without NULs ends in the text.
LEMMA MatchFacts ==
    ASSUME Given, NEW p \in Positions, NEW w \in Seq(1..255), matches(w, p)
    PROVE  Len(w) \in Nat /\ p + Len(w) \in Positions
<1>1. Len(w) \in Nat /\ p \in Nat /\ p >= 1 /\ Len(text) \in Nat
  BY TextFacts DEF Positions
<1>2. CASE Len(w) = 0
  BY <1>1, <1>2 DEF Positions
<1>3. CASE Len(w) # 0
  <2>1. w[Len(w)] \in 1..255 /\ Len(w) \in DOMAIN w
    BY <1>1, <1>3
  <2>2. text[p + Len(w) - 1] = w[Len(w)] /\ p + Len(w) - 1 <= Len(text)
    BY <2>1 DEF matches
  <2>3. p + Len(w) - 1 \in Positions
    BY <1>1, <1>3, <2>2 DEF Positions
  <2>4. text[p + Len(w) - 1] # NUL
    <3>1. \A c \in 1..255 : c # 0
      OBVIOUS
    <3> QED BY <2>1, <2>2, <3>1 DEF NUL
  <2>5. (p + Len(w) - 1) + 1 \in Positions
    BY <2>3, <2>4, NextPosition
  <2>6. (p + Len(w) - 1) + 1 = p + Len(w)
    BY <1>1
  <2> QED BY <1>1, <2>5, <2>6
<1> QED BY <1>2, <1>3

\* What the first match of a table of such strings spans ends in the text.
LEMMA FirstMatch ==
    ASSUME Given, NEW p \in Positions, NEW table \in Seq(Seq(1..255))
    PROVE  first_match(table, p) \in Nat /\ p + first_match(table, p) \in Positions
<1> PICK found : found = {k \in DOMAIN table : matches(table[k], p)}
  OBVIOUS
<1>1. p + 0 \in Positions
  BY DEF Positions
<1>2. CASE found = {}
  BY <1>1, <1>2 DEF first_match
<1>3. CASE found # {}
  <2>1. found \in SUBSET Nat
    OBVIOUS
  <2>2. PICK m : m = Min(found)
    OBVIOUS
  <2>3. m \in found
    BY <1>3, <2>1, <2>2, MinFacts
  <2>4. table[m] \in Seq(1..255) /\ matches(table[m], p)
    BY <2>3
  <2>5. first_match(table, p) = Len(table[m])
    BY <1>3, <2>2 DEF first_match
  <2> QED BY <2>4, <2>5, MatchFacts
<1> QED BY <1>2, <1>3

-----------------------------------------------------------------------------
(* The values of digits.                                                   *)

\* A digit of any base has a natural value.
LEMMA DigitFacts ==
    ASSUME NEW c \in isxdigit
    PROVE  digit_value(c) \in Nat
BY DEF isxdigit, isdigit, digit_value

\* A step of the evaluation of digits.
LEMMA Linear ==
    ASSUME NEW a \in Nat, NEW b \in Nat, NEW c \in Nat
    PROVE  a * b + c \in Nat
OBVIOUS

\* v sums up the digits of p..(q - 1), no further than to the largest value.
Saturates(v, p, q, base) ==
    /\ v[p] = 0 /\ \A k \in p..q : v[k] \in Nat
    /\ \A k \in (p + 1)..q :
           v[k] = Min({ULLONG_MAX, v[k - 1] * base + digit_value(text[k - 1])})

\* What strtoull makes of digits is a natural number, for any number of them.
LEMMA StrtoullFacts ==
    ASSUME NEW p \in Nat, NEW q \in Nat, p <= q, NEW base \in Nat,
           \A k \in p..(q - 1) : text[k] \in isxdigit
    PROVE  /\ strtoull(p, q, base) \in Nat
           /\ \E v : strtoull(p, q, base) = v[q] /\ Saturates(v, p, q, base)
<1>1. \A k \in (p + 1)..q : digit_value(text[k - 1]) \in Nat
  <2> SUFFICES ASSUME NEW k \in (p + 1)..q PROVE digit_value(text[k - 1]) \in Nat
    OBVIOUS
  <2>1. k - 1 \in p..(q - 1)
    OBVIOUS
  <2> QED BY <2>1, DigitFacts
<1>2. ASSUME NEW x \in Nat, NEW k \in (p + 1)..q
      PROVE  Min({ULLONG_MAX, x * base + digit_value(text[k - 1])}) \in Nat
  <2>1. PICK d \in Nat : d = x * base + digit_value(text[k - 1])
    BY <1>1, Linear
  <2>2. {ULLONG_MAX, d} \in SUBSET Nat /\ {ULLONG_MAX, d} # {}
    BY MaxAssumption
  <2>3. Min({ULLONG_MAX, d}) \in {ULLONG_MAX, d}
    BY <2>2, MinFacts
  <2> QED BY <2>1, <2>2, <2>3
<1>3. PICK step : step = [k \in p..q |-> [x \in Nat |->
                     Min({ULLONG_MAX, x * base + digit_value(text[k - 1])})]]
  OBVIOUS
<1>4. \A k \in (p + 1)..q : \A x \in Nat :
          /\ step[k][x] = Min({ULLONG_MAX, x * base + digit_value(text[k - 1])})
          /\ step[k][x] \in Nat
  <2> SUFFICES ASSUME NEW k \in (p + 1)..q, NEW x \in Nat
               PROVE  /\ step[k][x] = Min({ULLONG_MAX, x * base + digit_value(text[k - 1])})
                      /\ step[k][x] \in Nat
    OBVIOUS
  <2>1. k \in p..q
    OBVIOUS
  <2>2. step[k][x] = Min({ULLONG_MAX, x * base + digit_value(text[k - 1])})
    BY <1>3, <2>1
  <2> QED BY <1>2, <2>2
<1>5. PICK f \in [p..q -> Nat] : \A k \in p..q : f[k] = IF k = p THEN 0 ELSE step[k][f[k - 1]]
  <2>1. PICK V, a : V = Nat /\ a = 0
    OBVIOUS
  <2>2. a \in V /\ \A k \in (p + 1)..q : \A x \in V : step[k][x] \in V
    BY <1>4, <2>1
  <2>3. Solvable(p, q, V, a, step)
    BY <2>2, RecursionDefined
  <2> QED BY <2>1, <2>3 DEF Solvable
<1>6. f = [k \in p..q |-> IF k = p THEN 0
              ELSE Min({ULLONG_MAX, f[k - 1] * base + digit_value(text[k - 1])})]
  <2>1. ASSUME NEW k \in p..q
        PROVE  f[k] = IF k = p THEN 0
                      ELSE Min({ULLONG_MAX, f[k - 1] * base + digit_value(text[k - 1])})
    <3>1. CASE k = p
      BY <1>5, <3>1
    <3>2. CASE k # p
      <4>1. k \in (p + 1)..q /\ f[k - 1] \in Nat
        BY <3>2
      <4> QED BY <1>4, <1>5, <3>2, <4>1
    <3> QED BY <3>1, <3>2
  <2> QED BY <2>1
<1>7. PICK v : v = CHOOSE w : w = [k \in p..q |-> IF k = p THEN 0
                       ELSE Min({ULLONG_MAX, w[k - 1] * base + digit_value(text[k - 1])})]
  OBVIOUS
<1>8. v = [k \in p..q |-> IF k = p THEN 0
              ELSE Min({ULLONG_MAX, v[k - 1] * base + digit_value(text[k - 1])})]
  BY <1>6, <1>7
<1>9. strtoull(p, q, base) = v[q]
  BY <1>7 DEF strtoull
<1>10. PICK G : G = {k \in p..q : v[k] \in Nat}
  OBVIOUS
<1>11. p \in G
  BY <1>8, <1>10
<1>12. ASSUME NEW k \in p..q, k \in G, k < q PROVE k + 1 \in G
  <2>1. v[k] \in Nat /\ k + 1 \in (p + 1)..q /\ k + 1 # p /\ (k + 1) - 1 = k
    BY <1>10, <1>12
  <2>2. PICK j : j = k + 1
    OBVIOUS
  <2>3. j \in p..q /\ j # p /\ j \in (p + 1)..q /\ j - 1 = k
    BY <2>1, <2>2
  <2>4. v[j] = Min({ULLONG_MAX, v[j - 1] * base + digit_value(text[j - 1])})
    BY <1>8, <2>3
  <2>5. v[j - 1] \in Nat
    BY <2>1, <2>3
  <2>6. v[j] \in Nat
    BY <1>2, <2>3, <2>4, <2>5
  <2> QED BY <1>10, <2>2, <2>3, <2>6
<1>13. \A k \in p..q : k \in G
  <2>1. \A k \in p..q : k \in G /\ k < q => k + 1 \in G
    BY <1>12
  <2> QED BY <1>11, <2>1, PassedOn
<1>14. \A k \in p..q : v[k] \in Nat
  BY <1>10, <1>13
<1>15. \A k \in (p + 1)..q :
           v[k] = Min({ULLONG_MAX, v[k - 1] * base + digit_value(text[k - 1])})
  <2> SUFFICES ASSUME NEW k \in (p + 1)..q
               PROVE  v[k] = Min({ULLONG_MAX, v[k - 1] * base + digit_value(text[k - 1])})
    OBVIOUS
  <2>1. k \in p..q /\ k # p
    OBVIOUS
  <2> QED BY <1>8, <2>1
<1>16. v[p] = 0 /\ p \in p..q /\ q \in p..q
  BY <1>8
<1>17. Saturates(v, p, q, base)
  BY <1>14, <1>15, <1>16 DEF Saturates
<1> QED BY <1>9, <1>14, <1>16, <1>17

\* v sums up the digits of p..(q - 1).
Sums(v, p, q, base) ==
    /\ v[p] = 0 /\ \A k \in p..q : v[k] \in Nat
    /\ \A k \in (p + 1)..q : v[k] = v[k - 1] * base + digit_value(text[k - 1])

\* The digits of an escape sequence make a natural number too.
LEMMA NumberFacts ==
    ASSUME NEW p \in Nat, NEW q \in Nat, p <= q, NEW base \in Nat,
           \A k \in p..(q - 1) : text[k] \in isxdigit
    PROVE  /\ Number(p, q, base) \in Nat
           /\ \E v : Number(p, q, base) = v[q] /\ Sums(v, p, q, base)
<1>1. \A k \in (p + 1)..q : digit_value(text[k - 1]) \in Nat
  <2> SUFFICES ASSUME NEW k \in (p + 1)..q PROVE digit_value(text[k - 1]) \in Nat
    OBVIOUS
  <2>1. k - 1 \in p..(q - 1)
    OBVIOUS
  <2> QED BY <2>1, DigitFacts
<1>2. ASSUME NEW x \in Nat, NEW k \in (p + 1)..q
      PROVE  x * base + digit_value(text[k - 1]) \in Nat
  BY <1>1, Linear
<1>3. PICK step : step = [k \in p..q |-> [x \in Nat |->
                     x * base + digit_value(text[k - 1])]]
  OBVIOUS
<1>4. \A k \in (p + 1)..q : \A x \in Nat :
          /\ step[k][x] = x * base + digit_value(text[k - 1])
          /\ step[k][x] \in Nat
  <2> SUFFICES ASSUME NEW k \in (p + 1)..q, NEW x \in Nat
               PROVE  /\ step[k][x] = x * base + digit_value(text[k - 1])
                      /\ step[k][x] \in Nat
    OBVIOUS
  <2>1. k \in p..q
    OBVIOUS
  <2>2. step[k][x] = x * base + digit_value(text[k - 1])
    BY <1>3, <2>1
  <2> QED BY <1>2, <2>2
<1>5. PICK f \in [p..q -> Nat] : \A k \in p..q : f[k] = IF k = p THEN 0 ELSE step[k][f[k - 1]]
  <2>1. PICK V, a : V = Nat /\ a = 0
    OBVIOUS
  <2>2. a \in V /\ \A k \in (p + 1)..q : \A x \in V : step[k][x] \in V
    BY <1>4, <2>1
  <2>3. Solvable(p, q, V, a, step)
    BY <2>2, RecursionDefined
  <2> QED BY <2>1, <2>3 DEF Solvable
<1>6. f = [k \in p..q |-> IF k = p THEN 0
              ELSE f[k - 1] * base + digit_value(text[k - 1])]
  <2>1. ASSUME NEW k \in p..q
        PROVE  f[k] = IF k = p THEN 0
                      ELSE f[k - 1] * base + digit_value(text[k - 1])
    <3>1. CASE k = p
      BY <1>5, <3>1
    <3>2. CASE k # p
      <4>1. k \in (p + 1)..q /\ f[k - 1] \in Nat
        BY <3>2
      <4> QED BY <1>4, <1>5, <3>2, <4>1
    <3> QED BY <3>1, <3>2
  <2> QED BY <2>1
<1>7. PICK v : v = CHOOSE w : w = [k \in p..q |-> IF k = p THEN 0
                       ELSE w[k - 1] * base + digit_value(text[k - 1])]
  OBVIOUS
<1>8. v = [k \in p..q |-> IF k = p THEN 0
              ELSE v[k - 1] * base + digit_value(text[k - 1])]
  BY <1>6, <1>7
<1>9. Number(p, q, base) = v[q]
  BY <1>7 DEF Number
<1>10. PICK G : G = {k \in p..q : v[k] \in Nat}
  OBVIOUS
<1>11. p \in G
  BY <1>8, <1>10
<1>12. ASSUME NEW k \in p..q, k \in G, k < q PROVE k + 1 \in G
  <2>1. v[k] \in Nat /\ k + 1 \in (p + 1)..q /\ k + 1 # p /\ (k + 1) - 1 = k
    BY <1>10, <1>12
  <2>2. PICK j : j = k + 1
    OBVIOUS
  <2>3. j \in p..q /\ j # p /\ j \in (p + 1)..q /\ j - 1 = k
    BY <2>1, <2>2
  <2>4. v[j] = v[j - 1] * base + digit_value(text[j - 1])
    BY <1>8, <2>3
  <2>5. v[j - 1] \in Nat
    BY <2>1, <2>3
  <2>6. v[j] \in Nat
    BY <1>2, <2>3, <2>4, <2>5
  <2> QED BY <1>10, <2>2, <2>3, <2>6
<1>13. \A k \in p..q : k \in G
  <2>1. \A k \in p..q : k \in G /\ k < q => k + 1 \in G
    BY <1>12
  <2> QED BY <1>11, <2>1, PassedOn
<1>14. \A k \in p..q : v[k] \in Nat
  BY <1>10, <1>13
<1>15. \A k \in (p + 1)..q : v[k] = v[k - 1] * base + digit_value(text[k - 1])
  BY <1>8
<1>16. v[p] = 0 /\ p \in p..q /\ q \in p..q
  BY <1>8
<1>17. Sums(v, p, q, base)
  BY <1>14, <1>15, <1>16 DEF Sums
<1> QED BY <1>9, <1>14, <1>16, <1>17

\* decode_utf8 makes a natural number of bytes, and passes over as many as the first says.
LEMMA DecodeFacts ==
    ASSUME Given, NEW p \in Positions
    PROVE  /\ utf8_len(text[p]) \in 0..4
           /\ decode_utf8(text, p).len = utf8_len(text[p])
           /\ decode_utf8(text, p).code \in Nat
<1> PICK n : n = utf8_len(text[p])
  OBVIOUS
<1>1. text[p] \in 0..255
  BY TextFacts
<1>2. n \in 0..4
  BY <1>1 DEF utf8_len
<1>3. lead_bits(text[p]) \in Nat
  BY <1>1 DEF lead_bits
<1>4. PICK a \in Nat : a = lead_bits(text[p])
  BY <1>3
<1>5. CASE p + n - 1 > Len(text)
  <2>1. ~ (p + n - 1 <= Len(text))
    BY <1>2, <1>5, TextFacts DEF Positions
  <2> QED BY <1>2, <2>1 DEF decode_utf8
<1>6. CASE p + n - 1 <= Len(text)
  <2>1. ASSUME NEW k \in 2..n PROVE text[p + k - 1] % 64 \in Nat
    <3>1. p + k - 1 \in Positions
      BY <1>2, <1>6, TextFacts DEF Positions
    <3>2. text[p + k - 1] \in 0..255
      BY <3>1, TextFacts
    <3> QED BY <3>2
  <2>2. PICK v : v = CHOOSE w : w = [k \in 0..n |->
                     IF k <= 1 THEN a ELSE 64 * w[k - 1] + (text[p + k - 1] % 64)]
    OBVIOUS
  <2>3. decode_utf8(text, p).code = v[n] /\ decode_utf8(text, p).len = n
    BY <1>4, <1>6, <2>2 DEF decode_utf8
  <2>4. PICK t : t = [k \in 0..4 |-> text[p + k - 1] % 64]
    OBVIOUS
  <2>5. \A k \in 2..n : t[k] = text[p + k - 1] % 64 /\ t[k] \in Nat
    BY <1>2, <2>1, <2>4
  <2>6. PICK f : f = [k \in 0..n |-> IF k <= 1 THEN a
                        ELSE IF k = 2 THEN 64 * a + t[2]
                        ELSE IF k = 3 THEN 64 * (64 * a + t[2]) + t[3]
                        ELSE 64 * (64 * (64 * a + t[2]) + t[3]) + t[4]]
    OBVIOUS
  <2>7. f = [k \in 0..n |-> IF k <= 1 THEN a ELSE 64 * f[k - 1] + (text[p + k - 1] % 64)]
    <3>1. ASSUME NEW k \in 0..n
          PROVE  f[k] = IF k <= 1 THEN a ELSE 64 * f[k - 1] + (text[p + k - 1] % 64)
      <4>1. CASE k <= 1
        BY <2>6, <4>1
      <4>2. CASE k = 2
        BY <1>2, <2>5, <2>6, <4>2
      <4>3. CASE k = 3
        BY <1>2, <2>5, <2>6, <4>3
      <4>4. CASE k = 4
        BY <1>2, <2>5, <2>6, <4>4
      <4> QED BY <1>2, <4>1, <4>2, <4>3, <4>4
    <3> QED BY <2>6, <3>1
  <2>8. v = [k \in 0..n |-> IF k <= 1 THEN a ELSE 64 * v[k - 1] + (text[p + k - 1] % 64)]
    BY <2>2, <2>7
  <2>9. v[n] \in Nat
    <3>1. 0 \in 0..n /\ v[0] \in Nat /\ (n >= 1 => v[1] \in Nat)
      BY <1>2, <2>8
    <3>2. n >= 2 => v[2] \in Nat
      BY <1>2, <2>5, <2>8, <3>1
    <3>3. ASSUME n >= 3 PROVE v[3] \in Nat
      <4>1. PICK x \in Nat : x = v[2]
        BY <1>2, <3>2, <3>3
      <4>2. PICK y \in Nat : y = text[p + 3 - 1] % 64
        BY <1>2, <2>5, <3>3
      <4>3. 3 \in 0..n /\ ~(3 <= 1) /\ 3 - 1 = 2
        BY <1>2, <3>3
      <4>4. v[3] = 64 * x + y
        BY <2>8, <4>1, <4>2, <4>3, ZenonT(60)
      <4> QED BY <4>4
    <3>4. ASSUME n >= 4 PROVE v[4] \in Nat
      <4>1. PICK x \in Nat : x = v[3]
        BY <1>2, <3>3, <3>4
      <4>2. PICK y \in Nat : y = text[p + 4 - 1] % 64
        BY <1>2, <2>5, <3>4
      <4>3. 4 \in 0..n /\ ~(4 <= 1) /\ 4 - 1 = 3
        BY <1>2, <3>4
      <4>4. v[4] = 64 * x + y
        BY <2>8, <4>1, <4>2, <4>3, ZenonT(60)
      <4> QED BY <4>4
    <3> QED BY <1>2, <3>1, <3>2, <3>3, <3>4
  <2> QED BY <1>2, <2>3, <2>9
<1>7. p + n - 1 > Len(text) \/ p + n - 1 <= Len(text)
  BY <1>2, TextFacts DEF Positions
<1> QED BY <1>5, <1>6, <1>7

-----------------------------------------------------------------------------
(* Numeric constants and escape sequences.                                 *)

NumberTypes == {"TK_UNKNOWN", "TK_ICONST", "TK_FCONST"}

\* A constant that ends in the text, not before p.
Reaches(n, p) ==
    n.end \in Positions /\ p <= n.end /\ n.val \in Nat /\ n.type \in NumberTypes

\* A constant that reaches from a position reaches from every earlier one.
LEMMA ReachesEarlier ==
    ASSUME Given, NEW p \in Positions, NEW q \in Positions, p <= q, NEW n, Reaches(n, q)
    PROVE  Reaches(n, p)
BY TextFacts DEF Reaches, Positions

\* A suffix that ends in the text, or what stands in its place, is passed over.
LEMMA SuffixReaches ==
    ASSUME Given, NEW p \in Positions, NEW suffix \in Nat, p + suffix \in Positions,
           NEW type \in NumberTypes, NEW val \in Nat, NEW error
    PROVE  Reaches(consume_suffix(p, suffix, type, val, error), p)
<1>1. p <= p + suffix
  BY DEF Positions
<1>2. Skip(p, is_word_char) \in Positions /\ p <= Skip(p, is_word_char)
  BY SkipFacts, Classes
<1> QED BY <1>1, <1>2 DEF consume_suffix, Numeric, Bad, Reaches, NumberTypes

\* An integer with its suffix, and a float with its own.
LEMMA ConstantReaches ==
    ASSUME Given, NEW p \in Positions
    PROVE  /\ \A val \in Nat : Reaches(int_constant(p, val), p)
           /\ Reaches(float_constant(p), p)
<1>1. ASSUME NEW val \in Nat PROVE Reaches(int_constant(p, val), p)
  <2>1. PICK n : n = first_match(INT_SUFFIXES, p)
    OBVIOUS
  <2>2. n \in Nat /\ p + n \in Positions
    BY <2>1, FirstMatch, LiteralsAssumption
  <2>3. Reaches(consume_suffix(p, n, "TK_ICONST", val, "invalid integer suffix"), p)
    BY <2>2, SuffixReaches DEF NumberTypes
  <2> QED BY <2>1, <2>3 DEF int_constant
<1>2. Reaches(float_constant(p), p)
  <2>1. PICK n : n = IF text[p] \in Chars("fFlL") THEN 1 ELSE 0
    OBVIOUS
  <2>2. n \in Nat /\ p + n \in Positions
    <3>1. CASE text[p] \in Chars("fFlL")
      <4>1. text[p] # NUL
        BY <3>1, Classes
      <4> QED BY <2>1, <3>1, <4>1, NextPosition
    <3>2. CASE text[p] \notin Chars("fFlL")
      BY <2>1, <3>2 DEF Positions
    <3> QED BY <3>1, <3>2
  <2>3. 0 \in Nat /\ Reaches(consume_suffix(p, n, "TK_FCONST", 0, "invalid floating suffix"), p)
    BY <2>2, SuffixReaches DEF NumberTypes
  <2> QED BY <2>1, <2>3 DEF float_constant
<1> QED BY <1>1, <1>2

\* An exponent with its sign, its digits and the suffix behind them.
LEMMA ExponentReaches ==
    ASSUME Given, NEW p \in Positions
    PROVE  Reaches(exponent_and_suffix(p), p)
<1>1. PICK digits : digits = IF text[p] \in Chars("+-") THEN p + 1 ELSE p
  OBVIOUS
<1>2. digits \in Positions /\ p <= digits
  <2>1. CASE text[p] \in Chars("+-")
    <3>1. text[p] # NUL
      BY <2>1, Classes
    <3>2. p + 1 \in Positions /\ p <= p + 1
      BY <3>1, NextPosition DEF Positions
    <3> QED BY <1>1, <2>1, <3>2
  <2>2. CASE text[p] \notin Chars("+-")
    BY <1>1, <2>2 DEF Positions
  <2> QED BY <2>1, <2>2
<1>3. PICK end : end = Skip(digits, isdigit)
  OBVIOUS
<1>4. end \in Positions /\ digits <= end
  BY <1>2, <1>3, SkipFacts, Classes
<1>5. p <= end
  BY <1>2, <1>4 DEF Positions
<1>6. CASE end = digits
  <2>1. exponent_and_suffix(p) = Bad(end, "exponent has no digits")
    BY <1>1, <1>3, <1>6 DEF exponent_and_suffix
  <2>2. Reaches(Bad(end, "exponent has no digits"), p)
    BY <1>4, <1>5 DEF Bad, Numeric, Reaches, NumberTypes
  <2> QED BY <2>1, <2>2
<1>7. CASE end # digits
  <2>1. exponent_and_suffix(p) = float_constant(end)
    BY <1>1, <1>3, <1>7 DEF exponent_and_suffix
  <2>2. Reaches(float_constant(end), end)
    BY <1>4, ConstantReaches
  <2>3. Reaches(float_constant(end), p)
    BY <1>4, <1>5, <2>2, ReachesEarlier
  <2> QED BY <2>1, <2>3
<1> QED BY <1>6, <1>7

\* The digits behind a point end in the text.
LEMMA FractionFacts ==
    ASSUME Given, NEW p \in Positions, NEW class, NUL \notin class
    PROVE  fraction_end(p, class) \in Positions /\ p <= fraction_end(p, class)
<1>1. CASE text[p] = DOT
  <2>1. p + 1 \in Positions /\ p <= p + 1
    BY <1>1, Classes, NextPosition DEF Positions
  <2>2. Skip(p + 1, class) \in Positions /\ p + 1 <= Skip(p + 1, class)
    BY <2>1, SkipFacts
  <2>3. p <= Skip(p + 1, class)
    BY <2>1, <2>2 DEF Positions
  <2> QED BY <1>1, <2>2, <2>3 DEF fraction_end
<1>2. CASE text[p] # DOT
  BY <1>2 DEF fraction_end, Positions
<1> QED BY <1>1, <1>2

\* Behind its exponent character, a constant goes on in the text.
LEMMA ExponentBehind ==
    ASSUME Given, NEW p \in Positions, NEW end \in Positions, p <= end, text[end] # NUL
    PROVE  Reaches(exponent_and_suffix(end + 1), p)
<1>1. end + 1 \in Positions
  BY NextPosition
<1>2. p <= end + 1
  BY <1>1 DEF Positions
<1> QED BY <1>1, <1>2, ExponentReaches, ReachesEarlier

\* A hexadecimal constant.
LEMMA HexReaches ==
    ASSUME Given, NEW p \in Positions, p + 2 \in Positions
    PROVE  consume_hex(p) = NoNumber \/ Reaches(consume_hex(p), p)
<1>1. PICK int_end : int_end = Skip(p + 2, isxdigit)
  OBVIOUS
<1>2. /\ int_end \in Positions /\ p + 2 <= int_end
      /\ \A k \in (p + 2)..(int_end - 1) : text[k] \in isxdigit
  BY <1>1, SkipFacts, Classes
<1>3. PICK end : end = fraction_end(int_end, isxdigit)
  OBVIOUS
<1>4. end \in Positions /\ int_end <= end
  BY <1>2, <1>3, FractionFacts, Classes
<1>5. p <= int_end /\ p <= end
  BY <1>2, <1>4 DEF Positions
<1>6. \/ consume_hex(p) = NoNumber
      \/ consume_hex(p) = int_constant(int_end, strtoull(p + 2, int_end, 16))
      \/ consume_hex(p) = Bad(end, "no exponent")
      \/ text[end] \in is_hex_exp_char /\ consume_hex(p) = exponent_and_suffix(end + 1)
  BY <1>1, <1>3 DEF consume_hex
<1>7. Reaches(int_constant(int_end, strtoull(p + 2, int_end, 16)), p)
  <2>1. p + 2 \in Nat /\ int_end \in Nat
    BY <1>2 DEF Positions
  <2>2. strtoull(p + 2, int_end, 16) \in Nat
    BY <1>2, <2>1, StrtoullFacts
  <2> QED BY <1>2, <1>5, <2>2, ConstantReaches, ReachesEarlier
<1>8. Reaches(Bad(end, "no exponent"), p)
  BY <1>4, <1>5 DEF Bad, Numeric, Reaches, NumberTypes
<1>9. text[end] \in is_hex_exp_char => Reaches(exponent_and_suffix(end + 1), p)
  BY <1>4, <1>5, Classes, ExponentBehind
<1> QED BY <1>6, <1>7, <1>8, <1>9

\* A decimal or octal constant.
LEMMA DecReaches ==
    ASSUME Given, NEW p \in Positions
    PROVE  consume_dec_or_oct(p) = NoNumber \/ Reaches(consume_dec_or_oct(p), p)
<1>1. PICK int_end : int_end = Skip(p, isdigit)
  OBVIOUS
<1>2. /\ int_end \in Positions /\ p <= int_end
      /\ \A k \in p..(int_end - 1) : text[k] \in isdigit
  BY <1>1, SkipFacts, Classes
<1>3. PICK end : end = fraction_end(int_end, isdigit)
  OBVIOUS
<1>4. end \in Positions /\ int_end <= end
  BY <1>2, <1>3, FractionFacts, Classes
<1>5. p <= end
  BY <1>2, <1>4 DEF Positions
<1>6. PICK base : base = IF text[p] = Ord("0") THEN 8 ELSE 10
  OBVIOUS
<1>7. \/ consume_dec_or_oct(p) = NoNumber
      \/ consume_dec_or_oct(p) = Bad(int_end, "invalid octal digit")
      \/ consume_dec_or_oct(p) = int_constant(int_end, strtoull(p, int_end, base))
      \/ text[end] \in is_dec_exp_char /\ consume_dec_or_oct(p) = exponent_and_suffix(end + 1)
      \/ consume_dec_or_oct(p) = float_constant(end)
  BY <1>1, <1>3, <1>6 DEF consume_dec_or_oct
<1>8. Reaches(Bad(int_end, "invalid octal digit"), p)
  BY <1>2 DEF Bad, Numeric, Reaches, NumberTypes
<1>9. Reaches(int_constant(int_end, strtoull(p, int_end, base)), p)
  <2>1. p \in Nat /\ int_end \in Nat /\ base \in Nat
    BY <1>2, <1>6 DEF Positions
  <2>2. \A k \in p..(int_end - 1) : text[k] \in isxdigit
    BY <1>2 DEF isxdigit
  <2>3. strtoull(p, int_end, base) \in Nat
    BY <1>2, <2>1, <2>2, StrtoullFacts
  <2> QED BY <1>2, <2>3, ConstantReaches, ReachesEarlier
<1>10. text[end] \in is_dec_exp_char => Reaches(exponent_and_suffix(end + 1), p)
  BY <1>4, <1>5, Classes, ExponentBehind
<1>11. Reaches(float_constant(end), p)
  BY <1>4, <1>5, ConstantReaches, ReachesEarlier
<1> QED BY <1>7, <1>8, <1>9, <1>10, <1>11

\* A numeric constant that is one ends in the text.
LEMMA NumericFacts ==
    ASSUME Given, NEW p \in Positions, text[p] # NUL, numeric_constant(p) # NoNumber
    PROVE  Reaches(numeric_constant(p), p)
<1>1. CASE text[p] = Ord("0") /\ text[p + 1] \in Chars("xX")
  <2>1. p + 1 \in Positions
    BY NextPosition
  <2>2. (p + 1) + 1 \in Positions
    BY <1>1, <2>1, Classes, NextPosition
  <2>3. (p + 1) + 1 = p + 2
    BY DEF Positions
  <2>4. numeric_constant(p) = consume_hex(p)
    BY <1>1 DEF numeric_constant
  <2> QED BY <2>2, <2>3, <2>4, HexReaches
<1>2. CASE ~(text[p] = Ord("0") /\ text[p + 1] \in Chars("xX"))
  <2>1. numeric_constant(p) = consume_dec_or_oct(p)
    BY <1>2 DEF numeric_constant
  <2> QED BY <2>1, DecReaches
<1> QED BY <1>1, <1>2

\* The larger and the smaller of two numbers.
LEMMA PairFacts ==
    ASSUME NEW a \in Int, NEW b \in Int
    PROVE  /\ Max({a, b}) \in {a, b} /\ Max({a, b}) >= a /\ Max({a, b}) >= b
           /\ Min({a, b}) \in {a, b} /\ Min({a, b}) <= a /\ Min({a, b}) <= b
<1>1. \E x \in {a, b} : \A y \in {a, b} : x >= y
  OBVIOUS
<1>2. \E x \in {a, b} : \A y \in {a, b} : x <= y
  OBVIOUS
<1>3. Max({a, b}) \in {a, b} /\ \A y \in {a, b} : Max({a, b}) >= y
  BY <1>1 DEF Max
<1>4. Min({a, b}) \in {a, b} /\ \A y \in {a, b} : Min({a, b}) <= y
  BY <1>2 DEF Min
<1> QED BY <1>3, <1>4

\* An escape that ends behind p, its value and the alert it pushes.
Escapes(e, p) ==
    /\ e.end \in Nat /\ p <= e.end /\ e.val \in Nat
    /\ e.type \in {"", "ALERT_ERR", "ALERT_WARN"}

\* The digits of a hexadecimal escape, the last eight of which are its value.
LEMMA HexEscape ==
    ASSUME Given, NEW p \in Positions
    PROVE  Escapes(consume_hex_escape_sequence(p), p)
<1>1. PICK end : end = Skip(p, isxdigit)
  OBVIOUS
<1>2. end \in Positions /\ p <= end /\ \A k \in p..(end - 1) : text[k] \in isxdigit
  BY <1>1, SkipFacts, Classes
<1>3. p \in Nat /\ end \in Nat
  BY <1>2 DEF Positions
<1>4. PICK from : from = Max({p, end - 8})
  OBVIOUS
<1>5. from \in {p, end - 8} /\ from >= p
  <2>1. PICK low \in Int : low = end - 8
    BY <1>3
  <2>2. from \in {p, low} /\ from >= p
    <3>1. from = Max({p, low}) /\ p \in Int
      BY <1>3, <1>4, <2>1
    <3> QED BY <2>1, <3>1, PairFacts
  <2> QED BY <2>1, <2>2
<1>6. from \in Nat /\ from <= end /\ \A k \in from..(end - 1) : k \in p..(end - 1)
  BY <1>2, <1>3, <1>5
<1>7. PICK c : c = Number(from, end, 16)
  OBVIOUS
<1>8. c \in Nat
  BY <1>2, <1>3, <1>6, <1>7, NumberFacts
<1>9. \/ consume_hex_escape_sequence(p) = Escape(end, c, "ALERT_ERR", "no hex digits")
      \/ consume_hex_escape_sequence(p) = Escape(end, c, "ALERT_ERR", "hex escape out of range")
      \/ consume_hex_escape_sequence(p) = Escape(end, c, "", "")
  BY <1>1, <1>4, <1>7 DEF consume_hex_escape_sequence
<1>10. ASSUME NEW type \in {"", "ALERT_ERR"}, NEW msg PROVE Escapes(Escape(end, c, type, msg), p)
  BY <1>2, <1>3, <1>8 DEF Escape, Escapes
<1> QED BY <1>9, <1>10

\* The digits of an octal escape, at most four of them.
LEMMA OctEscape ==
    ASSUME Given, NEW p \in Positions
    PROVE  Escapes(consume_oct_escape_sequence(p), p)
<1>1. PICK stop : stop = Skip(p, isoctal)
  OBVIOUS
<1>2. stop \in Positions /\ p <= stop /\ \A k \in p..(stop - 1) : text[k] \in isoctal
  BY <1>1, SkipFacts, Classes
<1>3. p \in Nat /\ stop \in Nat
  BY <1>2 DEF Positions
<1>4. PICK end : end = Min({p + 4, stop})
  OBVIOUS
<1>5. end \in {p + 4, stop} /\ end <= stop
  BY <1>3, <1>4, PairFacts
<1>6. end \in Nat /\ p <= end /\ \A k \in p..(end - 1) : k \in p..(stop - 1)
  BY <1>2, <1>3, <1>5
<1>7. PICK c : c = Number(p, end, 8)
  OBVIOUS
<1>8. c \in Nat
  <2>1. \A k \in p..(end - 1) : text[k] \in isxdigit
    BY <1>2, <1>6 DEF isxdigit, isdigit, isoctal
  <2> QED BY <1>3, <1>6, <1>7, <2>1, NumberFacts
<1>9. \/ consume_oct_escape_sequence(p) = Escape(end, c, "ALERT_ERR", "octal escape out of range")
      \/ consume_oct_escape_sequence(p) = Escape(end, c, "", "")
  BY <1>1, <1>4, <1>7 DEF consume_oct_escape_sequence
<1>10. ASSUME NEW type \in {"", "ALERT_ERR"}, NEW msg PROVE Escapes(Escape(end, c, type, msg), p)
  BY <1>6, <1>8 DEF Escape, Escapes
<1> QED BY <1>9, <1>10

\* An escape of one character.
LEMMA CharEscape ==
    ASSUME Given, NEW p \in Positions
    PROVE  Escapes(get_escape_char(p), p)
<1>1. PICK c : c = text[p]
  OBVIOUS
<1>2. c \in Nat /\ p + 1 \in Nat /\ p <= p + 1
  <2>1. c \in 0..255
    BY <1>1, TextFacts
  <2>2. p \in Nat
    BY DEF Positions
  <2> QED BY <2>1, <2>2
<1>3. ASSUME c \in DOMAIN simple_escapes PROVE simple_escapes[c] \in Nat
  <2>1. simple_escapes[c] = CASE c = Ord("a") -> 7  [] c = Ord("b") -> 8  [] c = Ord("f") -> 12
          [] c = Ord("n") -> 10 [] c = Ord("r") -> 13 [] c = Ord("t") -> 9
          [] c = Ord("v") -> 11 [] c = Ord("e") -> 27 [] OTHER -> c
    BY <1>3 DEF simple_escapes
  <2> QED BY <1>2, <2>1
<1>4. ASSUME NEW val \in Nat, NEW type \in {"", "ALERT_WARN"}, NEW msg
      PROVE  Escapes(Escape(p + 1, val, type, msg), p)
  BY <1>2 DEF Escape, Escapes
<1>5. CASE c \in DOMAIN simple_escapes
  <2>1. get_escape_char(p) = Escape(p + 1, simple_escapes[c], "", "")
    BY <1>1, <1>5 DEF get_escape_char
  <2> QED BY <1>3, <1>4, <1>5, <2>1
<1>6. CASE c \notin DOMAIN simple_escapes
  <2>1. get_escape_char(p) = Escape(p + 1, sign_extended(c), "ALERT_WARN", "unknown escape")
    BY <1>1, <1>6 DEF get_escape_char
  <2>2. sign_extended(c) \in Nat
    BY <1>2, MaxAssumption DEF sign_extended
  <2> QED BY <1>4, <2>1, <2>2
<1> QED BY <1>5, <1>6

\* An escape goes on behind its backslash.
LEMMA EscapeFacts ==
    ASSUME Given, NEW p \in Positions
    PROVE  Escapes(consume_escape_sequence(p), p)
<1>1. CASE text[p] = Ord("x")
  <2>1. p + 1 \in Positions /\ p <= p + 1
    BY <1>1, Classes, NextPosition DEF Positions
  <2>2. PICK e : e = consume_hex_escape_sequence(p + 1)
    OBVIOUS
  <2>3. Escapes(e, p + 1)
    BY <2>1, <2>2, HexEscape
  <2>4. p \in Nat
    BY DEF Positions
  <2>5. e.end \in Nat /\ p + 1 <= e.end
    BY <2>3 DEF Escapes
  <2>6. p <= e.end
    BY <2>4, <2>5
  <2>7. Escapes(e, p)
    BY <2>3, <2>6 DEF Escapes
  <2> QED BY <1>1, <2>2, <2>7 DEF consume_escape_sequence
<1>2. CASE text[p] # Ord("x") /\ text[p] \in isoctal
  BY <1>2, OctEscape DEF consume_escape_sequence
<1>3. CASE text[p] # Ord("x") /\ text[p] \notin isoctal
  BY <1>3, CharEscape DEF consume_escape_sequence
<1> QED BY <1>1, <1>2, <1>3

-----------------------------------------------------------------------------
(* Arrays whose elements have a type.                                      *)

Typed(a, S) == IsArray(a) /\ a.buf \in Nat /\ a.items \in Seq(S)
Bounded(a) == a.capacity \in Nat \ {0} /\ Len(a.items) <= a.capacity

\* A block more that was freed leaves a heap.
LEMMA FreeTyped ==
    ASSUME NEW h \in Seq(Nat), NEW b
    PROVE  free(h, b) \in Seq(Nat)
<1>1. CASE b \in 1..Len(h)
  BY <1>1, FreeFacts
<1>2. CASE b \notin 1..Len(h)
  <2>1. DOMAIN h = 1..Len(h)
    OBVIOUS
  <2>2. free(h, b) = h
    BY <1>2, <2>1 DEF free
  <2> QED BY <2>2
<1> QED BY <1>1, <1>2

\* array_push_back keeps the type of the elements and the bound.
LEMMA PushTyped ==
    ASSUME NEW S, NEW a, Typed(a, S), NEW x \in S, NEW h \in Seq(Nat)
    PROVE  /\ Typed(array_push_back(a, x, h).arr, S)
           /\ array_push_back(a, x, h).arr.items = Append(a.items, x)
           /\ array_push_back(a, x, h).heap \in Seq(Nat)
<1> PICK items : items = Append(a.items, x)
  OBVIOUS
<1>1. IsArray(a) /\ a.buf \in Nat /\ a.items \in Seq(S)
  BY DEF Typed
<1>2. items \in Seq(S)
  BY <1>1
<1>3. IsList(items)
  BY <1>2 DEF IsList
<1>4. CASE at_capacity(a)
  <2>1. /\ array_push_back(a, x, h).arr
               = [buf |-> Len(h) + 1, items |-> items, capacity |-> 2 * a.capacity]
        /\ array_push_back(a, x, h).heap = free(malloc(h), a.buf)
    BY <1>4 DEF array_push_back
  <2>2. malloc(h) \in Seq(Nat) /\ Len(h) + 1 \in Nat
    BY MallocFacts
  <2>3. free(malloc(h), a.buf) \in Seq(Nat)
    BY <2>2, FreeTyped
  <2> QED BY <1>2, <1>3, <2>1, <2>2, <2>3 DEF Typed, IsArray
<1>5. CASE ~ at_capacity(a)
  <2>1. /\ array_push_back(a, x, h).arr = [a EXCEPT !.items = items]
        /\ array_push_back(a, x, h).heap = h
    BY <1>5 DEF array_push_back
  <2>2. array_push_back(a, x, h).arr = [buf |-> a.buf, items |-> items, capacity |-> a.capacity]
    BY <1>1, <2>1 DEF IsArray
  <2> QED BY <1>1, <1>2, <1>3, <2>1, <2>2 DEF Typed, IsArray
<1> QED BY <1>4, <1>5

\* An array is never fuller than its buffer.
LEMMA PushBounded ==
    ASSUME NEW a, IsArray(a), Bounded(a), NEW x, NEW h
    PROVE  Bounded(array_push_back(a, x, h).arr)
<1> PICK items, n, c : items = Append(a.items, x) /\ n = Len(a.items) /\ c = a.capacity
  OBVIOUS
<1>1. IsList(a.items) /\ n \in Nat /\ c \in Nat \ {0} /\ n <= c
  BY DEF IsArray, Bounded, IsList
<1>2. Len(items) = n + 1
  BY <1>1, AppendFacts
<1>3. CASE at_capacity(a)
  <2>1. array_push_back(a, x, h).arr = [buf |-> Len(h) + 1, items |-> items, capacity |-> 2 * c]
    BY <1>3 DEF array_push_back
  <2>2. 2 * c \in Nat \ {0} /\ n + 1 <= 2 * c
    BY <1>1
  <2> QED BY <1>2, <2>1, <2>2 DEF Bounded
<1>4. CASE ~ at_capacity(a)
  <2>1. array_push_back(a, x, h).arr = [a EXCEPT !.items = items]
    BY <1>4 DEF array_push_back
  <2>2. array_push_back(a, x, h).arr = [buf |-> a.buf, items |-> items, capacity |-> c]
    BY <2>1 DEF IsArray
  <2>3. ~(n >= c)
    BY <1>4 DEF at_capacity
  <2>4. n + 1 <= c
    BY <1>1, <2>3
  <2> QED BY <1>1, <1>2, <2>2, <2>4 DEF Bounded
<1> QED BY <1>3, <1>4

\* A code point in units of 16 and of 32 bits.
LEMMA EncodeTyped ==
    ASSUME NEW a, Typed(a, Nat), NEW c \in Nat, NEW h \in Seq(Nat)
    PROVE  Typed(encode_utf16(c, a, h).arr, Nat) /\ Typed(encode_utf32(c, a, h).arr, Nat)
<1>1. Typed(array_push_back(a, c, h).arr, Nat)
  BY PushTyped
<1>2. CASE c <= 65535
  BY <1>1, <1>2 DEF encode_utf16, encode_utf32
<1>3. CASE ~(c <= 65535)
  <2>1. PICK high, low : /\ high = (((c - 65536) \div 1024) % 1024) + 55296
                         /\ low = ((c - 65536) % 1024) + 56320
    OBVIOUS
  <2>2. high \in Nat /\ low \in Nat
    <3>1. c - 65536 \in Nat
      BY <1>3
    <3>2. PICK d \in Nat : d = (c - 65536) \div 1024
      BY <3>1
    <3> QED BY <2>1, <3>1, <3>2
  <2>3. PICK p : p = array_push_back(a, high, h)
    OBVIOUS
  <2>4. Typed(p.arr, Nat) /\ p.heap \in Seq(Nat)
    BY <2>2, <2>3, PushTyped
  <2>5. PICK b, g : b = p.arr /\ g = p.heap
    OBVIOUS
  <2>6. Typed(array_push_back(b, low, g).arr, Nat)
    BY <2>2, <2>4, <2>5, PushTyped
  <2>7. encode_utf16(c, a, h) = array_push_back(b, low, g)
    BY <1>3, <2>1, <2>3, <2>5 DEF encode_utf16
  <2> QED BY <1>1, <2>6, <2>7 DEF encode_utf32
<1> QED BY <1>2, <1>3

AlertTypes == {"ALERT_WARN", "ALERT_ERR"}

\* Alerts of the two types, in a queue that is not fuller than its buffer.
AlertsTyped(q) ==
    /\ Bounded(q)
    /\ \A k \in 1..Len(q.items) : q.items[k].alert_type \in AlertTypes

\* The last alert of a queue is an error.
Failing(q) == Len(q.items) \in Nat \ {0} /\ q.items[Len(q.items)].alert_type = "ALERT_ERR"

\* An alert more of a type.
LEMMA AlertTyped ==
    ASSUME IsArray(queue), AlertsTyped(queue), NEW type \in AlertTypes, NEW tk, NEW msg, NEW h
    PROVE  /\ AlertsTyped(alert_queue_push(type, tk, msg, h).queue)
           /\ type = "ALERT_ERR" => Failing(alert_queue_push(type, tk, msg, h).queue)
<1> PICK alert : alert = [alert_type |-> type, tok |-> tk, alert_msg |-> Len(h) + 1, msg |-> msg]
  OBVIOUS
<1> PICK g : g = malloc(h)
  OBVIOUS
<1> PICK q : q = array_push_back(queue, alert, g).arr
  OBVIOUS
<1> PICK n : n = Len(queue.items)
  OBVIOUS
<1>1. alert_queue_push(type, tk, msg, h).queue = q
  BY DEF alert_queue_push
<1>2. IsList(queue.items) /\ n \in Nat
  BY DEF IsArray, IsList
<1>3. Bounded(q)
  BY PushBounded DEF AlertsTyped
<1>4. q.items = Append(queue.items, alert)
  <2>1. CASE at_capacity(queue)
    BY <2>1 DEF array_push_back
  <2>2. CASE ~ at_capacity(queue)
    <3>1. queue = [buf |-> queue.buf, items |-> queue.items, capacity |-> queue.capacity]
      BY DEF IsArray
    <3> QED BY <2>2, <3>1 DEF array_push_back
  <2> QED BY <2>1, <2>2
<1>5. /\ Len(q.items) = n + 1 /\ q.items[n + 1] = alert
      /\ \A k \in 1..n : q.items[k] = queue.items[k]
  BY <1>2, <1>4, AppendFacts
<1>6. alert.alert_type = type
  OBVIOUS
<1>7. ASSUME NEW k \in 1..Len(q.items) PROVE q.items[k].alert_type \in AlertTypes
  <2>1. CASE k = n + 1
    BY <1>5, <1>6, <2>1
  <2>2. CASE k \in 1..n
    <3>1. q.items[k] = queue.items[k] /\ queue.items[k].alert_type \in AlertTypes
      BY <1>5, <2>2 DEF AlertsTyped
    <3> QED BY <3>1
  <2> QED BY <1>2, <1>5, <2>1, <2>2
<1>8. AlertsTyped(q)
  BY <1>3, <1>7 DEF AlertsTyped
<1>9. ASSUME type = "ALERT_ERR" PROVE Failing(q)
  <2>1. q.items[Len(q.items)].alert_type = "ALERT_ERR" /\ Len(q.items) \in Nat \ {0}
    BY <1>2, <1>5, <1>6, <1>9
  <2> QED BY <2>1 DEF Failing
<1> QED BY <1>1, <1>8, <1>9

-----------------------------------------------------------------------------
(* The types of a state.                                                   *)

Bodies == {"char_body", "wide", "wide_close", "wide_rest", "str_body"}
Widths == {CW_UTF8, CW_UTF16, CW_UTF32}
Last == tokens.items[Len(tokens.items)]

\* lexer->cur stays in the text, between whatever the alerts say.
Placed == cur \in Positions /\ line \in 1..cur /\ line_num \in Nat \ {0} /\ col_num \in Nat \ {0}

\* A token begins at a character that is neither a space nor the end.
Starting == pc \in Open \cup {"report"} => text[cur] \notin isspace \cup {NUL}

\* A body of a literal is read from the beginning of the token on.
LiteralTyped ==
    /\ s \in Nat \ {0} /\ width \in Widths /\ i \in Nat \ {0}
    /\ Typed(arr, Nat)
    /\ pc \in Bodies => cur <= s
    /\ pc = "wide_rest" => s \in Positions
    /\ pc \in {"wide_close", "wide_rest"} => Len(arr.items) >= 1

\* Behind the alerts lex goes on where the token ends, or an error ends the run.
Settled ==
    pc = "report" => \/ Last.loc = cur /\ cur + Last.size \in Positions
                     \/ \E k \in i..Len(queue.items) : queue.items[k].alert_type = "ALERT_ERR"

\* The inductive invariant of the types, beside the register of the blocks.
TInv ==
    /\ Given /\ Placed /\ Starting /\ LiteralTyped /\ Settled
    /\ Typed(tokens, Token) /\ Bounded(tokens)
    /\ AlertsTyped(queue)

\* A step inside a token that leaves the tokens alone.
Moves ==
    /\ pc \in Open /\ pc' \in Open \cup Stopped
    /\ UNCHANGED <<text, cur, line, line_num, col_num, tokens, i, printed>>
    /\ LiteralTyped' /\ AlertsTyped(queue')

\* A step that makes t of the token in the making, which goes to the alerts then.
Ends(t) ==
    /\ pc \in Open /\ pc' = "report" /\ i' = 1 /\ s' \in Nat \ {0}
    /\ UNCHANGED <<text, cur, line, line_num, col_num, width, arr, printed>>
    /\ Replacing(t) /\ t \in Token /\ AlertsTyped(queue')
    /\ t.line = Last.line /\ t.line_num = Last.line_num /\ t.col_num = Last.col_num
    /\ \/ t.loc = cur /\ cur + t.size \in Positions
       \/ t.loc = Last.loc /\ Failing(queue')

Stays == Moves \/ \E t : Ends(t)

\* The token in the making is one of the tokens.
LEMMA LastFacts ==
    ASSUME IInv, TInv, pc \in Open
    PROVE  Len(tokens.items) \in Nat \ {0} /\ Last \in Token
<1>1. tokens.items \in Seq(Token)
  BY DEF TInv, Typed
<1>2. Len(tokens.items) >= 1
  BY DEF IInv, Labelled
<1>3. ASSUME NEW S, NEW q \in Seq(S), Len(q) >= 1 PROVE q[Len(q)] \in S
  BY <1>3
<1> QED BY <1>1, <1>2, <1>3 DEF Last

\* The queue with an alert more, or none.
LEMMA QueueTyped ==
    ASSUME IInv, TInv
    PROVE  /\ Quiet => AlertsTyped(queue') /\ printed' = printed
           /\ \A type \in AlertTypes : \A msg : Push(type, msg) =>
                  AlertsTyped(queue') /\ printed' = printed /\ (type = "ALERT_ERR" => Failing(queue'))
           /\ \A e : e.type \in {""} \cup AlertTypes => AlertsTyped(alerted(e).queue)
<1>1. IsArray(queue) /\ AlertsTyped(queue)
  BY DEF IInv, Shaped, TInv
<1>2. Quiet => AlertsTyped(queue') /\ printed' = printed
  BY <1>1 DEF Quiet, alertVars
<1>3. ASSUME NEW type \in AlertTypes, NEW msg, Push(type, msg)
      PROVE  AlertsTyped(queue') /\ printed' = printed /\ (type = "ALERT_ERR" => Failing(queue'))
  <2>1. queue' = alert_queue_push(type, tok, msg, heap).queue /\ printed' = printed
    BY <1>3 DEF Push
  <2> QED BY <1>1, <2>1, AlertTyped
<1>4. ASSUME NEW e, e.type \in {""} \cup AlertTypes PROVE AlertsTyped(alerted(e).queue)
  <2>1. CASE e.type = ""
    BY <1>1, <2>1 DEF alerted
  <2>2. CASE e.type # ""
    <3>1. alerted(e).queue = alert_queue_push(e.type, tok, e.msg, heap).queue /\ e.type \in AlertTypes
      BY <1>4, <2>2 DEF alerted
    <3> QED BY <1>1, <3>1, AlertTyped
  <2> QED BY <2>1, <2>2
<1> QED BY <1>2, <1>3, <1>4

AllTypes == {"TK_UNKNOWN", "TK_KEYWRD", "TK_IDENT", "TK_ICONST", "TK_FCONST", "TK_STRLIT",
               "TK_PUNCT", "TK_EOF"}

\* A token that a sub-lexer accepts, up to a position of the text.
LEMMA SetEnds ==
    ASSUME IInv, TInv, pc \in Open,
           NEW type \in AllTypes, NEW int_val \in Nat, NEW str_val \in Nat,
           NEW chars \in Seq(Nat), NEW end \in Positions, cur <= end,
           SetToken(type, int_val, str_val, chars, end),
           AlertsTyped(queue'), printed' = printed
    PROVE  Stays
<1> PICK old : old = Last
  OBVIOUS
<1>1. old \in Token
  BY LastFacts
<1>2. cur \in Nat /\ end \in Nat \ {0}
  BY DEF TInv, Placed, Positions
<1>3. PICK size : size = end - cur
  OBVIOUS
<1>4. PICK t : t = [old EXCEPT !.token_type = type, !.int_val = int_val, !.str_val = str_val,
                               !.chars = chars, !.loc = cur, !.size = size]
  OBVIOUS
<1>5. t \in Token
  <2>1. size \in Nat /\ cur \in Nat /\ type \in AllTypes
    BY <1>2, <1>3
  <2> QED BY <1>1, <1>4, <2>1 DEF Token, AllTypes
<1>6. /\ t.line = old.line /\ t.line_num = old.line_num /\ t.col_num = old.col_num
      /\ t.loc = cur /\ t.size = end - cur
  BY <1>1, <1>3, <1>4 DEF Token
<1>7. cur + t.size = end
  BY <1>2, <1>6
<1>8. Replacing(t)
  <2>1. old = tokens.items[Len(tokens.items)]
    BY DEF Last
  <2>2. t = [tokens.items[Len(tokens.items)] EXCEPT
                !.token_type = type, !.int_val = int_val, !.str_val = str_val,
                !.chars = chars, !.loc = cur, !.size = end - cur]
    BY <1>3, <1>4, <2>1
  <2> QED BY <2>2 DEF SetToken, Replacing
<1>9. /\ pc' = "report" /\ i' = 1 /\ s' \in Nat \ {0}
      /\ UNCHANGED <<text, cur, line, line_num, col_num, width, arr>>
  BY <1>2 DEF SetToken
<1>10. Ends(t)
  BY <1>5, <1>6, <1>7, <1>8, <1>9 DEF Ends
<1> QED BY <1>10 DEF Stays

\* On to another sub-lexer.
LEMMA GotoMoves ==
    ASSUME IInv, TInv, pc \in Open, NEW label \in Open \cup Stopped, Goto(label),
           label = "wide_rest" => s \in Positions /\ cur <= s /\ Len(arr.items) >= 1,
           label \in Bodies => label = "wide_rest",
           AlertsTyped(queue'), printed' = printed
    PROVE  Stays
<1>1. pc' = label /\ UNCHANGED <<text, cur, line, line_num, col_num, tokens, s, width, arr, i>>
  BY DEF Goto
<1>2. Positions' = Positions
  BY <1>1 DEF Positions
<1>3. /\ s' \in Nat \ {0} /\ width' \in Widths /\ i' \in Nat \ {0} /\ Typed(arr', Nat)
  BY <1>1 DEF TInv, LiteralTyped
<1>4. /\ pc' \in Bodies => cur' <= s'
      /\ pc' = "wide_rest" => s' \in Positions'
      /\ pc' \in {"wide_close", "wide_rest"} => Len(arr'.items) >= 1
  BY <1>1, <1>2 DEF Bodies
<1>5. LiteralTyped'
  BY <1>3, <1>4 DEF LiteralTyped
<1> QED BY <1>1, <1>5 DEF Moves, Stays

\* Into a literal, or on inside it.
LEMMA BodyMoves ==
    ASSUME IInv, TInv, pc \in Open, pc' \in Bodies \ {"wide_rest"},
           UNCHANGED <<text, cur, line, line_num, col_num, tokens, i, printed>>,
           s' \in Nat, cur <= s', width' \in Widths, Typed(arr', Nat),
           pc' = "wide_close" => Len(arr'.items) >= 1,
           AlertsTyped(queue')
    PROVE  Stays
<1>1. s' \in Nat \ {0} /\ i' \in Nat \ {0}
  BY DEF TInv, LiteralTyped, Placed, Positions
<1>2. /\ pc' \in Bodies => cur' <= s'
      /\ pc' = "wide_rest" => s' \in Positions'
      /\ pc' \in {"wide_close", "wide_rest"} => Len(arr'.items) >= 1
  OBVIOUS
<1>3. LiteralTyped'
  BY <1>1, <1>2 DEF LiteralTyped
<1>4. pc' \in Open
  BY DEF Bodies, Open
<1> QED BY <1>3, <1>4 DEF Moves, Stays

\* Where lex is inside a token.
LEMMA OpenFacts ==
    ASSUME TInv, pc \in Open
    PROVE  /\ Given /\ cur \in Positions /\ text[cur] # NUL /\ cur + 1 \in Positions
           /\ s \in Nat /\ width \in Widths /\ Typed(arr, Nat)
           /\ pc \in Bodies => cur <= s
<1>1. Given /\ cur \in Positions /\ text[cur] # NUL
  BY DEF TInv, Placed, Starting
<1>2. cur + 1 \in Positions
  BY <1>1, NextPosition
<1> QED BY <1>1, <1>2 DEF TInv, LiteralTyped

\* An array that is empty yet.
LEMMA InitTyped == \A b \in Nat : \A S : Typed(array_init(b), S)
BY DEF Typed, array_init, IsArray, IsList

\* The step of a sub-lexer that has not entered a literal.
LEMMA SubLexerStays ==
    ASSUME IInv, TInv, SubLexer
    PROVE  Stays
<1>0. <<>> \in Seq(Nat) /\ 0 \in Nat
  OBVIOUS
<1>1. CASE lex_numeric_constant
  <2>1. pc = "numeric" /\ pc \in Open
    BY <1>1 DEF lex_numeric_constant, Open
  <2>2. CASE numeric_constant(cur) = NoNumber
    <3>1. Goto("char") /\ Quiet
      BY <1>1, <2>2 DEF lex_numeric_constant
    <3>2. "char" \in Open \cup Stopped /\ "char" \notin Bodies
      BY DEF Open, Bodies
    <3> QED BY <2>1, <3>1, <3>2, QueueTyped, GotoMoves
  <2>3. CASE numeric_constant(cur) # NoNumber
    <3>1. PICK n : n = numeric_constant(cur)
      OBVIOUS
    <3>2. Reaches(n, cur)
      BY <2>1, <2>3, <3>1, OpenFacts, NumericFacts
    <3>3. SetToken(n.type, n.val, 0, <<>>, n.end) /\ (Quiet \/ Push("ALERT_ERR", n.error))
      BY <1>1, <2>3, <3>1 DEF lex_numeric_constant
    <3>4. AlertsTyped(queue') /\ printed' = printed
      BY <3>3, QueueTyped DEF AlertTypes
    <3>5. PICK type, val, end : type = n.type /\ val = n.val /\ end = n.end
      OBVIOUS
    <3>6. type \in AllTypes /\ val \in Nat /\ end \in Positions /\ cur <= end
      BY <3>2, <3>5 DEF Reaches, NumberTypes, AllTypes
    <3>7. SetToken(type, val, 0, <<>>, end)
      BY <3>3, <3>5
    <3> QED BY <1>0, <2>1, <3>4, <3>6, <3>7, SetEnds
  <2> QED BY <2>2, <2>3
<1>2. CASE lex_char_literal
  <2>1. pc = "char" /\ pc \in Open
    BY <1>2 DEF lex_char_literal, Open
  <2>2. cur \in Positions /\ text[cur] # NUL /\ cur + 1 \in Positions /\ Given
    BY <2>1, OpenFacts
  <2>3. PICK body : body = IF text[cur] \in Chars("LuU") /\ text[cur + 1] = QUOTE
                           THEN cur + 2 ELSE cur + 1
    OBVIOUS
  <2>4. body \in Positions /\ cur <= body
    <3>1. CASE text[cur] \in Chars("LuU") /\ text[cur + 1] = QUOTE
      <4>1. (cur + 1) + 1 \in Positions
        BY <2>2, <3>1, Classes, NextPosition
      <4> QED BY <2>2, <2>3, <3>1, <4>1 DEF Positions
    <3>2. CASE ~(text[cur] \in Chars("LuU") /\ text[cur + 1] = QUOTE)
      <4>1. body = cur + 1
        BY <2>3, <3>2
      <4> QED BY <2>2, <4>1 DEF Positions
    <3> QED BY <3>1, <3>2
  <2>5. \/ Goto("string") /\ Quiet
        \/ /\ text[body] = QUOTE
           /\ SetToken("TK_ICONST", 0, 0, <<>>, body + 1)
           /\ Push("ALERT_ERR", "empty character literal")
        \/ /\ \E w \in Widths : \/ Enter("wide", body, w, array_init(0))
                                \/ Enter("char_body", body, w, array_init(0))
           /\ Quiet
    BY <1>2, <2>3 DEF lex_char_literal, Widths
  <2>6. CASE Goto("string") /\ Quiet
    <3>1. "string" \in Open \cup Stopped /\ "string" \notin Bodies
      BY DEF Open, Bodies
    <3> QED BY <2>1, <2>6, <3>1, QueueTyped, GotoMoves
  <2>7. CASE /\ text[body] = QUOTE
             /\ SetToken("TK_ICONST", 0, 0, <<>>, body + 1)
             /\ Push("ALERT_ERR", "empty character literal")
    <3>1. body + 1 \in Positions /\ cur <= body + 1
      <4>1. body + 1 \in Positions
        BY <2>2, <2>4, <2>7, Classes, NextPosition
      <4> QED BY <2>2, <2>4, <4>1 DEF Positions
    <3>2. AlertsTyped(queue') /\ printed' = printed
      BY <2>7, QueueTyped DEF AlertTypes
    <3>3. "TK_ICONST" \in AllTypes
      BY DEF AllTypes
    <3> QED BY <1>0, <2>1, <2>7, <3>1, <3>2, <3>3, SetEnds
  <2>8. ASSUME NEW w \in Widths, Quiet,
               Enter("wide", body, w, array_init(0)) \/ Enter("char_body", body, w, array_init(0))
        PROVE  Stays
    <3>1. /\ pc' \in Bodies \ {"wide_rest"} /\ pc' # "wide_close"
          /\ UNCHANGED <<text, cur, line, line_num, col_num, tokens, i>>
          /\ s' = body /\ width' \in Widths /\ arr' = array_init(0)
      BY <2>8 DEF Enter, Bodies
    <3>2. Typed(arr', Nat)
      BY <1>0, <3>1, InitTyped
    <3>3. AlertsTyped(queue') /\ printed' = printed
      BY <2>8, QueueTyped
    <3>4. s' \in Nat /\ cur <= s'
      BY <2>4, <3>1 DEF Positions
    <3> QED BY <2>1, <3>1, <3>2, <3>3, <3>4, BodyMoves
  <2> QED BY <2>5, <2>6, <2>7, <2>8
<1>3. CASE lex_string_literal
  <2>1. pc = "string" /\ pc \in Open
    BY <1>3 DEF lex_string_literal, Open
  <2>2. PICK n, w : n = prefix.len /\ w = prefix.width
    OBVIOUS
  <2>3. n \in 0..2 /\ w \in Widths
    BY <2>2 DEF prefix, Widths
  <2>4. \/ Goto("identifier") /\ Quiet
        \/ /\ Enter("str_body", cur + n + 1, w, array_init(Len(heap) + 1))
           /\ UNCHANGED <<queue, printed>>
    BY <1>3, <2>2 DEF lex_string_literal
  <2>5. CASE Goto("identifier") /\ Quiet
    <3>1. "identifier" \in Open \cup Stopped /\ "identifier" \notin Bodies
      BY DEF Open, Bodies
    <3> QED BY <2>1, <2>5, <3>1, QueueTyped, GotoMoves
  <2>6. CASE /\ Enter("str_body", cur + n + 1, w, array_init(Len(heap) + 1))
             /\ UNCHANGED <<queue, printed>>
    <3>1. /\ pc' \in Bodies \ {"wide_rest"} /\ pc' # "wide_close"
          /\ UNCHANGED <<text, cur, line, line_num, col_num, tokens, i, printed>>
          /\ s' = cur + n + 1 /\ width' \in Widths /\ arr' = array_init(Len(heap) + 1)
      BY <2>3, <2>6 DEF Enter, Bodies
    <3>2. Typed(arr', Nat)
      <4>1. heap \in Seq(Nat)
        BY DEF IInv, Registered
      <4>2. Len(heap) + 1 \in Nat
        BY <4>1
      <4> QED BY <3>1, <4>2, InitTyped
    <3>3. AlertsTyped(queue')
      BY <2>6 DEF TInv
    <3>4. s' \in Nat /\ cur <= s'
      <4>1. cur \in Nat
        BY <2>1, OpenFacts DEF Positions
      <4> QED BY <2>3, <3>1, <4>1
    <3> QED BY <2>1, <3>1, <3>2, <3>3, <3>4, BodyMoves
  <2> QED BY <2>4, <2>5, <2>6
<1>4. CASE lex_identifier
  <2>1. pc = "identifier" /\ pc \in Open /\ Quiet
    BY <1>4 DEF lex_identifier, Open
  <2>2. AlertsTyped(queue') /\ printed' = printed
    BY <2>1, QueueTyped
  <2>3. PICK end : end = Skip(cur, is_word_char)
    OBVIOUS
  <2>4. end \in Positions /\ cur <= end
    BY <2>1, <2>3, OpenFacts, SkipFacts, Classes
  <2>5. \/ Goto("punctuator")
        \/ SetToken("TK_KEYWRD", 0, 0, <<>>, end)
        \/ SetToken("TK_IDENT", 0, 0, <<>>, end)
    BY <1>4, <2>3 DEF lex_identifier
  <2>6. "TK_KEYWRD" \in AllTypes /\ "TK_IDENT" \in AllTypes
    BY DEF AllTypes
  <2>7. CASE Goto("punctuator")
    <3>1. "punctuator" \in Open \cup Stopped /\ "punctuator" \notin Bodies
      BY DEF Open, Bodies
    <3> QED BY <2>1, <2>2, <2>7, <3>1, GotoMoves
  <2>8. CASE SetToken("TK_KEYWRD", 0, 0, <<>>, end)
    BY <1>0, <2>1, <2>2, <2>4, <2>6, <2>8, SetEnds
  <2>9. CASE SetToken("TK_IDENT", 0, 0, <<>>, end)
    BY <1>0, <2>1, <2>2, <2>4, <2>6, <2>9, SetEnds
  <2> QED BY <2>5, <2>7, <2>8, <2>9
<1>5. CASE lex_punctuator
  <2>1. pc = "punctuator" /\ pc \in Open
    BY <1>5 DEF lex_punctuator, Open
  <2>2. PICK len : len = IF text[cur] \in ispunct THEN first_match(PUNCTUATORS, cur) ELSE 0
    OBVIOUS
  <2>3. cur + len \in Positions /\ cur <= cur + len
    <3>1. CASE text[cur] \in ispunct
      <4>1. len = first_match(PUNCTUATORS, cur)
        BY <2>2, <3>1
      <4>2. len \in Nat /\ cur + len \in Positions
        <5>1. PUNCTUATORS \in Seq(Seq(1..255))
          BY LiteralsAssumption
        <5> QED BY <2>1, <4>1, <5>1, OpenFacts, FirstMatch
      <4>3. cur \in Nat
        BY <2>1, OpenFacts DEF Positions
      <4> QED BY <4>2, <4>3
    <3>2. CASE text[cur] \notin ispunct
      <4>1. len = 0 /\ cur \in Positions
        BY <2>1, <2>2, <3>2, OpenFacts
      <4> QED BY <4>1 DEF Positions
    <3> QED BY <3>1, <3>2
  <2>4. \/ SetToken("TK_PUNCT", 0, 0, <<>>, cur + len) /\ Quiet
        \/ /\ tokens' = [tokens EXCEPT !.items[Len(tokens.items)].size = 1]
           /\ pc' = "report" /\ i' = 1
           /\ Push("ALERT_ERR", "unexpected token")
           /\ UNCHANGED <<text, cur, line, line_num, col_num, s, width, arr>>
    BY <1>5, <2>2 DEF lex_punctuator
  <2>5. CASE SetToken("TK_PUNCT", 0, 0, <<>>, cur + len) /\ Quiet
    <3>1. "TK_PUNCT" \in AllTypes
      BY DEF AllTypes
    <3> QED BY <1>0, <2>1, <2>3, <2>5, <3>1, QueueTyped, SetEnds
  <2>6. CASE /\ tokens' = [tokens EXCEPT !.items[Len(tokens.items)].size = 1]
             /\ pc' = "report" /\ i' = 1
             /\ Push("ALERT_ERR", "unexpected token")
             /\ UNCHANGED <<text, cur, line, line_num, col_num, s, width, arr>>
    <3>1. Last \in Token
      BY <2>1, LastFacts
    <3>2. PICK old : old = Last
      OBVIOUS
    <3>3. PICK t : t = [old EXCEPT !.size = 1]
      OBVIOUS
    <3>4. t \in Token
      BY <3>1, <3>2, <3>3 DEF Token
    <3>5. /\ t.line = old.line /\ t.line_num = old.line_num /\ t.col_num = old.col_num
          /\ t.loc = old.loc
      BY <3>1, <3>2, <3>3 DEF Token
    <3>6. Replacing(t)
      <4>1. t = [tokens.items[Len(tokens.items)] EXCEPT !.size = 1]
        BY <3>2, <3>3 DEF Last
      <4> QED BY <2>6, <4>1 DEF Replacing
    <3>7. AlertsTyped(queue') /\ printed' = printed /\ Failing(queue')
      BY <2>6, QueueTyped DEF AlertTypes
    <3>8. s' \in Nat \ {0}
      BY <2>6 DEF TInv, LiteralTyped
    <3>9. Ends(t)
      BY <2>1, <2>6, <3>2, <3>4, <3>5, <3>6, <3>7, <3>8 DEF Ends
    <3> QED BY <3>9 DEF Stays
  <2> QED BY <2>4, <2>5, <2>6
<1> QED BY <1>1, <1>2, <1>3, <1>4, <1>5 DEF SubLexer

\* The heap behind the alert of an escape.
LEMMA AlertedHeap ==
    ASSUME heap \in Seq(Nat), NEW e
    PROVE  alerted(e).heap \in Seq(Nat)
<1>1. CASE e.type = ""
  BY <1>1 DEF alerted
<1>2. CASE e.type # ""
  <2>1. malloc(heap) \in Seq(Nat)
    BY MallocFacts
  <2>2. malloc(malloc(heap)) \in Seq(Nat)
    BY <2>1, MallocFacts
  <2>3. free(malloc(malloc(heap)), queue.buf) \in Seq(Nat)
    BY <2>2, FreeTyped
  <2>4. \/ alerted(e).heap = malloc(heap)
        \/ alerted(e).heap = free(malloc(malloc(heap)), queue.buf)
    BY <1>2 DEF alerted, alert_queue_push, array_push_back
  <2> QED BY <2>1, <2>3, <2>4
<1> QED BY <1>1, <1>2

\* A literal that is read at s, a position of the text.
LEMMA BodyFacts ==
    ASSUME IInv, TInv, pc \in Bodies, in_text
    PROVE  /\ pc \in Open /\ Given /\ s \in Positions /\ cur <= s /\ cur \in Nat
           /\ text[s] # NUL => s + 1 \in Positions /\ cur <= s + 1
           /\ text[s] \in 0..255
           /\ width \in Widths /\ Typed(arr, Nat) /\ arr.items \in Seq(Nat) /\ arr.buf \in Nat
           /\ heap \in Seq(Nat)
<1>1. pc \in Open /\ pc \notin Stopped
  BY DEF Bodies, Open, Stopped
<1>2. /\ Given /\ s \in Nat \ {0} /\ cur <= s /\ cur \in Nat
      /\ width \in Widths /\ Typed(arr, Nat)
  BY DEF TInv, LiteralTyped, Placed, Positions
<1>3. s \in Positions
  BY <1>2, TextFacts DEF in_text, Positions
<1>4. text[s] # NUL => s + 1 \in Positions
  BY <1>2, <1>3, NextPosition
<1>5. text[s] \in 0..255
  BY <1>2, <1>3, TextFacts
<1>6. heap \in Seq(Nat)
  BY <1>1 DEF IInv, Registered
<1> QED BY <1>1, <1>2, <1>3, <1>4, <1>5, <1>6 DEF Typed

\* A unit of any width.
LEMMA UnitTyped == \A c \in Nat : unit(c) \in Nat
BY DEF unit

\* An escape inside a literal.
LEMMA InsideEscape ==
    ASSUME IInv, TInv, pc \in Bodies, in_text, text[s] = BACKSLASH
    PROVE  /\ escape.end \in Nat /\ cur <= escape.end /\ escape.val \in Nat
           /\ AlertsTyped(alerted(escape).queue)
           /\ alerted(escape).heap \in Seq(Nat)
<1>0. PICK e : e = escape
  OBVIOUS
<1>1. /\ s + 1 \in Positions /\ cur <= s + 1 /\ Given /\ cur \in Nat /\ s \in Positions
      /\ heap \in Seq(Nat)
  BY BodyFacts, Classes
<1>2. Escapes(e, s + 1)
  BY <1>0, <1>1, EscapeFacts DEF escape
<1>3. e.end \in Nat /\ s + 1 <= e.end /\ e.val \in Nat /\ e.type \in {"", "ALERT_ERR", "ALERT_WARN"}
  BY <1>2 DEF Escapes
<1>4. cur <= e.end
  <2>1. PICK fin \in Nat : fin = e.end
    BY <1>3
  <2>2. s \in Nat
    BY <1>1 DEF Positions
  <2>3. s + 1 <= fin
    BY <1>3, <2>1
  <2>4. cur \in Nat /\ cur <= s + 1
    BY <1>1
  <2>5. cur <= fin
    BY <2>2, <2>3, <2>4
  <2> QED BY <2>1, <2>5
<1>5. AlertsTyped(alerted(e).queue)
  BY <1>3, QueueTyped DEF AlertTypes
<1>6. alerted(e).heap \in Seq(Nat)
  BY <1>1, AlertedHeap
<1> QED BY <1>0, <1>3, <1>4, <1>5, <1>6

\* An element more of an array that keeps its buffer.
LEMMA ItemsTyped ==
    ASSUME NEW a, Typed(a, Nat), NEW x \in Nat
    PROVE  Typed([a EXCEPT !.items = Append(@, x)], Nat) /\ Typed([a EXCEPT !.items = <<x>>], Nat)
<1>1. a = [buf |-> a.buf, items |-> a.items, capacity |-> a.capacity]
      /\ a.buf \in Nat /\ a.items \in Seq(Nat)
  BY DEF Typed, IsArray
<1>2. PICK q, r : q = Append(a.items, x) /\ r = <<x>>
  OBVIOUS
<1>3. q \in Seq(Nat) /\ r \in Seq(Nat)
  BY <1>1, <1>2
<1>4. [a EXCEPT !.items = q] = [buf |-> a.buf, items |-> q, capacity |-> a.capacity]
  BY <1>1
<1>5. [a EXCEPT !.items = r] = [buf |-> a.buf, items |-> r, capacity |-> a.capacity]
  BY <1>1
<1>6. Typed([a EXCEPT !.items = q], Nat)
  BY <1>1, <1>3, <1>4 DEF Typed, IsArray, IsList
<1>7. Typed([a EXCEPT !.items = r], Nat)
  BY <1>1, <1>3, <1>5 DEF Typed, IsArray, IsList
<1> QED BY <1>2, <1>6, <1>7

\* The last four bytes of a character literal.
LEMMA CharValue ==
    ASSUME NEW b \in Seq(Nat)
    PROVE  char_value(b) \in Seq(Nat)
<1>1. PICK n \in Nat : n = Len(b)
  OBVIOUS
<1>2. PICK low \in Int : low = n - 3
  OBVIOUS
<1>3. PICK m : m = Max({1, low})
  OBVIOUS
<1>4. m \in {1, low} /\ m >= 1
  <2>1. 1 \in Int
    OBVIOUS
  <2> QED BY <1>3, <2>1, PairFacts
<1>5. m \in Nat /\ m >= 1 /\ m <= n + 1
  BY <1>2, <1>4
<1>6. char_value(b) = SubSeq(b, m, n)
  BY <1>1, <1>2, <1>3 DEF char_value
<1>7. SubSeq(b, m, n) \in Seq(Nat)
  <2>1. \A k \in m..n : b[k] \in Nat
    BY <1>1, <1>5
  <2>2. m \in Int /\ n \in Int
    BY <1>5
  <2> QED BY <2>1, <2>2, SubSeqProperties
<1> QED BY <1>6, <1>7

\* The closing quote, or any character of the text, ends a token.
LEMMA EndFacts ==
    ASSUME IInv, TInv, pc \in Bodies, in_text
    PROVE  /\ s \in Positions /\ cur <= s
           /\ \A c \in {QUOTE, DQUOTE, BACKSLASH} : text[s] = c => s + 1 \in Positions /\ cur <= s + 1
BY BodyFacts, Classes

\* The steps inside a character literal.
LEMMA CharLiteralStays ==
    ASSUME IInv, TInv, CharLiteral
    PROVE  Stays
<1>0. <<>> \in Seq(Nat) /\ 0 \in Nat /\ "TK_ICONST" \in AllTypes
  BY DEF AllTypes
<1>1. CASE CharBodyClose
  <2>1. pc \in Bodies /\ in_text /\ pc \in Open /\ text[s] = QUOTE
    BY <1>1 DEF CharBodyClose, Bodies, Open
  <2>2. s + 1 \in Positions /\ cur <= s + 1
    BY <2>1, EndFacts
  <2>3. PICK v : v = char_value(arr.items)
    OBVIOUS
  <2>4. v \in Seq(Nat)
    BY <2>1, <2>3, BodyFacts, CharValue
  <2>5. /\ SetToken("TK_ICONST", 0, 0, v, s + 1)
        /\ Push("ALERT_WARN", "multi-byte character") \/ Quiet
    BY <1>1, <2>3 DEF CharBodyClose
  <2>6. AlertsTyped(queue') /\ printed' = printed
    BY <2>5, QueueTyped DEF AlertTypes
  <2> QED BY <1>0, <2>1, <2>2, <2>4, <2>5, <2>6, SetEnds
<1>2. CASE CharBodyEscape
  <2>1. pc \in Bodies /\ in_text /\ pc \in Open /\ text[s] = BACKSLASH /\ pc = "char_body"
    BY <1>2 DEF CharBodyEscape, Bodies, Open
  <2>2. /\ escape.end \in Nat /\ cur <= escape.end /\ escape.val \in Nat
        /\ AlertsTyped(alerted(escape).queue)
    BY <2>1, InsideEscape
  <2>3. PICK u, end : u = unit(escape.val) /\ end = escape.end
    OBVIOUS
  <2>4. u \in Nat /\ end \in Nat /\ cur <= end
    BY <2>2, <2>3, UnitTyped
  <2>5. /\ queue' = alerted(escape).queue /\ printed' = printed
        /\ s' = end /\ arr' = [arr EXCEPT !.items = Append(@, u)] /\ pc' = pc
        /\ UNCHANGED <<text, cur, line, line_num, col_num, tokens, width, i>>
    BY <1>2, <2>3 DEF CharBodyEscape, Advance
  <2>6. Typed(arr', Nat) /\ width' \in Widths
    BY <2>1, <2>4, <2>5, BodyFacts, ItemsTyped
  <2>7. pc' \in Bodies \ {"wide_rest"} /\ pc' # "wide_close"
    BY <2>1, <2>5
  <2> QED BY <2>1, <2>2, <2>4, <2>5, <2>6, <2>7, BodyMoves
<1>3. CASE CharBodyPlain
  <2>1. pc \in Bodies /\ in_text /\ pc \in Open /\ pc = "char_body" /\ ~at_line_end
    BY <1>3 DEF CharBodyPlain, Bodies, Open
  <2>2. PICK u : u = text[s]
    OBVIOUS
  <2>3. u \in Nat /\ s + 1 \in Nat /\ cur <= s + 1
    <3>1. u \in 0..255
      BY <2>1, <2>2, BodyFacts
    <3>2. s \in Nat /\ cur \in Nat /\ cur <= s
      BY <2>1, BodyFacts DEF Positions
    <3> QED BY <3>1, <3>2
  <2>4. /\ Quiet /\ s' = s + 1 /\ arr' = [arr EXCEPT !.items = Append(@, u)] /\ pc' = pc
        /\ UNCHANGED <<text, cur, line, line_num, col_num, tokens, width, i>>
    BY <1>3, <2>2 DEF CharBodyPlain, Advance
  <2>5. Typed(arr', Nat) /\ width' \in Widths
    BY <2>1, <2>3, <2>4, BodyFacts, ItemsTyped
  <2>6. AlertsTyped(queue') /\ printed' = printed
    BY <2>4, QueueTyped
  <2>7. pc' \in Bodies \ {"wide_rest"} /\ pc' # "wide_close"
    BY <2>1, <2>4
  <2> QED BY <2>1, <2>3, <2>4, <2>5, <2>6, <2>7, BodyMoves
<1>4. CASE CharBodyUnterminated
  <2>1. pc \in Bodies /\ in_text /\ pc \in Open
    BY <1>4 DEF CharBodyUnterminated, Bodies, Open
  <2>2. SetToken("TK_ICONST", 0, 0, <<>>, s) /\ Push("ALERT_ERR", "unterminated character literal")
    BY <1>4 DEF CharBodyUnterminated
  <2>3. AlertsTyped(queue') /\ printed' = printed
    BY <2>2, QueueTyped DEF AlertTypes
  <2>4. s \in Positions /\ cur <= s
    BY <2>1, EndFacts
  <2> QED BY <1>0, <2>1, <2>2, <2>3, <2>4, SetEnds
<1>5. CASE WideChar
  <2>1. pc \in Bodies /\ in_text /\ pc \in Open
    BY <1>5 DEF WideChar, Bodies, Open
  <2>2. PICK d : d = decode_utf8(text, s)
    OBVIOUS
  <2>3. PICK end, c : /\ end = IF text[s] = BACKSLASH THEN escape.end ELSE s + d.len
                      /\ c = IF text[s] = BACKSLASH THEN escape.val ELSE d.code
    OBVIOUS
  <2>4. end \in Nat /\ cur <= end /\ c \in Nat
    <3>1. CASE text[s] = BACKSLASH
      BY <2>1, <2>3, <3>1, InsideEscape
    <3>2. CASE text[s] # BACKSLASH
      <4>1. PICK n \in Nat : n = d.len
        <5>1. d.len \in 0..4
          BY <2>1, <2>2, BodyFacts, DecodeFacts
        <5> QED BY <5>1
      <4>2. d.code \in Nat
        BY <2>1, <2>2, BodyFacts, DecodeFacts
      <4>3. end = s + n /\ c = d.code
        BY <2>3, <3>2, <4>1
      <4>4. s \in Nat /\ cur \in Nat /\ cur <= s
        BY <2>1, BodyFacts DEF Positions
      <4> QED BY <4>2, <4>3, <4>4
    <3> QED BY <3>1, <3>2
  <2>5. /\ pc' = "wide_close" /\ s' = end /\ arr' = [arr EXCEPT !.items = <<c>>]
        /\ \/ text[s] = BACKSLASH /\ queue' = alerted(escape).queue
           \/ queue' = queue
        /\ UNCHANGED <<text, cur, line, line_num, col_num, tokens, width, i, printed>>
    BY <1>5, <2>2, <2>3 DEF WideChar
  <2>6. Typed(arr', Nat) /\ width' \in Widths
    BY <2>1, <2>4, <2>5, BodyFacts, ItemsTyped
  <2>7. Len(arr'.items) >= 1
    <3>1. Typed(arr, Nat)
      BY <2>1, BodyFacts
    <3>2. arr'.items = <<c>>
      BY <2>5, <3>1 DEF Typed, IsArray
    <3> QED BY <3>2
  <2>8. AlertsTyped(queue')
    BY <2>1, <2>5, InsideEscape DEF TInv
  <2>9. pc' \in Bodies \ {"wide_rest"}
    BY <2>5 DEF Bodies
  <2> QED BY <2>1, <2>4, <2>5, <2>6, <2>7, <2>8, <2>9, BodyMoves
<1>6. CASE WideClose
  <2>1. pc \in Bodies /\ in_text /\ pc \in Open /\ pc = "wide_close"
    BY <1>6 DEF WideClose, Bodies, Open
  <2>2. PICK c : c = arr.items[1]
    OBVIOUS
  <2>3. Len(arr.items) >= 1 /\ c \in Nat
    <3>1. Len(arr.items) >= 1
      BY <2>1 DEF TInv, LiteralTyped
    <3>2. arr.items \in Seq(Nat)
      BY <2>1, BodyFacts
    <3> QED BY <2>2, <3>1, <3>2
  <2>4. CASE text[s] = QUOTE
    <3>1. SetToken("TK_ICONST", c, 0, <<>>, s + 1) /\ Quiet
      BY <1>6, <2>2, <2>4 DEF WideClose
    <3>2. s + 1 \in Positions /\ cur <= s + 1
      BY <2>1, <2>4, EndFacts
    <3> QED BY <1>0, <2>1, <2>3, <3>1, <3>2, QueueTyped, SetEnds
  <2>5. CASE text[s] # QUOTE
    <3>1. Goto("wide_rest") /\ Push("ALERT_ERR", "multiple characters")
      BY <1>6, <2>5 DEF WideClose
    <3>2. AlertsTyped(queue') /\ printed' = printed
      BY <3>1, QueueTyped DEF AlertTypes
    <3>3. s \in Positions /\ cur <= s
      BY <2>1, EndFacts
    <3>4. "wide_rest" \in Open
      BY DEF Open
    <3> QED BY <2>1, <2>3, <3>1, <3>2, <3>3, <3>4, GotoMoves
  <2> QED BY <2>4, <2>5
<1>7. CASE WideRest
  <2>1. pc \in Bodies /\ pc \in Open /\ pc = "wide_rest"
    BY <1>7 DEF WideRest, Bodies, Open
  <2>2. PICK c : c = arr.items[1]
    OBVIOUS
  <2>3. /\ c \in Nat /\ s \in Positions /\ cur <= s /\ Given /\ cur \in Nat
    <3>1. Len(arr.items) >= 1 /\ Typed(arr, Nat) /\ s \in Positions /\ cur <= s /\ Given
      BY <2>1 DEF TInv, LiteralTyped
    <3>2. c \in Nat
      BY <2>2, <3>1 DEF Typed
    <3>3. cur \in Nat
      BY DEF TInv, Placed, Positions
    <3> QED BY <3>1, <3>2, <3>3
  <2>4. PICK end : end = Skip(s, 0..255 \ {NUL, NL, QUOTE})
    OBVIOUS
  <2>5. end \in Positions /\ s <= end
    <3>1. PICK class : class = 0..255 \ {NUL, NL, QUOTE}
      OBVIOUS
    <3>2. NUL \notin class /\ end = Skip(s, class)
      BY <2>4, <3>1
    <3> QED BY <2>3, <3>2, SkipFacts
  <2>6. cur <= end
    BY <2>3, <2>5 DEF Positions
  <2>7. \/ text[end] = QUOTE /\ SetToken("TK_ICONST", c, 0, <<>>, end + 1) /\ Quiet
        \/ /\ SetToken("TK_ICONST", c, 0, <<>>, end)
           /\ Push("ALERT_ERR", "unterminated character literal")
    BY <1>7, <2>2, <2>4 DEF WideRest
  <2>8. AlertsTyped(queue') /\ printed' = printed
    BY <2>7, QueueTyped DEF AlertTypes
  <2>9. CASE text[end] = QUOTE /\ SetToken("TK_ICONST", c, 0, <<>>, end + 1)
    <3>1. end + 1 \in Positions
      BY <2>3, <2>5, <2>9, Classes, NextPosition
    <3>2. cur <= end + 1
      BY <2>3, <2>5, <2>6 DEF Positions
    <3> QED BY <1>0, <2>1, <2>3, <2>8, <2>9, <3>1, <3>2, SetEnds
  <2>10. CASE SetToken("TK_ICONST", c, 0, <<>>, end)
    BY <1>0, <2>1, <2>3, <2>5, <2>6, <2>8, <2>10, SetEnds
  <2> QED BY <2>7, <2>9, <2>10
<1> QED BY <1>1, <1>2, <1>3, <1>4, <1>5, <1>6, <1>7 DEF CharLiteral

\* The steps inside a string literal.
LEMMA StringLiteralStays ==
    ASSUME IInv, TInv, StringLiteral
    PROVE  Stays
<1>0. 0 \in Nat /\ "TK_STRLIT" \in AllTypes
  BY DEF AllTypes
<1>1. pc \in Bodies /\ in_text /\ pc \in Open /\ pc = "str_body"
  BY DEF StringLiteral, StringClose, StringEscape, StringPlain, StringUnterminated, Bodies, Open
<1>2. /\ width \in Widths /\ Typed(arr, Nat) /\ arr.items \in Seq(Nat) /\ arr.buf \in Nat
      /\ heap \in Seq(Nat) /\ s \in Positions /\ Given /\ cur \in Nat /\ cur <= s
      /\ text[s] \in 0..255
  BY <1>1, BodyFacts
<1>3. ASSUME NEW end \in Nat, cur <= end, NEW a, Typed(a, Nat), Advance(end, a),
             AlertsTyped(queue'), printed' = printed
      PROVE  Stays
  <2>1. /\ s' = end /\ arr' = a /\ pc' = pc
        /\ UNCHANGED <<text, cur, line, line_num, col_num, tokens, width, i>>
    BY <1>3 DEF Advance
  <2>2. pc' \in Bodies \ {"wide_rest"} /\ pc' # "wide_close"
    BY <1>1, <2>1
  <2> QED BY <1>1, <1>2, <1>3, <2>1, <2>2, BodyMoves
<1>4. CASE StringClose
  <2>1. PICK p : p = array_push_back(arr, 0, heap)
    OBVIOUS
  <2>2. Typed(p.arr, Nat)
    BY <1>0, <1>2, <2>1, PushTyped
  <2>3. PICK buf, items : buf = p.arr.buf /\ items = p.arr.items
    OBVIOUS
  <2>4. buf \in Nat /\ items \in Seq(Nat)
    BY <2>2, <2>3 DEF Typed
  <2>5. /\ SetToken("TK_STRLIT", 0, buf, items, s + 1) /\ queue' = queue /\ printed' = printed
        /\ text[s] = DQUOTE
    BY <1>4, <2>1, <2>3 DEF StringClose
  <2>6. AlertsTyped(queue')
    BY <2>5 DEF TInv
  <2>7. s + 1 \in Positions /\ cur <= s + 1
    BY <1>1, <2>5, EndFacts
  <2> QED BY <1>0, <1>1, <2>4, <2>5, <2>6, <2>7, SetEnds
<1>5. CASE StringEscape
  <2>1. text[s] = BACKSLASH
    BY <1>5 DEF StringEscape
  <2>2. /\ escape.end \in Nat /\ cur <= escape.end /\ escape.val \in Nat
        /\ AlertsTyped(alerted(escape).queue)
        /\ alerted(escape).heap \in Seq(Nat)
    BY <1>1, <2>1, InsideEscape
  <2>3. PICK u, h, end : u = unit(escape.val) /\ h = alerted(escape).heap /\ end = escape.end
    OBVIOUS
  <2>4. u \in Nat /\ h \in Seq(Nat) /\ end \in Nat /\ cur <= end
    BY <2>2, <2>3, UnitTyped
  <2>5. PICK a : a = array_push_back(arr, u, h).arr
    OBVIOUS
  <2>6. Typed(a, Nat)
    BY <1>2, <2>4, <2>5, PushTyped
  <2>7. Advance(end, a) /\ queue' = alerted(escape).queue /\ printed' = printed
    BY <1>5, <2>3, <2>5 DEF StringEscape
  <2>8. AlertsTyped(queue')
    BY <2>2, <2>7
  <2> QED BY <1>3, <2>4, <2>6, <2>7, <2>8
<1>6. CASE StringPlain
  <2>1. PICK d : d = decode_utf8(text, s)
    OBVIOUS
  <2>2. d.len \in Nat /\ d.code \in Nat
    <3>1. d.len \in 0..4 /\ d.code \in Nat
      BY <1>2, <2>1, DecodeFacts
    <3> QED BY <3>1
  <2>3. PICK c, n, b : c = d.code /\ n = d.len /\ b = text[s]
    OBVIOUS
  <2>4. c \in Nat /\ n \in Nat /\ b \in Nat /\ s \in Nat
    <3>1. b \in 0..255
      BY <1>2, <2>3
    <3>2. s \in Nat
      BY <1>2 DEF Positions
    <3> QED BY <2>2, <2>3, <3>1, <3>2
  <2>5. PICK p : p = CASE width = CW_UTF8 -> array_push_back(arr, b, heap)
                       [] width = CW_UTF16 -> encode_utf16(c, arr, heap)
                       [] width = CW_UTF32 -> encode_utf32(c, arr, heap)
    OBVIOUS
  <2>6. Typed(p.arr, Nat)
    <3>1. /\ Typed(array_push_back(arr, b, heap).arr, Nat)
          /\ Typed(encode_utf16(c, arr, heap).arr, Nat)
          /\ Typed(encode_utf32(c, arr, heap).arr, Nat)
      BY <1>2, <2>4, PushTyped, EncodeTyped
    <3>2. \/ p = array_push_back(arr, b, heap)
          \/ p = encode_utf16(c, arr, heap)
          \/ p = encode_utf32(c, arr, heap)
      BY <1>2, <2>5 DEF Widths, CW_UTF8, CW_UTF16, CW_UTF32
    <3> QED BY <3>1, <3>2
  <2>7. PICK end, a : end = (IF width = CW_UTF8 THEN s + 1 ELSE s + n) /\ a = p.arr
    OBVIOUS
  <2>8. end \in Nat /\ cur <= end /\ Typed(a, Nat)
    BY <1>2, <2>4, <2>6, <2>7
  <2>9. Advance(end, a) /\ queue' = queue /\ printed' = printed
    BY <1>6, <2>1, <2>3, <2>5, <2>7 DEF StringPlain
  <2>10. AlertsTyped(queue')
    BY <2>9 DEF TInv
  <2> QED BY <1>3, <2>8, <2>9, <2>10
<1>7. CASE StringUnterminated
  <2>1. PICK buf, items : buf = arr.buf /\ items = arr.items
    OBVIOUS
  <2>2. /\ SetToken("TK_STRLIT", 0, buf, items, s)
        /\ Push("ALERT_ERR", "unterminated string literal")
    BY <1>7, <2>1 DEF StringUnterminated
  <2>3. AlertsTyped(queue') /\ printed' = printed
    BY <2>2, QueueTyped DEF AlertTypes
  <2>4. buf \in Nat /\ items \in Seq(Nat)
    BY <1>2, <2>1
  <2> QED BY <1>0, <1>1, <1>2, <2>2, <2>3, <2>4, SetEnds
<1> QED BY <1>4, <1>5, <1>6, <1>7 DEF StringLiteral

\* A run that stops inside a literal.
LEMMA StopStays ==
    ASSUME IInv, TInv, InvalidUtf8 \/ Overrun
    PROVE  Stays
<1>1. pc \in Open
  BY DEF InvalidUtf8, Overrun, Open
<1>2. (Goto("exit") \/ Goto("overrun")) /\ Quiet
  BY DEF InvalidUtf8, Overrun
<1>3. AlertsTyped(queue') /\ printed' = printed
  BY <1>2, QueueTyped
<1>4. /\ "exit" \in Open \cup Stopped /\ "exit" \notin Bodies
      /\ "overrun" \in Open \cup Stopped /\ "overrun" \notin Bodies
  BY DEF Stopped, Bodies
<1>5. CASE Goto("exit")
  BY <1>1, <1>3, <1>4, <1>5, GotoMoves
<1>6. CASE Goto("overrun")
  BY <1>1, <1>3, <1>4, <1>6, GotoMoves
<1> QED BY <1>2, <1>5, <1>6

\* The tokens with t in place of the last one.
LEMMA ReplacedTyped ==
    ASSUME IInv, TInv, pc \in Open, NEW t \in Token, Replacing(t)
    PROVE  /\ Typed(tokens', Token) /\ Bounded(tokens')
           /\ Len(tokens'.items) = Len(tokens.items) /\ Last' = t
           /\ \A k \in 1..(Len(tokens.items) - 1) : tokens'.items[k] = tokens.items[k]
<1>1. PICK q, n : q = tokens.items /\ n = Len(tokens.items)
  OBVIOUS
<1>2. q \in Seq(Token) /\ n \in Nat \ {0} /\ Len(q) = n
  BY <1>1, LastFacts DEF TInv, Typed
<1>3. PICK r : r = [q EXCEPT ![n] = t]
  OBVIOUS
<1>4. r \in Seq(Token) /\ Len(r) = n /\ r[n] = t /\ \A k \in 1..(n - 1) : r[k] = q[k]
  BY <1>2, <1>3
<1>5. tokens' = [buf |-> tokens.buf, items |-> r, capacity |-> tokens.capacity]
  <2>1. tokens = [buf |-> tokens.buf, items |-> tokens.items, capacity |-> tokens.capacity]
    BY DEF TInv, Typed, IsArray
  <2> QED BY <1>1, <1>3, <2>1 DEF Replacing
<1>6. Typed(tokens', Token)
  BY <1>4, <1>5 DEF TInv, Typed, IsArray, IsList
<1>7. Bounded(tokens')
  BY <1>1, <1>4, <1>5 DEF TInv, Bounded
<1>8. Last' = t
  <2>1. tokens'.items = r
    BY <1>5
  <2> QED BY <1>4, <2>1 DEF Last
<1> QED BY <1>1, <1>4, <1>5, <1>6, <1>7, <1>8

\* The steps inside a token keep the types.
LEMMA StaysTyped ==
    ASSUME IInv, TInv, Stays
    PROVE  TInv'
<1>1. CASE Moves
  <2>1. /\ pc \in Open /\ pc' \in Open \cup Stopped
        /\ UNCHANGED <<text, cur, line, line_num, col_num, tokens>>
        /\ LiteralTyped' /\ AlertsTyped(queue')
    BY <1>1 DEF Moves
  <2>2. pc' # "report" /\ (pc' \in Open \cup {"report"} => pc \in Open \cup {"report"})
    BY <2>1 DEF Open, Stopped
  <2>3. Given' /\ Placed'
    BY <2>1 DEF TInv, Given, Placed, Positions
  <2>4. Starting'
    BY <2>1, <2>2 DEF TInv, Starting
  <2>5. Settled'
    BY <2>2 DEF Settled
  <2>6. Typed(tokens', Token) /\ Bounded(tokens')
    BY <2>1 DEF TInv
  <2> QED BY <2>1, <2>3, <2>4, <2>5, <2>6 DEF TInv
<1>2. ASSUME NEW t, Ends(t) PROVE TInv'
  <2>1. /\ pc \in Open /\ pc' = "report" /\ i' = 1 /\ s' \in Nat \ {0}
        /\ UNCHANGED <<text, cur, line, line_num, col_num, width, arr>>
        /\ Replacing(t) /\ t \in Token /\ AlertsTyped(queue')
    BY <1>2 DEF Ends
  <2>2. Typed(tokens', Token) /\ Bounded(tokens') /\ Last' = t
    BY <2>1, ReplacedTyped
  <2>3. Given' /\ Placed' /\ Positions' = Positions
    BY <2>1 DEF TInv, Given, Placed, Positions
  <2>4. Starting'
    BY <2>1 DEF TInv, Starting
  <2>5. LiteralTyped'
    <3>1. pc' \notin Bodies
      BY <2>1 DEF Bodies
    <3> QED BY <2>1, <3>1 DEF TInv, LiteralTyped, Bodies
  <2>6. Settled'
    <3>1. CASE t.loc = cur /\ cur + t.size \in Positions
      BY <2>1, <2>2, <2>3, <3>1 DEF Settled
    <3>2. CASE Failing(queue')
      <4>1. PICK k : k = Len(queue'.items)
        OBVIOUS
      <4>2. k \in 1..k
        BY <3>2, <4>1 DEF Failing
      <4> QED BY <2>1, <3>2, <4>1, <4>2 DEF Settled, Failing
    <3> QED BY <1>2, <3>1, <3>2 DEF Ends
  <2> QED BY <2>1, <2>2, <2>3, <2>4, <2>5, <2>6 DEF TInv
<1> QED BY <1>1, <1>2 DEF Stays

\* The steps that neither enter nor leave a token, and leave its literal alone.
LEMMA BetweenTyped ==
    ASSUME IInv, TInv, pc' \notin Bodies, UNCHANGED <<s, width, arr>>, i' \in Nat \ {0}
    PROVE  LiteralTyped'
BY DEF TInv, LiteralTyped, Bodies

\* A token that has only its place yet.
LEMMA NewTyped ==
    ASSUME TInv
    PROVE  NewToken \in Token /\ [NewToken EXCEPT !.token_type = "TK_EOF"] \in Token
<1>1. line \in Nat /\ line_num \in Nat /\ col_num \in Nat /\ <<>> \in Seq(Nat)
  BY DEF TInv, Placed, Positions
<1>2. NewToken \in Token
  BY <1>1 DEF NewToken, Token
<1>3. [NewToken EXCEPT !.token_type = "TK_EOF"] \in Token
  BY <1>1 DEF NewToken, Token
<1> QED BY <1>2, <1>3

\* A token is added.
LEMMA AddedTyped ==
    ASSUME IInv, TInv, pc = "loop", NEW t \in Token,
           tokens' = array_push_back(tokens, t, heap).arr
    PROVE  /\ Typed(tokens', Token) /\ Bounded(tokens')
           /\ Len(tokens'.items) = Len(tokens.items) + 1 /\ Last' = t
           /\ \A k \in 1..Len(tokens.items) : tokens'.items[k] = tokens.items[k]
<1>1. heap \in Seq(Nat)
  BY DEF IInv, Registered, Stopped
<1>2. PICK a : a = array_push_back(tokens, t, heap).arr
  OBVIOUS
<1>3. Typed(tokens, Token) /\ Bounded(tokens) /\ IsArray(tokens)
  BY DEF TInv, Typed
<1>4. Typed(a, Token) /\ a.items = Append(tokens.items, t)
  BY <1>1, <1>2, <1>3, PushTyped
<1>5. Bounded(a)
  BY <1>2, <1>3, PushBounded
<1>6. IsList(tokens.items) /\ Len(tokens.items) \in Nat
  BY <1>3 DEF Typed, IsList
<1>7. /\ Len(a.items) = Len(tokens.items) + 1 /\ a.items[Len(tokens.items) + 1] = t
      /\ \A k \in 1..Len(tokens.items) : a.items[k] = tokens.items[k]
  BY <1>4, <1>6, AppendFacts
<1>8. Last' = t
  BY <1>2, <1>7 DEF Last
<1> QED BY <1>2, <1>4, <1>5, <1>7, <1>8

\* The steps between tokens keep the types.
LEMMA LoopTyped ==
    ASSUME IInv, TInv, SkipNewline \/ SkipSpace \/ lexer_add_token \/ EndOfText
    PROVE  TInv'
<1>1. pc = "loop" /\ text' = text /\ queue' = queue /\ UNCHANGED <<s, width, arr, i>>
  BY DEF SkipNewline, SkipSpace, lexer_add_token, EndOfText, alertVars
<1>2. pc' \in {"loop", "numeric", "returned"}
  BY <1>1 DEF SkipNewline, SkipSpace, lexer_add_token, EndOfText
<1>3. LiteralTyped'
  <2>1. i' \in Nat \ {0} /\ pc' \notin Bodies
    BY <1>1, <1>2 DEF TInv, LiteralTyped, Bodies
  <2> QED BY <1>1, <2>1, BetweenTyped
<1>4. Given' /\ AlertsTyped(queue') /\ Settled' /\ Positions' = Positions
  BY <1>1, <1>2 DEF TInv, Given, Settled, Positions
<1>5. /\ Given /\ cur \in Positions /\ cur \in Nat \ {0} /\ line \in 1..cur
      /\ line_num \in Nat \ {0} /\ col_num \in Nat \ {0}
      /\ Typed(tokens, Token) /\ Bounded(tokens)
  BY DEF TInv, Placed, Positions
<1>6. CASE SkipNewline \/ SkipSpace
  <2>1. text[cur] # NUL
    BY <1>6 DEF SkipNewline, SkipSpace, NUL, NL, isspace
  <2>2. cur + 1 \in Positions
    BY <1>5, <2>1, NextPosition
  <2>3. /\ pc' = "loop" /\ cur' = cur + 1 /\ tokens' = tokens
        /\ \/ line_num' = line_num + 1 /\ col_num' = 1 /\ line' = cur + 1
           \/ line_num' = line_num /\ col_num' = col_num + 1 /\ line' = line
    BY <1>6 DEF SkipNewline, SkipSpace, column_of_line
  <2>4. Placed'
    <3>1. cur' \in Positions'
      BY <1>4, <2>2, <2>3
    <3>2. line' \in 1..cur'
      BY <1>5, <2>3
    <3>3. line_num' \in Nat \ {0} /\ col_num' \in Nat \ {0}
      BY <1>5, <2>3
    <3> QED BY <3>1, <3>2, <3>3 DEF Placed
  <2>5. Starting'
    BY <2>3 DEF Starting, Open
  <2> QED BY <1>3, <1>4, <1>5, <2>3, <2>4, <2>5 DEF TInv
<1>7. CASE lexer_add_token
  <2>1. /\ tokens' = array_push_back(tokens, NewToken, heap).arr
        /\ UNCHANGED <<cur, line, line_num, col_num>> /\ text[cur] \notin isspace \cup {NUL}
    BY <1>7 DEF lexer_add_token
  <2>2. Typed(tokens', Token) /\ Bounded(tokens')
    BY <1>1, <2>1, NewTyped, AddedTyped
  <2>3. Placed'
    BY <1>4, <2>1 DEF TInv, Placed
  <2>4. Starting'
    BY <1>1, <2>1 DEF Starting
  <2> QED BY <1>3, <1>4, <2>2, <2>3, <2>4 DEF TInv
<1>8. CASE EndOfText
  <2>1. /\ tokens' = array_push_back(tokens, [NewToken EXCEPT !.token_type = "TK_EOF"], heap).arr
        /\ UNCHANGED <<cur, line, line_num, col_num>> /\ pc' = "returned"
    BY <1>8 DEF EndOfText
  <2>2. Typed(tokens', Token) /\ Bounded(tokens')
    <3>1. PICK t : t = [NewToken EXCEPT !.token_type = "TK_EOF"]
      OBVIOUS
    <3>2. t \in Token
      BY <3>1, NewTyped
    <3> QED BY <1>1, <2>1, <3>1, <3>2, AddedTyped
  <2>3. Placed'
    BY <1>4, <2>1 DEF TInv, Placed
  <2>4. Starting'
    BY <2>1 DEF Starting, Open
  <2> QED BY <1>3, <1>4, <2>2, <2>3, <2>4 DEF TInv
<1> QED BY <1>6, <1>7, <1>8

\* The steps of the report keep the types.
LEMMA ReportTyped ==
    ASSUME IInv, TInv, ReportAlert \/ Reported
    PROVE  TInv'
<1>1. pc = "report" /\ UNCHANGED <<text, line, line_num, tokens, s, width, arr>>
  BY DEF ReportAlert, Reporting, Reported
<1>2. Given' /\ Positions' = Positions /\ Typed(tokens', Token) /\ Bounded(tokens')
  BY <1>1 DEF TInv, Given, Positions
<1>3. IsArray(queue) /\ Len(queue.items) \in Nat /\ i \in Nat \ {0}
  BY DEF IInv, Shaped, IsArray, IsList, TInv, LiteralTyped
<1>4. CASE ReportAlert
  <2>1. /\ UNCHANGED <<cur, col_num, queue>> /\ i <= Len(queue.items)
        /\ \/ pc' = "exit" /\ i' = i
           \/ pc' = pc /\ i' = i + 1 /\ queue.items[i].alert_type # "ALERT_ERR"
    BY <1>4 DEF ReportAlert, Reporting
  <2>2. LiteralTyped'
    <3>1. i' \in Nat \ {0} /\ pc' \notin Bodies
      BY <1>1, <1>3, <2>1 DEF Bodies
    <3> QED BY <1>1, <3>1, BetweenTyped
  <2>3. Placed' /\ Starting' /\ AlertsTyped(queue')
    BY <1>1, <1>2, <2>1 DEF TInv, Placed, Starting, Open
  <2>4. Settled'
    <3>1. SUFFICES ASSUME pc' = "report", ~(Last.loc = cur /\ cur + Last.size \in Positions)
                   PROVE  \E k \in i'..Len(queue'.items) : queue'.items[k].alert_type = "ALERT_ERR"
      BY <1>1, <1>2, <2>1 DEF Settled, Last
    <3>2. PICK k \in i..Len(queue.items) : queue.items[k].alert_type = "ALERT_ERR"
      BY <1>1, <3>1 DEF TInv, Settled
    <3>3. i' = i + 1 /\ k # i
      BY <2>1, <3>1, <3>2
    <3>4. k \in (i + 1)..Len(queue.items)
      BY <1>3, <3>3
    <3> QED BY <2>1, <3>2, <3>3, <3>4
  <2> QED BY <1>2, <2>2, <2>3, <2>4 DEF TInv
<1>5. CASE Reported
  <2>1. /\ i > Len(queue.items) /\ cur' = Last.loc + Last.size /\ col_num' = col_num + Last.size
        /\ pc' = "loop" /\ i' = i /\ queue' = [queue EXCEPT !.items = <<>>]
    BY <1>5 DEF Reported, Last, alert_queue_clear, array_clear
  <2>2. Last.loc = cur /\ cur + Last.size \in Positions
    <3>1. ~ \E k \in i..Len(queue.items) : queue.items[k].alert_type = "ALERT_ERR"
      BY <1>3, <2>1
    <3> QED BY <1>1, <3>1 DEF TInv, Settled
  <2>3. Last.size \in Nat
    <3>1. Len(tokens.items) >= 1 /\ tokens.items \in Seq(Token)
      BY <1>1 DEF IInv, Labelled, TInv, Typed
    <3>2. \A S : \A q \in Seq(S) : Len(q) >= 1 => q[Len(q)] \in S
      OBVIOUS
    <3>3. Last \in Token
      BY <3>1, <3>2 DEF Last
    <3> QED BY <3>3 DEF Token
  <2>4. PICK n \in Nat : n = Last.size
    BY <2>3
  <2>5. Placed'
    <3>1. cur' = cur + n /\ cur + n \in Positions /\ col_num' = col_num + n
      BY <2>1, <2>2, <2>4
    <3>2. line \in 1..cur /\ cur \in Nat /\ col_num \in Nat \ {0} /\ line_num \in Nat \ {0}
      BY DEF TInv, Placed, Positions
    <3>3. line \in 1..(cur + n) /\ col_num + n \in Nat \ {0}
      BY <3>2
    <3> QED BY <1>1, <1>2, <3>1, <3>2, <3>3 DEF Placed
  <2>6. LiteralTyped'
    <3>1. i' \in Nat \ {0} /\ pc' \notin Bodies
      BY <1>3, <2>1 DEF Bodies
    <3> QED BY <1>1, <3>1, BetweenTyped
  <2>7. AlertsTyped(queue')
    <3>1. queue = [buf |-> queue.buf, items |-> queue.items, capacity |-> queue.capacity]
      BY <1>3 DEF IsArray
    <3>2. queue'.capacity = queue.capacity /\ queue'.items = <<>>
      BY <2>1, <3>1
    <3>3. queue.capacity \in Nat \ {0}
      BY DEF TInv, AlertsTyped, Bounded
    <3> QED BY <3>2, <3>3 DEF AlertsTyped, Bounded
  <2>8. Starting' /\ Settled'
    BY <2>1 DEF Starting, Settled, Open
  <2> QED BY <1>2, <2>5, <2>6, <2>7, <2>8 DEF TInv
<1> QED BY <1>4, <1>5

\* destroy_tokens keeps the types.
LEMMA DestroyTyped ==
    ASSUME IInv, TInv, destroy_tokens \/ FreeLiteral \/ FreeTokens
    PROVE  TInv'
<1>1. /\ UNCHANGED <<text, cur, line, line_num, col_num, tokens, s, width, arr, queue>>
      /\ pc' \in {"destroy", "done"} /\ (i' = i \/ i' = 1 \/ i' = i + 1)
  BY DEF destroy_tokens, FreeLiteral, FreeTokens, alertVars, next_token
<1>2. Given' /\ Placed' /\ Typed(tokens', Token) /\ Bounded(tokens') /\ AlertsTyped(queue')
  BY <1>1 DEF TInv, Given, Placed, Positions
<1>3. Starting' /\ Settled'
  BY <1>1 DEF Starting, Settled, Open
<1>4. LiteralTyped'
  <2>1. i' \in Nat \ {0}
    BY <1>1 DEF TInv, LiteralTyped
  <2>2. pc' \notin Bodies
    BY <1>1 DEF Bodies
  <2> QED BY <1>1, <2>1, <2>2, BetweenTyped
<1> QED BY <1>2, <1>3, <1>4 DEF TInv

\* The types hold before the first step.
LEMMA InitTInv == Init => TInv
<1> SUFFICES ASSUME Init PROVE TInv
  OBVIOUS
<1>1. /\ Given /\ cur = 1 /\ line = 1 /\ line_num = 1 /\ col_num = 1
      /\ tokens = array_init(TOKENS) /\ queue = array_init(ALERTS)
      /\ pc = "loop" /\ s = 1 /\ width = CW_UTF8 /\ arr = array_init(0) /\ i = 1
  BY DEF Init, Given
<1>2. Placed
  BY <1>1, TextFacts DEF Placed, Positions
<1>3. Starting /\ Settled
  BY <1>1 DEF Starting, Settled, Open
<1>4. LiteralTyped
  <2>1. Typed(arr, Nat) /\ width \in Widths
    BY <1>1, InitTyped DEF Widths
  <2>2. pc \notin Bodies /\ s \in Nat \ {0} /\ i \in Nat \ {0}
    BY <1>1 DEF Bodies
  <2> QED BY <2>1, <2>2 DEF LiteralTyped, Bodies
<1>5. Typed(tokens, Token)
  <2>1. TOKENS \in Nat
    BY DEF TOKENS
  <2> QED BY <1>1, <2>1, InitTyped
<1>6. Bounded(tokens) /\ AlertsTyped(queue)
  BY <1>1, CapacityAssumption DEF Bounded, AlertsTyped, array_init
<1> QED BY <1>1, <1>2, <1>3, <1>4, <1>5, <1>6 DEF TInv

\* Every step keeps the types.
LEMMA NextTInv == IInv /\ TInv /\ [Next]_vars => TInv'
<1> SUFFICES ASSUME IInv, TInv, [Next]_vars PROVE TInv'
  OBVIOUS
<1>1. CASE UNCHANGED vars
  BY <1>1 DEF vars, lexVars, alertVars, TInv, Given, Placed, Starting, LiteralTyped, Settled,
              Positions, Last
<1>2. CASE SubLexer \/ CharLiteral \/ StringLiteral \/ InvalidUtf8 \/ Overrun
  <2>1. Stays
    BY <1>2, SubLexerStays, CharLiteralStays, StringLiteralStays, StopStays
  <2> QED BY <2>1, StaysTyped
<1>3. CASE SkipNewline \/ SkipSpace \/ lexer_add_token \/ EndOfText
  BY <1>3, LoopTyped
<1>4. CASE ReportAlert \/ Reported
  BY <1>4, ReportTyped
<1>5. CASE destroy_tokens \/ FreeLiteral \/ FreeTokens
  BY <1>5, DestroyTyped
<1> QED BY <1>1, <1>2, <1>3, <1>4, <1>5 DEF Next

\* Types, for every text and every initial capacity: no token, alert or unit is
\* malformed, an array is never fuller than its buffer, and between tokens lexer->cur
\* is in the text.
THEOREM LexerTypeCorrect == Spec => []TypeOK
<1>1. Init => IInv /\ TInv
  BY InitIInv, InitTInv
<1>2. IInv /\ TInv /\ [Next]_vars => IInv' /\ TInv'
  BY NextIInv, NextTInv
<1>3. IInv /\ TInv => TypeOK
  <2> SUFFICES ASSUME IInv, TInv PROVE TypeOK
    OBVIOUS
  <2>1. heap \in Seq(Nat)
    BY DEF IInv, Registered
  <2>2. /\ cur \in Positions /\ line \in 1..cur
        /\ line_num \in Nat \ {0} /\ col_num \in Nat \ {0}
        /\ s \in Nat \ {0} /\ width \in {CW_UTF8, CW_UTF16, CW_UTF32} /\ i \in Nat \ {0}
        /\ tokens.items \in Seq(Token) /\ Len(tokens.items) <= tokens.capacity
        /\ arr.items \in Seq(Nat)
        /\ Len(queue.items) <= queue.capacity
    BY DEF TInv, Placed, LiteralTyped, Widths, Typed, Bounded, AlertsTyped
  <2>3. \A k \in DOMAIN queue.items : queue.items[k].alert_type \in {"ALERT_WARN", "ALERT_ERR"}
    <3>1. DOMAIN queue.items = 1..Len(queue.items)
      BY DEF IInv, Shaped, IsArray, IsList
    <3> QED BY <3>1 DEF TInv, AlertsTyped, AlertTypes
  <2>4. pc \in {"loop", "numeric", "char", "char_body", "wide", "wide_close", "wide_rest",
                "string", "str_body", "identifier", "punctuator", "report", "returned",
                "destroy", "done", "exit", "overrun"}
    BY DEF IInv, Labelled, Open, Ended, Stopped
  <2> QED BY <2>1, <2>2, <2>3, <2>4 DEF TypeOK
<1> QED BY <1>1, <1>2, <1>3, PTL DEF Spec

-----------------------------------------------------------------------------
(* Lines and columns.                                                      *)

NewlinesBefore(t, p) == {q \in 1..(p - 1) : t[q] = NL}
StartOfLine(t, p) == IF NewlinesBefore(t, p) = {} THEN 1 ELSE Max(NewlinesBefore(t, p)) + 1

\* Position p of t is in line ln, which begins at l, in column cn.
InPlace(t, p, l, ln, cn) ==
    /\ ln = Cardinality(NewlinesBefore(t, p)) + 1
    /\ l = StartOfLine(t, p)
    /\ cn = p - StartOfLine(t, p) + 1

\* No newline is inside any of the first n tokens.
Spotless(t, toks, n) ==
    \A j \in 1..n : \A p \in toks[j].loc..(toks[j].loc + toks[j].size - 1) : t[p] # NL

\* How many of the tokens lex is through with.
Through(label, toks) == IF label = "loop" THEN Len(toks) ELSE Len(toks) - 1

\* The caret of a report is in the line that it names, under a character.
Shown(t, r) ==
    t[r.caret] \notin isspace /\ r.line_num = Cardinality(NewlinesBefore(t, r.caret)) + 1

\* The inductive invariant: as long as no finished token has a newline inside, the
\* lexer knows where it is, and so does the token in the making.
Tracked ==
    /\ Through(pc, tokens.items) \in Nat
    /\ \A k \in 1..Through(pc, tokens.items) :
           /\ tokens.items[k].loc # 0
           /\ Spotless(text, tokens.items, k - 1) =>
                  InPlace(text, tokens.items[k].loc, tokens.items[k].line,
                          tokens.items[k].line_num, tokens.items[k].col_num)
    /\ Spotless(text, tokens.items, Through(pc, tokens.items)) =>
           InPlace(text, cur, line, line_num, col_num)
    /\ pc # "loop" => /\ Last.loc = 0 \/ Last.loc = cur
                      /\ Last.line = line /\ Last.line_num = line_num /\ Last.col_num = col_num
    /\ IsList(printed)
    /\ \A k \in 1..Len(printed) :
           Spotless(text, tokens.items, Through(pc, tokens.items)) => Shown(text, printed[k])

\* There are finitely many newlines before a position.
LEMMA NewlinesFinite ==
    ASSUME NEW t, NEW p \in Nat
    PROVE  IsFiniteSet(NewlinesBefore(t, p)) /\ NewlinesBefore(t, p) \subseteq 1..(p - 1)
<1>1. IsFiniteSet(1..(p - 1))
  BY FS_Interval
<1>2. NewlinesBefore(t, p) \subseteq 1..(p - 1)
  BY DEF NewlinesBefore
<1> QED BY <1>1, <1>2, FS_Subset

\* Behind a newline a new line begins.
LEMMA BehindNewline ==
    ASSUME NEW t, NEW p \in Nat \ {0}, t[p] = NL, NEW l, NEW ln \in Nat, NEW cn,
           InPlace(t, p, l, ln, cn)
    PROVE  InPlace(t, p + 1, p + 1, ln + 1, 1)
<1> PICK T, U : T = NewlinesBefore(t, p) /\ U = NewlinesBefore(t, p + 1)
  OBVIOUS
<1>1. U = T \cup {p}
  BY DEF NewlinesBefore
<1>2. IsFiniteSet(T) /\ T \subseteq 1..(p - 1)
  BY NewlinesFinite
<1>3. p \notin T
  BY <1>2
<1>4. Cardinality(U) = Cardinality(T) + 1
  BY <1>1, <1>2, <1>3, FS_AddElement
<1>5. Max(U) = p
  <2>1. \A x \in U : p >= x
    BY <1>1, <1>2
  <2>2. p \in U /\ U \subseteq Nat
    BY <1>1, <1>2
  <2>3. Max(U) \in U /\ \A x \in U : Max(U) >= x
    BY <2>1, <2>2 DEF Max
  <2>4. Max(U) >= p /\ p >= Max(U) /\ Max(U) \in Nat
    BY <2>1, <2>2, <2>3
  <2> QED BY <2>4
<1>6. StartOfLine(t, p + 1) = p + 1
  <2>1. U # {}
    BY <1>1
  <2> QED BY <1>5, <2>1 DEF StartOfLine
<1>7. Cardinality(T) \in Nat /\ ln = Cardinality(T) + 1
  BY <1>2, FS_CardinalityType DEF InPlace
<1> QED BY <1>4, <1>6, <1>7 DEF InPlace

\* A span without a newline stays in its line.
LEMMA BehindSpan ==
    ASSUME NEW t, NEW p \in Nat \ {0}, NEW n \in Nat, \A q \in p..(p + n - 1) : t[q] # NL,
           NEW l \in Nat, NEW ln, NEW cn, InPlace(t, p, l, ln, cn)
    PROVE  InPlace(t, p + n, l, ln, cn + n)
<1>1. NewlinesBefore(t, p + n) = NewlinesBefore(t, p)
  <2>1. ASSUME NEW q \in NewlinesBefore(t, p + n) PROVE q \in NewlinesBefore(t, p)
    <3>1. q \in 1..(p + n - 1) /\ t[q] = NL
      BY DEF NewlinesBefore
    <3>2. q \notin p..(p + n - 1)
      BY <3>1
    <3>3. q \in 1..(p - 1)
      BY <3>1, <3>2
    <3> QED BY <3>1, <3>3 DEF NewlinesBefore
  <2>2. ASSUME NEW q \in NewlinesBefore(t, p) PROVE q \in NewlinesBefore(t, p + n)
    BY DEF NewlinesBefore
  <2> QED BY <2>1, <2>2
<1>2. StartOfLine(t, p + n) = StartOfLine(t, p)
  BY <1>1 DEF StartOfLine
<1>3. l = StartOfLine(t, p) /\ cn = p - l + 1 /\ ln = Cardinality(NewlinesBefore(t, p)) + 1
  BY DEF InPlace
<1>4. cn + n = (p + n) - l + 1
  BY <1>3
<1> QED BY <1>1, <1>2, <1>3, <1>4 DEF InPlace

\* Whether tokens have newlines inside depends on those tokens only.
LEMMA SpotlessSame ==
    ASSUME NEW t, NEW a, NEW b, NEW n \in Int, \A k \in 1..n : a[k] = b[k]
    PROVE  Spotless(t, a, n) <=> Spotless(t, b, n)
<1>1. \A k \in 1..n : a[k].loc = b[k].loc /\ a[k].size = b[k].size
  OBVIOUS
<1> QED BY <1>1 DEF Spotless

\* A step that keeps what lex is through with, and where it is, keeps track.
LEMMA TrackKept ==
    ASSUME Tracked, NEW n \in Nat, n = Through(pc, tokens.items),
           UNCHANGED <<text, cur, line, line_num, col_num, printed>>,
           Through(pc', tokens'.items) = n, \A k \in 1..n : tokens'.items[k] = tokens.items[k],
           pc' # "loop",
           Last'.loc = 0 \/ Last'.loc = cur,
           Last'.line = line /\ Last'.line_num = line_num /\ Last'.col_num = col_num
    PROVE  Tracked'
<1> PICK a, b : a = tokens.items /\ b = tokens'.items
  OBVIOUS
<1>1. \A m \in 0..n : Spotless(text, a, m) <=> Spotless(text, b, m)
  <2> SUFFICES ASSUME NEW m \in 0..n PROVE Spotless(text, a, m) <=> Spotless(text, b, m)
    OBVIOUS
  <2>1. m \in Int /\ \A k \in 1..m : a[k] = b[k]
    OBVIOUS
  <2> QED BY <2>1, SpotlessSame
<1>2. ASSUME NEW k \in 1..n
      PROVE  /\ b[k].loc # 0
             /\ Spotless(text, b, k - 1) =>
                    InPlace(text, b[k].loc, b[k].line, b[k].line_num, b[k].col_num)
  <2>1. k - 1 \in 0..n /\ b[k] = a[k]
    OBVIOUS
  <2>2. /\ a[k].loc # 0
        /\ Spotless(text, a, k - 1) =>
               InPlace(text, a[k].loc, a[k].line, a[k].line_num, a[k].col_num)
    BY DEF Tracked
  <2> QED BY <1>1, <2>1, <2>2
<1>3. Spotless(text, b, n) => InPlace(text, cur, line, line_num, col_num)
  BY <1>1 DEF Tracked
<1>4. \A k \in 1..Len(printed) : Spotless(text, b, n) => Shown(text, printed[k])
  BY <1>1 DEF Tracked
<1>5. IsList(printed)
  BY DEF Tracked
<1> QED BY <1>2, <1>3, <1>4, <1>5 DEF Tracked

\* What lex is through with inside a token, and where it is.
LEMMA OpenTracked ==
    ASSUME IInv, TInv, Tracked, pc # "loop"
    PROVE  /\ Len(tokens.items) \in Nat \ {0}
           /\ Through(pc, tokens.items) = Len(tokens.items) - 1
           /\ Len(tokens.items) - 1 \in Nat
           /\ Last.loc = 0 \/ Last.loc = cur
           /\ Last.line = line /\ Last.line_num = line_num /\ Last.col_num = col_num
<1>1. Through(pc, tokens.items) = Len(tokens.items) - 1
  BY DEF Through
<1>2. Len(tokens.items) \in Nat
  BY DEF IInv, Shaped, IsArray, IsList
<1>3. Through(pc, tokens.items) \in Nat
  BY DEF Tracked
<1> QED BY <1>1, <1>2, <1>3 DEF Tracked

\* The steps inside a token keep track.
LEMMA StaysTracked ==
    ASSUME IInv, TInv, Tracked, Stays
    PROVE  Tracked'
<1> PICK n : n = Len(tokens.items) - 1
  OBVIOUS
<1>1. pc \in Open /\ pc # "loop"
  BY DEF Stays, Moves, Ends, Open
<1>2. /\ n \in Nat /\ n = Through(pc, tokens.items)
      /\ Last.loc = 0 \/ Last.loc = cur
      /\ Last.line = line /\ Last.line_num = line_num /\ Last.col_num = col_num
  BY <1>1, OpenTracked
<1>3. CASE Moves
  <2>1. /\ UNCHANGED <<text, cur, line, line_num, col_num, tokens, printed>> /\ pc' # "loop"
        /\ Last' = Last
    BY <1>3 DEF Moves, Open, Stopped, Last
  <2>2. Through(pc', tokens'.items) = n /\ \A k \in 1..n : tokens'.items[k] = tokens.items[k]
    BY <2>1 DEF Through
  <2> QED BY <1>2, <2>1, <2>2, TrackKept
<1>4. ASSUME NEW t, Ends(t) PROVE Tracked'
  <2>1. /\ UNCHANGED <<text, cur, line, line_num, col_num, printed>> /\ pc' = "report"
        /\ Replacing(t) /\ t \in Token
        /\ t.line = Last.line /\ t.line_num = Last.line_num /\ t.col_num = Last.col_num
        /\ t.loc = cur \/ t.loc = Last.loc
    BY <1>4 DEF Ends
  <2>2. /\ Len(tokens'.items) = Len(tokens.items) /\ Last' = t
        /\ \A k \in 1..n : tokens'.items[k] = tokens.items[k]
    BY <1>1, <2>1, ReplacedTyped
  <2>3. Through(pc', tokens'.items) = n /\ pc' # "loop"
    BY <2>1, <2>2 DEF Through
  <2>4. /\ Last'.loc = 0 \/ Last'.loc = cur
        /\ Last'.line = line /\ Last'.line_num = line_num /\ Last'.col_num = col_num
    BY <1>2, <2>1, <2>2
  <2> QED BY <1>2, <2>1, <2>2, <2>3, <2>4, TrackKept
<1> QED BY <1>3, <1>4 DEF Stays

\* A token that is added begins where lex is.
LEMMA AddTracked ==
    ASSUME IInv, TInv, Tracked, lexer_add_token \/ EndOfText
    PROVE  Tracked'
<1> PICK n : n = Len(tokens.items)
  OBVIOUS
<1>1. pc = "loop" /\ UNCHANGED <<text, cur, line, line_num, col_num, printed>> /\ pc' # "loop"
  BY DEF lexer_add_token, EndOfText
<1>2. n \in Nat /\ n = Through(pc, tokens.items)
  <2>1. n = Through(pc, tokens.items)
    BY <1>1 DEF Through
  <2> QED BY <2>1 DEF Tracked
<1>3. PICK t : /\ tokens' = array_push_back(tokens, t, heap).arr
               /\ t = NewToken \/ t = [NewToken EXCEPT !.token_type = "TK_EOF"]
  BY DEF lexer_add_token, EndOfText
<1>4. t \in Token
  BY <1>3, NewTyped
<1>5. t.loc = 0 /\ t.line = line /\ t.line_num = line_num /\ t.col_num = col_num
  BY <1>3 DEF NewToken
<1>6. /\ Len(tokens'.items) = n + 1 /\ Last' = t
      /\ \A k \in 1..n : tokens'.items[k] = tokens.items[k]
  BY <1>1, <1>3, <1>4, AddedTyped
<1>7. Through(pc', tokens'.items) = n
  BY <1>1, <1>2, <1>6 DEF Through
<1> QED BY <1>1, <1>2, <1>5, <1>6, <1>7, TrackKept

\* White space moves on in the line, or into the next one.
LEMMA SkipTracked ==
    ASSUME IInv, TInv, Tracked, SkipNewline \/ SkipSpace
    PROVE  Tracked'
<1>1. /\ pc = "loop" /\ pc' = "loop" /\ UNCHANGED <<text, tokens, printed>>
      /\ cur' = cur + 1
  BY DEF SkipNewline, SkipSpace, alertVars
<1>2. cur \in Nat \ {0} /\ line \in Nat /\ line_num \in Nat /\ col_num \in Nat
  BY DEF TInv, Placed, Positions
<1>3. ASSUME InPlace(text, cur, line, line_num, col_num)
      PROVE  InPlace(text, cur + 1, line', line_num', col_num')
  <2>1. CASE SkipNewline
    <3>1. text[cur] = NL /\ line_num' = line_num + 1 /\ col_num' = 1 /\ line' = cur + 1
      BY <2>1 DEF SkipNewline, column_of_line
    <3>2. InPlace(text, cur + 1, cur + 1, line_num + 1, 1)
      BY <1>2, <1>3, <3>1, BehindNewline
    <3> QED BY <3>1, <3>2
  <2>2. CASE SkipSpace
    <3>1. text[cur] # NL /\ line_num' = line_num /\ col_num' = col_num + 1 /\ line' = line
      BY <2>2 DEF SkipSpace
    <3>2. 1 \in Nat /\ \A q \in cur..(cur + 1 - 1) : text[q] # NL
      BY <1>2, <3>1
    <3>3. InPlace(text, cur + 1, line, line_num, col_num + 1)
      BY <1>2, <1>3, <3>2, BehindSpan
    <3> QED BY <3>1, <3>3
  <2> QED BY <2>1, <2>2
<1> QED BY <1>1, <1>3 DEF Tracked

\* A report shows the token in the making, where lex is.
LEMMA AlertTracked ==
    ASSUME IInv, TInv, Tracked, ReportAlert
    PROVE  Tracked'
<1> PICK n : n = Len(tokens.items) - 1
  OBVIOUS
<1>1. /\ pc = "report" /\ pc' # "loop" /\ i <= Len(queue.items)
      /\ printed' = Append(printed, report_of(queue.items[i], pointee))
      /\ UNCHANGED <<text, cur, line, line_num, col_num, tokens>>
  BY DEF ReportAlert, Reporting
<1>2. /\ n \in Nat /\ n = Through(pc, tokens.items) /\ n = Through(pc', tokens.items)
      /\ Last.line = line /\ Last.line_num = line_num /\ Last.col_num = col_num
  BY <1>1, OpenTracked DEF Through
<1>3. pointee = Last
  <2>1. i \in 1..Len(queue.items)
    BY <1>1 DEF TInv, LiteralTyped, IInv, Shaped, IsArray, IsList
  <2>2. queue.items[i].tok = tok
    BY <2>1 DEF IInv, Pointing
  <2> QED BY <2>2 DEF pointee, tok, array_at, Last
<1>4. PICK r : r = report_of(queue.items[i], pointee)
  OBVIOUS
<1>5. r.line_num = line_num /\ r.caret = line + col_num - 1
  BY <1>2, <1>3, <1>4 DEF report_of
<1>6. ASSUME Spotless(text, tokens.items, n) PROVE Shown(text, r)
  <2>1. InPlace(text, cur, line, line_num, col_num)
    BY <1>2, <1>6 DEF Tracked
  <2>2. line \in Nat /\ cur \in Nat
    BY DEF TInv, Placed, Positions
  <2>3. r.caret = cur
    BY <1>5, <2>1, <2>2 DEF InPlace
  <2>4. text[cur] \notin isspace
    BY <1>1 DEF TInv, Starting
  <2> QED BY <1>5, <2>1, <2>3, <2>4 DEF Shown, InPlace
<1>7. /\ IsList(printed') /\ Len(printed') = Len(printed) + 1 /\ printed'[Len(printed) + 1] = r
      /\ \A k \in 1..Len(printed) : printed'[k] = printed[k]
      /\ Len(printed) \in Nat
  <2>1. IsList(printed) /\ Len(printed) \in Nat
    BY DEF Tracked, IsList
  <2>2. printed' = Append(printed, r)
    BY <1>1, <1>4
  <2> QED BY <2>1, <2>2, AppendFacts
<1>8. ASSUME NEW k \in 1..Len(printed'), Spotless(text, tokens.items, n)
      PROVE  Shown(text, printed'[k])
  <2>1. CASE k = Len(printed) + 1
    BY <1>6, <1>7, <1>8, <2>1
  <2>2. CASE k \in 1..Len(printed)
    BY <1>2, <1>7, <1>8, <2>2 DEF Tracked
  <2> QED BY <1>7, <2>1, <2>2
<1>9. Last' = Last
  BY <1>1 DEF Last
<1> QED BY <1>1, <1>2, <1>7, <1>8, <1>9 DEF Tracked

\* Behind a token without a newline lex is still in its line.
LEMMA ReportedTracked ==
    ASSUME IInv, TInv, Tracked, Reported
    PROVE  Tracked'
<1> PICK n : n = Len(tokens.items)
  OBVIOUS
<1>1. /\ pc = "report" /\ pc' = "loop" /\ i > Len(queue.items)
      /\ cur' = Last.loc + Last.size /\ col_num' = col_num + Last.size
      /\ UNCHANGED <<text, line, line_num, tokens, printed>>
  BY DEF Reported, Last
<1>2. /\ n \in Nat \ {0} /\ n - 1 = Through(pc, tokens.items) /\ n - 1 \in Nat
      /\ Last.line = line /\ Last.line_num = line_num /\ Last.col_num = col_num
  BY <1>1, OpenTracked
<1>3. Through(pc', tokens'.items) = n
  BY <1>1 DEF Through
<1>4. Last.loc = cur
  <2>1. ~ \E k \in i..Len(queue.items) : queue.items[k].alert_type = "ALERT_ERR"
    <3>1. Len(queue.items) \in Nat /\ i \in Nat
      BY DEF TInv, LiteralTyped, IInv, Shaped, IsArray, IsList
    <3> QED BY <1>1, <3>1
  <2> QED BY <1>1, <2>1 DEF TInv, Settled
<1>5. PICK size \in Nat : size = Last.size
  <2>1. tokens.items \in Seq(Token)
    BY DEF TInv, Typed
  <2>2. \A S : \A q \in Seq(S) : Len(q) >= 1 => q[Len(q)] \in S
    OBVIOUS
  <2>3. Last \in Token
    BY <1>2, <2>1, <2>2 DEF Last
  <2> QED BY <2>3 DEF Token
<1>6. cur \in Nat \ {0} /\ line \in Nat
  BY DEF TInv, Placed, Positions
<1>7. /\ tokens.items[n].loc = cur /\ tokens.items[n].size = size
      /\ tokens.items[n].line = line /\ tokens.items[n].line_num = line_num
      /\ tokens.items[n].col_num = col_num
  BY <1>2, <1>4, <1>5 DEF Last
<1>8. Spotless(text, tokens.items, n) => Spotless(text, tokens.items, n - 1)
  BY <1>2 DEF Spotless
<1>9. Spotless(text, tokens.items, n - 1) => InPlace(text, cur, line, line_num, col_num)
  BY <1>2 DEF Tracked
<1>10. ASSUME Spotless(text, tokens.items, n)
       PROVE  InPlace(text, cur', line, line_num, col_num')
  <2>1. \A q \in cur..(cur + size - 1) : text[q] # NL
    <3>1. n \in 1..n
      BY <1>2
    <3> QED BY <1>7, <1>10, <3>1 DEF Spotless
  <2>2. InPlace(text, cur, line, line_num, col_num)
    BY <1>8, <1>9, <1>10
  <2>3. InPlace(text, cur + size, line, line_num, col_num + size)
    BY <1>6, <2>1, <2>2, BehindSpan
  <2>4. cur' = cur + size /\ col_num' = col_num + size
    BY <1>1, <1>4, <1>5
  <2> QED BY <2>3, <2>4
<1>11. ASSUME NEW k \in 1..n
       PROVE  /\ tokens.items[k].loc # 0
              /\ Spotless(text, tokens.items, k - 1) =>
                     InPlace(text, tokens.items[k].loc, tokens.items[k].line,
                             tokens.items[k].line_num, tokens.items[k].col_num)
  <2>1. CASE k = n
    BY <1>6, <1>7, <1>9, <2>1
  <2>2. CASE k \in 1..(n - 1)
    BY <1>2, <2>2 DEF Tracked
  <2> QED BY <1>2, <2>1, <2>2
<1>12. \A k \in 1..Len(printed) : Spotless(text, tokens.items, n) => Shown(text, printed[k])
  BY <1>2, <1>8 DEF Tracked
<1>13. IsList(printed)
  BY DEF Tracked
<1> QED BY <1>1, <1>2, <1>3, <1>10, <1>11, <1>12, <1>13 DEF Tracked

\* Where lex begins.
LEMMA InitTracked == Init => Tracked
<1> SUFFICES ASSUME Init PROVE Tracked
  OBVIOUS
<1>1. /\ cur = 1 /\ line = 1 /\ line_num = 1 /\ col_num = 1 /\ tokens.items = <<>>
      /\ printed = <<>> /\ pc = "loop"
  BY DEF Init, array_init
<1>2. Through(pc, tokens.items) = 0
  BY <1>1 DEF Through
<1>3. InPlace(text, 1, 1, 1, 1)
  <2>1. NewlinesBefore(text, 1) = {}
    BY DEF NewlinesBefore
  <2> QED BY <2>1, FS_EmptySet DEF InPlace, StartOfLine
<1>4. IsList(printed) /\ Len(printed) = 0
  BY <1>1 DEF IsList
<1> QED BY <1>1, <1>2, <1>3, <1>4 DEF Tracked

\* Every step keeps track.
LEMMA NextTracked == IInv /\ TInv /\ Tracked /\ [Next]_vars => Tracked'
<1> SUFFICES ASSUME IInv, TInv, Tracked, [Next]_vars PROVE Tracked'
  OBVIOUS
<1>1. CASE UNCHANGED vars
  BY <1>1 DEF vars, lexVars, alertVars, Tracked, Last
<1>2. CASE SubLexer \/ CharLiteral \/ StringLiteral \/ InvalidUtf8 \/ Overrun
  <2>1. Stays
    BY <1>2, SubLexerStays, CharLiteralStays, StringLiteralStays, StopStays
  <2> QED BY <2>1, StaysTracked
<1>3. CASE SkipNewline \/ SkipSpace
  BY <1>3, SkipTracked
<1>4. CASE lexer_add_token \/ EndOfText
  BY <1>4, AddTracked
<1>5. CASE ReportAlert
  BY <1>5, AlertTracked
<1>6. CASE Reported
  BY <1>6, ReportedTracked
<1>7. CASE destroy_tokens \/ FreeLiteral \/ FreeTokens
  <2>1. /\ UNCHANGED <<text, cur, line, line_num, col_num, tokens, printed>>
        /\ pc # "loop" /\ pc' # "loop" /\ Last' = Last
    BY <1>7 DEF destroy_tokens, FreeLiteral, FreeTokens, alertVars, Last
  <2>2. Through(pc', tokens.items) = Through(pc, tokens.items)
    BY <2>1 DEF Through
  <2> QED BY <2>1, <2>2 DEF Tracked
<1> QED BY <1>1, <1>2, <1>3, <1>4, <1>5, <1>6, <1>7 DEF Next

\* The lines and columns of tokens and reports are true for every text, up to a literal
\* that an escaped newline breaks: what lexer_advance adds to the column is the length
\* of a token in one line, and the queue reports only on the token in the making.
THEOREM LexerPositions == Spec => []PositionsTrue
<1>1. Init => IInv /\ TInv /\ Tracked
  BY InitIInv, InitTInv, InitTracked
<1>2. IInv /\ TInv /\ Tracked /\ [Next]_vars => IInv' /\ TInv' /\ Tracked'
  BY NextIInv, NextTInv, NextTracked
<1>3. IInv /\ TInv /\ Tracked => PositionsTrue
  <2> SUFFICES ASSUME IInv, TInv, Tracked PROVE PositionsTrue
    OBVIOUS
  <2>1. PICK n, all : n = Through(pc, tokens.items) /\ all = Len(tokens.items)
    OBVIOUS
  <2>2. /\ n \in Nat /\ all \in Nat /\ n <= all /\ all <= n + 1
        /\ pc = "loop" => n = all
        /\ pc # "loop" => all = n + 1
        /\ DOMAIN tokens.items = 1..all
    <3>1. all \in Nat /\ DOMAIN tokens.items = 1..all
      BY <2>1 DEF IInv, Shaped, IsArray, IsList
    <3>2. n \in Nat
      BY <2>1 DEF Tracked
    <3>3. n = IF pc = "loop" THEN all ELSE all - 1
      BY <2>1 DEF Through
    <3> QED BY <3>1, <3>2, <3>3
  <2>3. \A p : newlines(p) = NewlinesBefore(text, p) /\ line_start(p) = StartOfLine(text, p)
    BY DEF newlines, line_start, NewlinesBefore, StartOfLine
  <2>4. ASSUME NEW k \in 1..n
        PROVE  begin(k) = tokens.items[k].loc
    BY <2>1 DEF Tracked, begin
  <2>5. ASSUME NEW m \in 0..n, \A j \in 1..m : \A p \in span(j) : text[p] # NL
        PROVE  Spotless(text, tokens.items, m)
    <3>1. ASSUME NEW j \in 1..m
          PROVE  span(j) = tokens.items[j].loc..(tokens.items[j].loc + tokens.items[j].size - 1)
      <4>1. j \in 1..n
        BY <2>2
      <4> QED BY <2>4, <4>1 DEF span
    <3> QED BY <2>5, <3>1 DEF Spotless
  <2>6. ASSUME NEW k \in DOMAIN tokens.items,
               \A j \in 1..(k - 1) : \A p \in span(j) : text[p] # NL
        PROVE  InPlace(text, begin(k), tokens.items[k].line, tokens.items[k].line_num,
                       tokens.items[k].col_num)
    <3>1. k \in 1..all /\ k - 1 \in 0..n
      BY <2>2
    <3>2. Spotless(text, tokens.items, k - 1)
      BY <2>5, <2>6, <3>1
    <3>3. CASE k \in 1..n
      BY <2>1, <2>4, <3>2, <3>3 DEF Tracked
    <3>4. CASE k \notin 1..n
      <4>1. k = all /\ pc # "loop" /\ k - 1 = n
        BY <2>2, <3>1, <3>4
      <4>2. tokens.items[k] = Last
        BY <2>1, <4>1 DEF Last
      <4>3. begin(k) = cur
        BY <4>1, <4>2 DEF Tracked, begin
      <4>4. InPlace(text, cur, line, line_num, col_num)
        BY <2>1, <3>2, <4>1 DEF Tracked
      <4> QED BY <4>1, <4>2, <4>3, <4>4 DEF Tracked
    <3> QED BY <3>3, <3>4
  <2>7. ASSUME NEW k \in DOMAIN printed,
               \A j \in DOMAIN tokens.items : \A p \in span(j) : text[p] # NL
        PROVE  Shown(text, printed[k])
    <3>1. k \in 1..Len(printed)
      BY DEF Tracked, IsList
    <3>2. n \in 0..n /\ \A j \in 1..n : j \in DOMAIN tokens.items
      BY <2>2
    <3>3. Spotless(text, tokens.items, n)
      BY <2>5, <2>7, <3>2
    <3> QED BY <2>1, <3>1, <3>3 DEF Tracked
  <2>8. ASSUME NEW k \in DOMAIN tokens.items,
               \A j \in 1..(k - 1) : \A p \in span(j) : text[p] # NL
        PROVE  /\ tokens.items[k].line_num = Cardinality(newlines(begin(k))) + 1
               /\ tokens.items[k].line = line_start(begin(k))
               /\ tokens.items[k].col_num = begin(k) - line_start(begin(k)) + 1
    <3>1. PICK p : p = begin(k)
      OBVIOUS
    <3>2. InPlace(text, p, tokens.items[k].line, tokens.items[k].line_num, tokens.items[k].col_num)
      BY <2>6, <2>8, <3>1
    <3>3. newlines(p) = NewlinesBefore(text, p) /\ line_start(p) = StartOfLine(text, p)
      BY <2>3
    <3> QED BY <3>1, <3>2, <3>3 DEF InPlace
  <2>9. ASSUME NEW k \in DOMAIN printed,
               \A j \in DOMAIN tokens.items : \A p \in span(j) : text[p] # NL
        PROVE  /\ text[printed[k].caret] \notin isspace
               /\ printed[k].line_num = Cardinality(newlines(printed[k].caret)) + 1
    <3>1. PICK p : p = printed[k].caret
      OBVIOUS
    <3>2. text[p] \notin isspace /\ printed[k].line_num = Cardinality(NewlinesBefore(text, p)) + 1
      BY <2>7, <2>9, <3>1 DEF Shown
    <3>3. newlines(p) = NewlinesBefore(text, p)
      BY <2>3
    <3> QED BY <3>1, <3>2, <3>3
  <2> QED BY <2>8, <2>9 DEF PositionsTrue
<1> QED BY <1>1, <1>2, <1>3, PTL DEF Spec

-----------------------------------------------------------------------------
(* Reads behind the text.                                                  *)

\* The text is cut off inside a literal.
CutOff ==
    \E p \in Max({1, Len(text) - 3})..(Len(text) - 1) :
        \/ p = Len(text) - 1 /\ text[p] = BACKSLASH
        \/ text[p] > 191 /\ p + utf8_len(text[p]) > Len(text)
        \/ p = Len(text) - 2 /\ text[p] \in Chars("LuU") /\ text[p + 1] = QUOTE

\* The inductive invariant: a literal is read inside the text, or the text is cut off.
Inside ==
    /\ pc \in Bodies => s \in Positions \/ CutOff
    /\ pc = "wide" => s = cur + 2 /\ text[cur] \in Chars("LuU") /\ text[cur + 1] = QUOTE
    /\ pc = "overrun" => CutOff

\* The last bytes before the NUL are the places where a text can be cut off.
LEMMA CutAt ==
    ASSUME Given, NEW p \in Positions, text[p] # NUL,
           \/ p = Len(text) - 1 /\ text[p] = BACKSLASH
           \/ text[p] > 191 /\ p + utf8_len(text[p]) > Len(text)
           \/ p = Len(text) - 2 /\ text[p] \in Chars("LuU") /\ text[p + 1] = QUOTE
    PROVE  CutOff
<1>1. Len(text) \in Nat \ {0} /\ p \in 1..Len(text) /\ p # Len(text)
  BY TextFacts DEF Positions
<1>2. utf8_len(text[p]) \in 0..4
  BY DecodeFacts
<1>3. p >= Len(text) - 3
  BY <1>1, <1>2
<1>4. 1 \in Int /\ Len(text) - 3 \in Int
  BY <1>1
<1>5. Max({1, Len(text) - 3}) \in {1, Len(text) - 3}
  BY <1>4, PairFacts
<1>6. p \in Max({1, Len(text) - 3})..(Len(text) - 1)
  BY <1>1, <1>3, <1>5
<1> QED BY <1>6 DEF CutOff

\* An escape ends in the text, or the text ends behind its backslash.
LEMMA EscapeInside ==
    ASSUME Given, NEW p \in Positions, text[p] = BACKSLASH
    PROVE  consume_escape_sequence(p + 1).end \in Positions \/ CutOff
<1>1. p + 1 \in Positions /\ p \in Nat /\ text[p] # NUL
  BY Classes, NextPosition DEF Positions
<1>2. CASE text[p + 1] = NUL
  <2>1. p + 1 = Len(text) /\ Len(text) \in Nat
    BY <1>1, <1>2, TextFacts
  <2>2. p = Len(text) - 1
    BY <1>1, <2>1
  <2> QED BY <1>1, <2>2, CutAt
<1>3. CASE text[p + 1] # NUL
  <2>1. PICK q : q = p + 1
    OBVIOUS
  <2>2. q \in Positions /\ q + 1 \in Positions /\ text[q] # NUL
    BY <1>1, <1>3, <2>1, NextPosition
  <2>3. CASE text[q] = Ord("x")
    <3>1. Skip(q + 1, isxdigit) \in Positions
      BY <2>2, SkipFacts, Classes
    <3>2. consume_hex_escape_sequence(q + 1).end = Skip(q + 1, isxdigit)
      BY DEF consume_hex_escape_sequence, Escape
    <3> QED BY <2>1, <2>3, <3>1, <3>2 DEF consume_escape_sequence
  <2>4. CASE text[q] # Ord("x") /\ text[q] \in isoctal
    <3>1. PICK j : j = Skip(q, isoctal)
      OBVIOUS
    <3>2. j \in q..Len(text)
      BY <2>2, <3>1, SkipFacts, Classes
    <3>3. q + 4 \in Int /\ j \in Int /\ q \in 1..Len(text) /\ Len(text) \in Nat
      BY <2>2, <3>2, TextFacts DEF Positions
    <3>4. Min({q + 4, j}) \in {q + 4, j} /\ Min({q + 4, j}) <= j
      BY <3>3, PairFacts
    <3>5. Min({q + 4, j}) \in Positions
      BY <3>2, <3>3, <3>4 DEF Positions
    <3>6. consume_oct_escape_sequence(q).end = Min({q + 4, j})
      BY <3>1 DEF consume_oct_escape_sequence, Escape
    <3> QED BY <2>1, <2>4, <3>5, <3>6 DEF consume_escape_sequence
  <2>5. CASE text[q] # Ord("x") /\ text[q] \notin isoctal
    <3>1. get_escape_char(q).end = q + 1
      BY DEF get_escape_char, Escape
    <3> QED BY <2>1, <2>2, <2>5, <3>1 DEF consume_escape_sequence
  <2> QED BY <2>3, <2>4, <2>5
<1> QED BY <1>2, <1>3

\* A character that is decoded ends in the text, or the text ends inside it.
LEMMA DecodeInside ==
    ASSUME Given, NEW p \in Positions, text[p] # NUL, ~ (text[p] > 127 /\ utf8_len(text[p]) = 0)
    PROVE  p + decode_utf8(text, p).len \in Positions \/ CutOff
<1>1. PICK c : c = text[p]
  OBVIOUS
<1>2. c \in 0..255 /\ Len(text) \in Nat /\ p \in 1..Len(text) /\ p + 1 \in 1..Len(text)
  BY <1>1, TextFacts, NextPosition DEF Positions
<1>3. utf8_len(c) = IF c <= 127 THEN 1 ELSE IF c >= 240 THEN 4
                    ELSE IF c >= 224 THEN 3 ELSE IF c >= 192 THEN 2 ELSE 0
  BY DEF utf8_len
<1>4. \/ c <= 127 /\ utf8_len(c) = 1
      \/ c > 191 /\ utf8_len(c) \in 2..4
  BY <1>1, <1>2, <1>3
<1>5. decode_utf8(text, p).len = utf8_len(c)
  BY <1>1, DecodeFacts
<1>6. CASE p + utf8_len(c) <= Len(text)
  BY <1>2, <1>4, <1>5, <1>6 DEF Positions
<1>7. CASE p + utf8_len(c) > Len(text)
  <2>1. c > 191
    BY <1>2, <1>4, <1>7
  <2> QED BY <1>1, <1>7, <2>1, CutAt
<1> QED BY <1>2, <1>4, <1>6, <1>7

\* A literal begins in the text.
LEMMA OpensInside ==
    ASSUME IInv, TInv, SubLexer
    PROVE  Inside'
<1>1. pc \in Open /\ text' = text
  BY DEF SubLexer, lex_numeric_constant, lex_char_literal, lex_string_literal, lex_identifier,
         lex_punctuator, Open, Goto, SetToken, Enter
<1>2. cur \in Positions /\ text[cur] # NUL /\ cur + 1 \in Positions /\ Given /\ cur \in Nat
  BY <1>1, OpenFacts DEF Positions
<1>3. CASE pc' \notin Bodies \cup {"overrun"}
  BY <1>3 DEF Inside, Bodies
<1>4. CASE lex_char_literal /\ pc' \in Bodies \cup {"overrun"}
  <2>1. PICK wide : wide = (text[cur] \in Chars("LuU") /\ text[cur + 1] = QUOTE)
    OBVIOUS
  <2>2. PICK w, p : Enter(IF wide THEN "wide" ELSE "char_body",
                       IF wide THEN cur + 2 ELSE cur + 1, w, p)
    BY <1>4, <2>1 DEF lex_char_literal, Goto, SetToken, Bodies
  <2>3. /\ pc' = (IF wide THEN "wide" ELSE "char_body")
        /\ s' = (IF wide THEN cur + 2 ELSE cur + 1)
        /\ cur' = cur
    BY <2>2 DEF Enter
  <2>4. wide => cur + 2 \in Positions
    <3>1. wide => (cur + 1) + 1 \in Positions
      BY <1>2, <2>1, Classes, NextPosition
    <3> QED BY <1>2, <3>1 DEF Positions
  <2>5. s' \in Positions'
    BY <1>1, <1>2, <2>3, <2>4 DEF Positions
  <2> QED BY <1>1, <2>1, <2>3, <2>5 DEF Inside
<1>5. CASE lex_string_literal /\ pc' \in Bodies \cup {"overrun"}
  <2>1. PICK n : n = prefix.len
    OBVIOUS
  <2>2. text[cur + n] = DQUOTE /\ pc' = "str_body" /\ s' = cur + n + 1
    BY <1>5, <2>1 DEF lex_string_literal, Goto, Enter, Bodies
  <2>3. n \in {0, 1} \/ (n = 2 /\ matches(Bytes("u8"), cur))
    BY <2>1 DEF prefix
  <2>4. cur + n \in Positions
    <3>1. CASE n \in {0, 1}
      BY <1>2, <3>1 DEF Positions
    <3>2. CASE n = 2 /\ matches(Bytes("u8"), cur)
      <4>1. Bytes("u8") \in Seq(1..255) /\ Len(Bytes("u8")) = 2
        <5>1. Bytes("u8") = <<117, 56>>
          BY LiteralsAssumption
        <5>2. <<117, 56>> \in Seq(1..255) /\ Len(<<117, 56>>) = 2
          OBVIOUS
        <5> QED BY <5>1, <5>2
      <4> QED BY <1>2, <3>2, <4>1, MatchFacts
    <3> QED BY <2>3, <3>1, <3>2
  <2>5. cur + n + 1 \in Positions
    BY <1>2, <2>2, <2>4, Classes, NextPosition
  <2> QED BY <1>1, <2>2, <2>5 DEF Inside, Positions
<1>6. CASE lex_numeric_constant \/ lex_identifier \/ lex_punctuator
  <2>1. pc' \notin Bodies \cup {"overrun"}
    BY <1>6 DEF lex_numeric_constant, lex_identifier, lex_punctuator, Goto, SetToken, Bodies
  <2> QED BY <1>3, <2>1
<1> QED BY <1>3, <1>4, <1>5, <1>6 DEF SubLexer

\* A literal goes on in the text, or the text is cut off.
LEMMA GoesOnInside ==
    ASSUME IInv, TInv, Inside, CharLiteral \/ StringLiteral
    PROVE  Inside'
<1>1. pc \in Bodies /\ in_text /\ UNCHANGED <<text, cur>>
  <2>1. CASE WideRest
    <3>1. s \in Positions
      BY <2>1 DEF WideRest, TInv, LiteralTyped
    <3>2. pc \in Bodies /\ UNCHANGED <<text, cur>>
      BY <2>1 DEF WideRest, Bodies, SetToken
    <3>3. in_text
      BY <3>1, TextFacts DEF in_text, Positions, TInv
    <3> QED BY <3>2, <3>3
  <2>2. CASE ~WideRest
    BY <2>2 DEF CharLiteral, CharBodyClose, CharBodyEscape, CharBodyPlain, CharBodyUnterminated,
        WideChar, WideClose, StringLiteral, StringClose, StringEscape, StringPlain,
        StringUnterminated, Bodies, SetToken, Advance, Goto
  <2> QED BY <2>1, <2>2
<1>2. /\ pc \in Open /\ Given /\ s \in Positions /\ s \in Nat
      /\ text[s] # NUL => s + 1 \in Positions
  BY <1>1, BodyFacts DEF Positions
<1>3. CutOff' <=> CutOff
  BY <1>1 DEF CutOff
<1>4. Positions' = Positions
  BY <1>1 DEF Positions
<1>5. ASSUME pc' \in Bodies \ {"wide"}, s' \in Positions \/ CutOff
      PROVE  Inside'
  BY <1>3, <1>4, <1>5 DEF Inside, Bodies
<1>6. CASE CharBodyEscape \/ StringEscape
  <2>1. text[s] = BACKSLASH /\ s' = escape.end /\ pc' = pc /\ pc # "wide"
    BY <1>6 DEF CharBodyEscape, StringEscape, Advance
  <2>2. escape.end \in Positions \/ CutOff
    BY <1>2, <2>1, EscapeInside DEF escape
  <2> QED BY <1>1, <1>5, <2>1, <2>2
<1>7. CASE CharBodyPlain
  <2>1. text[s] # NUL /\ s' = s + 1 /\ pc' = pc /\ pc # "wide"
    BY <1>7 DEF CharBodyPlain, Advance, at_line_end
  <2> QED BY <1>1, <1>2, <1>5, <2>1
<1>8. CASE WideChar
  <2>1. /\ pc = "wide" /\ pc' = "wide_close" /\ ~invalid_utf8
        /\ s' = IF text[s] = BACKSLASH THEN escape.end ELSE s + decode_utf8(text, s).len
    BY <1>8 DEF WideChar
  <2>2. CASE text[s] = BACKSLASH
    <3>1. escape.end \in Positions \/ CutOff
      BY <1>2, <2>2, EscapeInside DEF escape
    <3> QED BY <1>5, <2>1, <2>2, <3>1 DEF Bodies
  <2>3. CASE text[s] # BACKSLASH /\ text[s] # NUL
    <3>1. s + decode_utf8(text, s).len \in Positions \/ CutOff
      BY <1>2, <2>1, <2>3, DecodeInside DEF invalid_utf8
    <3> QED BY <1>5, <2>1, <2>3, <3>1 DEF Bodies
  <2>4. CASE text[s] = NUL
    <3>1. s = cur + 2 /\ text[cur] \in Chars("LuU") /\ text[cur + 1] = QUOTE
      BY <2>1 DEF Inside
    <3>2. s = Len(text) /\ cur \in Positions /\ text[cur] # NUL
      BY <1>2, <2>4, TextFacts, OpenFacts
    <3>3. cur = Len(text) - 2
      BY <1>2, <3>1, <3>2 DEF Positions
    <3>4. CutOff
      BY <1>2, <3>1, <3>2, <3>3, CutAt
    <3> QED BY <1>5, <2>1, <3>4 DEF Bodies
  <2> QED BY <2>2, <2>3, <2>4
<1>9. CASE StringPlain
  <2>1. PICK n : n = decode_utf8(text, s).len
    OBVIOUS
  <2>2. /\ text[s] # NUL /\ pc' = pc /\ pc # "wide"
        /\ s' = IF width = CW_UTF8 THEN s + 1 ELSE s + n
        /\ width # CW_UTF8 => ~invalid_utf8
    BY <1>9, <2>1 DEF StringPlain, Advance, at_line_end
  <2>3. width # CW_UTF8 => s + n \in Positions \/ CutOff
    BY <1>2, <2>1, <2>2, DecodeInside DEF invalid_utf8
  <2> QED BY <1>1, <1>2, <1>5, <2>2, <2>3
<1>10. CASE WideClose /\ pc' = "wide_rest"
  <2>1. s' = s
    BY <1>10 DEF WideClose, Goto, SetToken
  <2> QED BY <1>2, <1>5, <1>10, <2>1 DEF Bodies
<1>11. CASE pc' = "report"
  BY <1>11 DEF Inside, Bodies
<1>12. \/ CharBodyEscape \/ CharBodyPlain \/ WideChar \/ (WideClose /\ pc' = "wide_rest")
       \/ StringEscape \/ StringPlain \/ pc' = "report"
  BY DEF CharLiteral, CharBodyClose, CharBodyUnterminated, WideClose, WideRest, StringLiteral,
         StringClose, StringUnterminated, SetToken, Goto
<1> QED BY <1>6, <1>7, <1>8, <1>9, <1>10, <1>11, <1>12

\* Every step keeps literals inside.
LEMMA NextInside == IInv /\ TInv /\ Inside /\ [Next]_vars => Inside'
<1> SUFFICES ASSUME IInv, TInv, Inside, [Next]_vars PROVE Inside'
  OBVIOUS
<1>1. CASE UNCHANGED vars
  BY <1>1 DEF vars, lexVars, Inside, Positions, CutOff
<1>2. CASE SubLexer
  BY <1>2, OpensInside
<1>3. CASE CharLiteral \/ StringLiteral
  BY <1>3, GoesOnInside
<1>4. CASE Overrun
  <2>1. pc \in Bodies /\ pc' = "overrun" /\ s \in Nat \ {0} /\ ~ (s <= Len(text)) /\ text' = text
    BY <1>4 DEF Overrun, in_text, Bodies, Goto, TInv, LiteralTyped
  <2>2. CutOff
    BY <2>1 DEF Inside, Positions
  <2> QED BY <2>1, <2>2 DEF Inside, Bodies, CutOff
<1>5. CASE \/ SkipNewline \/ SkipSpace \/ lexer_add_token \/ InvalidUtf8 \/ ReportAlert \/ Reported
           \/ EndOfText \/ destroy_tokens \/ FreeLiteral \/ FreeTokens
  <2>1. pc' \in {"loop", "numeric", "exit", "report", "returned", "destroy", "done"}
    BY <1>5 DEF SkipNewline, SkipSpace, lexer_add_token, InvalidUtf8, ReportAlert, Reported,
       EndOfText, destroy_tokens, FreeLiteral, FreeTokens, Goto, Reporting
  <2> QED BY <2>1 DEF Inside, Bodies
<1> QED BY <1>1, <1>2, <1>3, <1>4, <1>5 DEF Next

\* lex reads behind the NUL of its text for texts only that are cut off inside a
\* literal, for every text: an escape that is the last thing, a sequence of UTF-8 that
\* is longer than what is left, and a wide character literal without its character.
THEOREM LexerOverruns == Spec => []OverrunsOnlyAtCut
<1>1. Init => IInv /\ TInv /\ Inside
  <2>1. Init => Inside
    BY DEF Init, Inside, Bodies
  <2> QED BY <2>1, InitIInv, InitTInv
<1>2. IInv /\ TInv /\ Inside /\ [Next]_vars => IInv' /\ TInv' /\ Inside'
  BY NextIInv, NextTInv, NextInside
<1>3. Inside => OverrunsOnlyAtCut
  BY DEF Inside, CutOff, OverrunsOnlyAtCut
<1> QED BY <1>1, <1>2, <1>3, PTL DEF Spec
=============================================================================
