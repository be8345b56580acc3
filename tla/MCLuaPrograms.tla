---------------------------- MODULE MCLuaPrograms ----------------------------
(* Programs for the compiler and the virtual machine, in families that meet   *)
(* what is hard about them.                                                   *)
EXTENDS LuaMeaning
LOCAL INSTANCE SequencesExt

x == name("x")
y == name("y")
n == name("n")
t == name("t")
f(es) == call(name("f"), es)
set(v, e) == assign(<<v>>, <<e>>)
let(v, e) == local(<<v>>, <<e>>)
add(v, k) == set(v, bin("+", v, num(k)))
lambda(b) == func(<<>>, FALSE, b)

(* Truth values: variables, comparisons (jumps), constants, results of "not", *)
(* nested in both ways, as a value, as a condition and as an operand.         *)
Leaf == {x, y, bin("<", n, num(2)), nil, un("not", x), f(<<y>>)}
Logic == {bin(o[1], a, bin(o[2], b, c)) : o \in {"and", "or"} \X {"and", "or"},
            a \in {x, y, bin("<", n, num(2))}, b \in Leaf, c \in {y, bin("==", n, x), num(1)}}
          \cup {bin(o[1], bin(o[2], a, un("not", b)), c) : o \in {"and", "or"} \X {"and", "or"},
            a \in {x, bin("<", n, num(2))}, b \in {y, bin("~=", x, y)}, c \in {y, bin("<=", n, x), nil}}
Truths ==
  {<<local(<<"x", "y", "n">>, <<false, str("a"), num(k)>>),
     let("v", e), f(<<name("v"), e, un("not", x)>>),
     if(<<<<un("not", e), <<f(<<num(1)>>)>>>>>>, <<while(e, <<break>>)>>),
     return(<<bin("==", paren(e), y), e>>)>> : e \in Logic, k \in {1, 2}}

(* Every operator: on constants (folded), on variables, and mixed.            *)
Operand == {num(0), num(3), num(-8), flt(3, 2), un("-", flt(0, 1)), str("2")}
Ops == {"+", "-", "*", "/", "%", "//", "&", "|", "~", "<<", ">>", "..", "==", "~=", "<", ">", "<=", ">="}
(* There are no negative numerals.                                            *)
Literal(e) ==
  CASE e[1] = "num" /\ ttisinteger(e[2]) /\ e[2][2] < 0 ->
         paren(bin("-", un("-", num(-1 - e[2][2])), num(1)))
    [] e[1] = "num" /\ ttisfloat(e[2]) /\ Less(e[2], Integer(0)) ->
         un("-", <<"num", luai_numunm(e[2])>>)
    [] OTHER -> e
Arithmetic ==
  {<<local(<<"x", "y">>, <<Literal(a), Literal(b)>>),
     f(<<bin(o, Literal(a), Literal(b)), bin(o, x, Literal(b)), bin(o, Literal(a), y)>>),
     f(<<un("-", bin(o, x, y)), un("~", x)>>)>> : o \in Ops, a \in Operand, b \in Operand}
Powers ==
  {<<let("x", a), f(<<bin("^", a, num(k)), bin("^", x, un("-", num(k))), un("-", bin("^", x, num(2))),
                      un("#", str("ab"))>>)>> : a \in {num(2), flt(3, 2), str("2")}, k \in 0 .. 3}

(* Assignments to several targets that are tables and indices of one another, *)
(* on local variables, upvalues and globals.                                  *)
Targets == {x, t, index(t, x), index(t, num(1)), index(index(t, num(2)), x), name("u")}
Values == {<<num(2), num(5), num(6)>>, <<x, f(<<num(5), num(6)>>)>>, <<num(3)>>,
           <<f(<<num(2), t>>)>>}
Several ==
  {<<assign(ts, vs), f(<<x, name("u"), index(t, num(1)), index(t, num(2))>>)>> :
     ts \in {<<a, b>> : a, b \in Targets} \cup {<<a, b, c>> : a, b, c \in {x, t, index(t, x), index(t, num(1))}},
     vs \in Values}
Distinct(b) == \A i, j \in DOMAIN b[1][2] : i # j => b[1][2][i] # b[1][2][j]
Setting == <<num(1), table(<<item(num(3)), item(table(<<item(num(4))>>))>>)>>
Assignments ==
  UNION {{<<local(<<"x", "t">>, Setting)>> \o b,
          <<local(<<"x", "t">>, Setting), call(paren(lambda(b)), <<>>), f(<<x, index(t, num(1))>>)>>} :
           b \in {c \in Several : Distinct(c)}}
Adjusting ==
  {<<local(<<"x", "y", "z">>, vs), f(<<x, y, name("z")>>), local(<<"v", "w">>, <<>>),
     f(<<name("v"), name("w")>> \o vs)>> :
     vs \in {<<>>, <<num(1)>>, <<f(<<num(1), num(2)>>)>>, <<f(<<>>)>>, <<num(1), f(<<num(2)>>)>>,
             <<num(1), num(2), num(3), f(<<num(4)>>)>>, <<f(<<num(1), num(2)>>), num(3)>>,
             <<paren(f(<<num(1), num(2)>>))>>, <<num(1), num(2), num(3), num(4)>>}}

(* Loops whose bodies make closures over fresh variables and leave in every   *)
(* way; then the closures are called.                                         *)
fs == name("fs")
keep == set(index(fs, n), lambda(<<add(x, 1), f(<<x>>)>>))
Bodies(exit) ==
  {<<add(n, 1), let("x", n), keep>> \o e : e \in exit}
    \cup {<<add(n, 1), do(<<let("x", n), keep>> \o e)>> : e \in exit}
    \cup {<<add(n, 1), let("y", num(0)), do(<<let("x", n)>> \o e \o <<keep>>), f(<<y>>)>> : e \in exit}
ExitWith(s) == <<if(<<<<bin(">", n, num(1)), <<s>>>>>>, <<>>)>>
Exit == {<<>>, ExitWith(break), ExitWith(goto("out")), ExitWith(return(<<x>>)),
         <<if(<<<<bin("<", n, num(2)), <<f(<<num(0)>>), goto("out")>>>>, <<x, <<break>>>>>>, <<f(<<x>>)>>)>>}
Continue == {<<if(<<<<bin("==", n, num(1)), <<goto("next")>>>>>>, <<f(<<n>>)>>)>>}
LoopsOf(b) ==
  {while(bin("<", n, num(3)), b), repeat(b, bin(">=", n, num(2))), repeat(b, bin(">", x, num(2))),
   numericfor("i", <<num(1), num(3)>>, b), forin(<<"i", "j">>, <<name("it"), num(3)>>, b)}
Around(s) ==
  <<local(<<"fs", "n", "x">>, <<table(<<>>), num(0), num(3)>>),
    s, label("out"), f(<<n, x>>),
    numericfor("i", <<num(1), un("#", fs)>>, <<call(index(fs, name("i")), <<>>), call(index(fs, name("i")), <<>>)>>)>>
Loops ==
  {Around(s) : s \in UNION {LoopsOf(b) : b \in Bodies(Exit)}}
    \cup {Around(s) : s \in UNION {LoopsOf(Append(b, label("next"))) : b \in Bodies(Continue)}}

(* Blocks of gotos, labels and locals in any order: which are allowed, and    *)
(* which variables a jump closes.                                             *)
jump == if(<<<<bin("<", n, num(3)), <<add(n, 1), goto("a")>>>>>>, <<>>)
capture == set(index(fs, bin("+", un("#", fs), num(1))), lambda(<<add(x, 1), f(<<x>>)>>))
Piece == {<<jump>>, <<label("a")>>, <<let("x", n), capture>>, <<let("x", num(2))>>,
          <<do(<<jump>>)>>, <<do(<<let("x", n), capture, jump>>)>>,
          <<do(<<label("a")>>)>>, <<repeat(<<let("x", n), capture, jump>>, bin(">=", x, num(0)))>>}
HasLabel(p) == \E i \in DOMAIN p : p[i] \in {<<label("a")>>, <<do(<<label("a")>>)>>}
(* Two jumps back, one of them before the capture of the variable it leaves.  *)
jumpa == if(<<<<bin("==", n, num(2)), <<add(n, 1), goto("a")>>>>>>, <<>>)
jumpb == if(<<<<bin("<", n, num(4)), <<add(n, 1), goto("b")>>>>>>, <<>>)
Twice == {<<label("a"), let("x", n)>> \o p : p \in {q \in [1 .. 4 -> {label("b"), jumpa, capture, jumpb}] :
            \A i, j \in 1 .. 4 : q[i] = q[j] => i = j}}
Gotos ==
  {<<local(<<"fs", "n">>, <<table(<<>>), num(0)>>), do(FlattenSeq(p) \o end),
     numericfor("i", <<num(1), un("#", fs)>>, <<call(index(fs, name("i")), <<>>), call(index(fs, name("i")), <<>>)>>)>> :
     p \in {q \in {<<a, b, c>> : a, b, c \in Piece} : HasLabel(q)} \cup {<<q>> : q \in Twice}, end \in {<<>>, <<f(<<n>>)>>}}

(* Constructors: items stored in batches, with open calls, keys and nils.     *)
FieldSet == {item(num(1)), item(f(<<num(5), num(6)>>)), pair(num(2), num(3)), pair(str("a"), x), item(nil),
             item(call(name("g"), <<>>))}
Constructors ==
  {<<let("x", num(4)), let("t", table(fd \o <<item(num(2)), item(f(<<num(7)>>))>>)),
     f(<<un("#", t), index(t, num(1)), index(t, num(2)), index(t, num(3)), index(t, num(4)),
         index(t, str("a"))>>)>> : fd \in {<<a, b, c>> : a, b, c \in FieldSet}}
  \cup {<<let("t", table(fd)), f(<<index(t, num(1)), index(t, num(2)), index(t, num(3))>>)>> :
          fd \in {<<a, b>> : a, b \in FieldSet}}

(* Numeric loops near the ends of the integers, with limits that are floats;  *)
(* a loop that would wrap around is left after some turns.                    *)
From == {num(1), num(-8), num(6), flt(1, 1)}
Limit == {num(3), num(7), num(-8), flt(5, 2), flt(100, 1), flt(-100, 1), bin("/", num(1), num(0)), str("x")}
StepBy == {<<num(1)>>, <<num(-1)>>, <<num(3)>>, <<num(-7)>>, <<flt(1, 2)>>, <<>>}
NumericLoops ==
  {<<let("n", num(0)),
     numericfor("i", <<Literal(a), Literal(l)>> \o [i \in DOMAIN s |-> Literal(s[i])],
            <<f(<<name("i")>>), add(n, 1), if(<<<<bin(">", n, num(3)), <<break>>>>>>, <<>>)>>),
     f(<<n>>)>> : a \in From, l \in Limit, s \in StepBy}

(* Functions: recursion, tail calls, methods, variable arguments, upvalues    *)
(* through several functions, and errors.                                     *)
fact == func(<<"k">>, FALSE,
          <<if(<<<<bin("<=", name("k"), num(0)), <<return(<<num(1)>>)>>>>>>, <<>>),
            return(<<bin("*", name("k"), call(name("h"), <<bin("-", name("k"), num(1))>>))>>)>>)
countdown == func(<<"k">>, FALSE,
          <<if(<<<<bin(">", name("k"), num(0)),
                   <<return(<<call(name("h"), <<bin("-", name("k"), num(1)), name("k")>>)>>)>>>>>>, <<>>),
            return(<<f(<<name("k"), num(1)>>)>>)>>)
adder == lambda(<<return(<<lambda(<<add(x, 2), f(<<x>>)>>)>>)>>)
VarArg(b) == func(<<"p">>, TRUE, b)
Functions ==
  { <<localfunction("h", fact), f(<<call(name("h"), <<num(3)>>), call(name("h"), <<num(0)>>)>>)>>,
    <<function("h", countdown), return(<<call(name("h"), <<num(2)>>)>>)>>,
    <<localfunction("h", countdown), f(<<call(name("h"), <<num(2)>>)>>), f(<<call(name("h"), <<nil>>)>>)>>,
    <<let("x", num(0)), let("h", adder), let("q", call(name("h"), <<>>)), call(name("q"), <<>>),
      call(call(name("h"), <<>>), <<>>), return(<<x>>)>>,
    <<let("o", table(<<pair(str("a"), num(1)),
        pair(str("b"), func(<<"self", "k">>, FALSE,
               <<set(index(name("self"), str("a")), bin("+", index(name("self"), str("a")), name("k"))),
                 return(<<name("self")>>)>>))>>)),
      f(<<index(method(method(name("o"), "b", <<num(2)>>), "b", <<num(3)>>), str("a"))>>),
      method(name("o"), "a", <<>>)>>,
    <<let("h", VarArg(<<let("w", table(<<item(dots)>>)), f(<<name("p"), un("#", name("w")), dots>>),
                        return(<<dots>>)>>)),
      f(<<call(name("h"), <<>>)>>), f(<<call(name("h"), <<num(1), num(2), num(3)>>), num(4)>>),
      f(<<paren(call(name("h"), <<num(1), num(2), num(3)>>))>>),
      local(<<"v", "w", "z">>, <<call(name("h"), <<num(1), num(2)>>)>>), f(<<name("v"), name("w"), name("z")>>)>>,
    <<let("h", VarArg(<<local(<<"v", "w">>, <<dots>>), return(<<f(<<name("p"), name("v"), name("w")>>)>>)>>)),
      return(<<call(name("h"), <<num(1), num(2)>>)>>)>>,
    <<localfunction("h", func(<<"k">>, TRUE,
        <<if(<<<<bin("==", name("k"), num(0)), <<return(<<dots>>)>>>>>>, <<>>),
          return(<<call(name("h"), <<bin("-", name("k"), num(1)), name("k"), dots>>)>>)>>)),
      f(<<call(name("h"), <<num(3)>>)>>)>>,
    <<let("x", num(1)), let("t", table(<<>>)),
      numericfor("i", <<num(1), num(2)>>,
        <<set(index(t, name("i")), lambda(<<return(<<x>>)>>)), let("y", name("i")),
          set(index(t, bin("+", name("i"), num(2))), lambda(<<add(y, 1), return(<<y>>)>>))>>),
      f(<<bin("==", index(t, num(3)), index(t, num(4))), call(index(t, num(2)), <<>>),
          call(index(t, num(3)), <<>>), call(index(t, num(4)), <<>>), call(index(t, num(3)), <<>>)>>)>>,
    <<f(<<index(nil, num(1))>>)>>, <<let("x", num(1)), call(x, <<>>)>>,
    <<let("t", table(<<>>)), set(index(t, nil), num(1))>>, <<let("t", table(<<>>)), f(<<bin("<", t, t)>>)>>,
    <<f(<<bin("..", str("a"), bin("..", num(1), flt(1, 2))), bin("..", str("x"), nil)>>)>>,
    <<forin(<<"i">>, <<func(<<"s", "c">>, FALSE,
        <<if(<<<<bin("==", name("c"), nil), <<return(<<num(1), num(2)>>)>>>>>>, <<>>)>>)>>, <<f(<<name("i")>>)>>)>>,
    <<forin(<<"i", "j", "k">>, <<nil>>, <<f(<<name("i")>>)>>)>> }

(* The limits of the compiler: nested statements, registers, long jumps,      *)
(* locals, upvalues handed down through a function, and items of a list.      *)
Deep(m) == LET d[i \in 0 .. m] == IF i = 0 THEN f(<<x>>) ELSE LET s == d[i - 1] IN do(<<s>>) IN d[m]
Wide(m) == f([i \in 1 .. m |-> IF i % 2 = 0 THEN x ELSE num(i % 7)])
Nested(m) == <<let("x", num(1)), Deep(m)>>
Calling(m) == <<let("x", num(1)), Wide(m)>>
Repeated(m, k) ==
  <<let("x", num(1)), while(bin("<", x, num(3)), <<add(x, 1)>> \o [i \in 1 .. k |-> Wide(m)])>>
Declaring(m) == <<local([i \in 1 .. m |-> "x"], <<num(1)>>), f(<<x>>)>>
Capturing(m) ==
  LET names == SubSeq(<<"x", "y", "n", "t", "z">>, 1, m)
      values == [i \in 1 .. m |-> name(names[i])]
  IN <<local(names, <<num(1), num(2), num(3)>>), let("h", lambda(<<return(<<lambda(<<return(values)>>)>>)>>)),
       f(<<call(call(name("h"), <<>>), <<>>)>>)>>
Listing(m) == <<let("t", table([i \in 1 .. m |-> item(num(i))])), f(<<index(t, num(1)), index(t, num(m))>>)>>

WithinLimits ==
  {Nested(2), Nested(7), Calling(3), Calling(17), Repeated(0, 0), Repeated(3, 2), Repeated(10, 2),
   Declaring(2), Declaring(10), Capturing(4), Listing(6)}
(* The programs just beyond, and the error each must get.                     *)
TooLarge ==
     Nested(8) :> "too many C levels" @@ Calling(18) :> "function or expression needs too many registers"
  @@ Repeated(11, 2) :> "control structure too long" @@ Declaring(11) :> "too many local variables"
  @@ Capturing(5) :> "too many upvalues" @@ Listing(7) :> "constructor too long"

Programs == Truths \cup Arithmetic \cup Powers \cup Assignments \cup Adjusting \cup Loops
              \cup Gotos \cup Constructors \cup NumericLoops \cup Functions
              \cup WithinLimits \cup DOMAIN TooLarge
==============================================================================
