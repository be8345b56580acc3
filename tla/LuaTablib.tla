------------------------------ MODULE LuaTablib ------------------------------
(* The table library (ltablib.c) but for sort, and the buffers of lauxlib.c   *)
(* that concat builds its result in.  A table is a function from the integers *)
(* of the machine to values; its length is any border, passed as len.         *)
EXTENDS Integers, Sequences
LOCAL INSTANCE SequencesExt

CONSTANTS INTBITS,          \* bits of a lua_Integer
          UNPACKMAX,        \* results that the stack has space for
          LUAL_BUFFERSIZE,  \* characters in a luaL_Buffer itself
          MAXBUFFER         \* a size_t is below this

LUA_MAXINTEGER == 2^(INTBITS - 1) - 1
LUA_MININTEGER == -2^(INTBITS - 1)
Key == LUA_MININTEGER .. LUA_MAXINTEGER
intop(x) == ((x - LUA_MININTEGER) % 2^INTBITS) + LUA_MININTEGER
nil == <<"nil">>

tab_error(arg) == <<"error", arg>>
Returns(t, values) == <<"ok", t, values>>

(* The values at the keys of from go to the keys of to, one after the other.  *)
Copy(to, tt, from, ft, same) ==
  FoldLeft(LAMBDA a, k : [a EXCEPT ![to[k]] = IF same THEN a[from[k]] ELSE ft[from[k]]],
           tt, [k \in DOMAIN to |-> k])
Up(a, b) == [k \in 1 .. (IF a <= b THEN b - a + 1 ELSE 0) |-> a + k - 1]
Down(a, b) == Reverse(Up(a, b))

(* table.insert(t, v) and table.insert(t, pos, v): pos is <<>> or <<number>>.  *)
tinsert(t, len, pos, v) ==
  LET e == intop(len + 1)
      at == IF pos = <<>> THEN e ELSE pos[1]
  IN IF pos # <<>> /\ ~(1 <= at /\ at <= e) THEN tab_error(2)
     ELSE Returns([Copy(Down(at + 1, e), t, Down(at, e - 1), t, TRUE) EXCEPT ![at] = v], <<>>)

tremove(t, size, pos) ==
  LET at == IF pos = <<>> THEN size ELSE pos[1]
      last == IF at < size THEN size ELSE at
  IN IF at # size /\ ~(1 <= at /\ at <= intop(size + 1)) THEN tab_error(1)
     ELSE Returns([Copy(Up(at, size - 1), t, Up(at + 1, size), t, TRUE) EXCEPT ![last] = nil], <<t[at]>>)

(* Mutant: elements are always moved from the first one on.                   *)
AnyWay(f, e, t, same) == TRUE

(* Is it safe to move from the first element on?                              *)
Forwards(f, e, t, same) == t > e \/ t <= f \/ ~same

(* Elements f to e of a1 go to a2 (the same table or another), from t on.     *)
tmove(a1, f, e, t, a2, same) ==
  LET n == intop(e - f + 1)
      offsets == IF Forwards(f, e, t, same) THEN Up(0, n - 1) ELSE Down(0, n - 1)
      at(from) == [k \in DOMAIN offsets |-> intop(from + offsets[k])]
  IN CASE e >= f /\ ~(f > 0 \/ e < intop(LUA_MAXINTEGER + f)) -> tab_error(3)
       [] e >= f /\ (f > 0 \/ e < intop(LUA_MAXINTEGER + f)) ->
            IF ~(t <= intop(intop(LUA_MAXINTEGER - n) + 1)) THEN tab_error(4)
            ELSE Returns(Copy(at(t), a2, at(f), a1, same), <<>>)
       [] OTHER -> Returns(a2, <<>>)

tpack(args) == [n |-> Len(args), t |-> [k \in Key |-> IF k \in DOMAIN args THEN args[k] ELSE nil]]

unpack(t, i, e) ==
  LET n == (e - i) % 2^INTBITS
  IN CASE i > e -> Returns(t, <<>>)
       [] i <= e /\ n + 1 > UNPACKMAX -> tab_error(0)
       [] OTHER -> Returns(t, [k \in 1 .. n + 1 |-> t[i + k - 1]])

------------------------------------------------------------------------------
(* Buffers.  b is where the characters are: "initb", or a box of the heap.    *)

size_t_of(n) == n % MAXBUFFER
luaL_buffinit == [b |-> "initb", size |-> LUAL_BUFFERSIZE, text |-> <<>>, err |-> FALSE]
buffn(B) == Len(B.text)

(* Space for sz more characters; what is there already moves along.           *)
luaL_prepbuffsize(B, sz) ==
  LET n == buffn(B)
      double == size_t_of(B.size * 2)
      newsize == IF size_t_of(double - n) < sz THEN size_t_of(n + sz) ELSE double
  IN CASE B.size - n >= sz -> B
       [] B.size - n < sz /\ (newsize < n \/ size_t_of(newsize - n) < sz) -> [B EXCEPT !.err = TRUE]
       [] OTHER -> [B EXCEPT !.b = "box", !.size = newsize]
luaL_addlstring(B, s) ==
  LET r == luaL_prepbuffsize(B, Len(s))
  IN IF s = <<>> \/ B.err THEN B ELSE IF r.err THEN r ELSE [r EXCEPT !.text = @ \o s]
(* The result; a box is emptied, not left to the collector.                   *)
luaL_pushresult(B) == B.text

(* A field that is no string or number is an error.                           *)
addfield(B, v) == IF v = nil THEN [B EXCEPT !.err = TRUE] ELSE luaL_addlstring(B, v)
tconcat(t, sep, i, last) ==
  LET add(B, k) == IF B.err THEN B
                   ELSE IF k < last THEN luaL_addlstring(addfield(B, t[k]), sep) ELSE addfield(B, t[k])
      B == FoldLeft(add, luaL_buffinit, Up(i, last))
  IN IF B.err THEN tab_error(0) ELSE Returns(t, <<luaL_pushresult(B)>>)
==============================================================================
