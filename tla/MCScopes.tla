------------------------------ MODULE MCScopes -------------------------------
(***************************************************************************)
(* The checker's walk over five families of scripts: blocks and locals     *)
(* around one name, labels and jumps of two bodies, state changes and      *)
(* returns, declarations at the top level that collide, and the signatures *)
(* of events.                                                              *)
(***************************************************************************)
EXTENDS Scopes

MCNames == {"touch", "timer", "a", "b", "_p", "PI", "llAbs", "llGet", "llNew", "default", "s", "t"}
MCBuiltinConsts == {"PI"}
MCBuiltinFns ==
  [llAbs |-> <<[params |-> 1, mono |-> FALSE]>>,
   llGet |-> <<[params |-> 1, mono |-> TRUE], [params |-> 2, mono |-> FALSE], [params |-> 1, mono |-> FALSE]>>]
MCBuiltinEvents ==
  [touch |-> <<<<>>, <<"integer">>, <<"key", "void">>, <<"key", "list", "key">>>>, timer |-> <<<<"integer">>>>]
MCLlNames == {"llAbs", "llGet", "llNew"}
MCPrivate == {"_p"}

Use(name) == [op |-> "use", name |-> name]
CallOf(name, args) == [op |-> "call", name |-> name, args |-> args]

Open == [op |-> "open"]
Close == [op |-> "close"]
Expr(refs) == [op |-> "expr", refs |-> refs]
Decl(name, refs) == [op |-> "decl", name |-> name, refs |-> refs]
JumpTo(name) == [op |-> "jump", name |-> name]
LabelNamed(name) == [op |-> "label", name |-> name]
StateTo(name) == [op |-> "state", name |-> name]
ReturnOf(refs) == [op |-> "return", value |-> refs # <<>>, refs |-> refs]

UpTo(n, items) == UNION {[1 .. k -> items] : k \in 0 .. n}

Balanced(body) ==
  /\ \A i \in DOMAIN body : Depth(body, i) >= 0
  /\ Depth(body, Len(body)) = 0

Bodies(n, items) == {<<Open>> \o b \o <<Close>> : b \in {b \in UpTo(n, items) : Balanced(b)}}

Func(name, params, value, body) == [name |-> name, params |-> params, value |-> value, body |-> body]
EventOf(state, name, types, params, body) ==
  [state |-> state, name |-> name, params |-> params, types |-> types, body |-> body]
Event(state, name, params, body) ==
  EventOf(state, name, SubSeq(<<IF params = <<"a">> THEN "integer" ELSE "key", "list">>, 1, Len(params)), params, body)
GlobalOf(name, refs) == [name |-> name, refs |-> refs]

ScriptOf(globals, funcs, events, states, wall) ==
  [globals |-> globals, funcs |-> funcs, events |-> events, states |-> states, wall |-> wall, lso |-> FALSE]

Empty == <<Open, Close>>

-----------------------------------------------------------------------------
BlockBodies ==
  Bodies(4, {Open, Close, Decl("a", <<>>), Decl("a", <<Use("a")>>),
             Expr(<<Use("a")>>), Expr(<<CallOf("a", 0)>>)})

Blocks ==
  {ScriptOf(<<>>, <<Func("b", params, FALSE, body)>>, <<>>, <<"default">>, TRUE) :
     params \in {<<>>, <<"a">>}, body \in BlockBodies}
  \cup {ScriptOf(<<GlobalOf("a", <<>>)>>, <<Func("b", <<>>, FALSE, body)>>, <<>>, <<"default">>, TRUE) :
          body \in BlockBodies}
  \cup {ScriptOf(<<>>, <<Func("a", <<>>, FALSE, body)>>, <<>>, <<"default">>, TRUE) :
          body \in BlockBodies}

JumpBodies == Bodies(3, {Open, Close, JumpTo("a"), LabelNamed("a"), JumpTo("b")})

Jumps ==
  {ScriptOf(<<>>, <<Func("b", <<>>, FALSE, one)>>, <<Event(1, "touch", <<>>, two)>>,
          <<"default">>, FALSE) : one \in JumpBodies, two \in JumpBodies}

LastItems == {StateTo("t"), StateTo("s"), StateTo("b"), ReturnOf(<<>>), ReturnOf(<<Use("a")>>),
              ReturnOf(<<Use("b")>>), Expr(<<Use("PI"), CallOf("llAbs", 1)>>),
              Expr(<<CallOf("llAbs", 0), CallOf("llNew", 2), CallOf("t", 0)>>), Decl("PI", <<>>),
              Expr(<<CallOf("llGet", 1)>>), Expr(<<CallOf("llGet", 2), CallOf("b", 1)>>), Decl("s", <<CallOf("llGet", 0)>>)}

(* Each for both targets.                                                  *)
Changes ==
  {[ScriptOf(<<GlobalOf("a", <<>>)>>, <<Func("b", <<>>, value, <<Open, one, Close>>)>>,
          <<Event(1, "touch", <<>>, <<Open, two, Close>>), Event(i, name, params, Empty)>>,
          <<"default", "t">>, TRUE) EXCEPT !.lso = lso] :
     lso \in BOOLEAN, value \in BOOLEAN, one \in LastItems, two \in LastItems, i \in 1 .. 2,
     name \in {"touch", "timer"}, params \in {<<"a">>, <<"b", "b">>}}

Tops ==
  {ScriptOf(globals, funcs, <<Event(1, "touch", <<>>, <<Open, Expr(refs), Close>>)>>, states, TRUE) :
     globals \in UpTo(2, {GlobalOf("a", <<>>), GlobalOf("a", <<Use("b")>>), GlobalOf("b", <<Use("a")>>),
                          GlobalOf("b", <<CallOf("_p", 0), Use("PI")>>), GlobalOf("PI", <<>>)}),
     funcs \in UpTo(2, {Func("a", <<>>, FALSE, <<Open, Expr(<<CallOf("a", 0)>>), Close>>),
                        Func("_p", <<"a">>, FALSE, Empty), Func("_p", <<>>, TRUE, Empty),
                        Func("llAbs", <<>>, FALSE, Empty)}),
     refs \in {<<>>, <<Use("a")>>, <<CallOf("_p", 1), Use("_p")>>},
     states \in {<<"default">>, <<"default", "a">>, <<"s">>, <<"default", "default">>}}

Signatures ==
  {ScriptOf(<<>>, <<>>, <<EventOf(1, name, types, SubSeq(<<"a", "b", "s">>, 1, Len(types)), Empty)>>, <<"default">>, FALSE) :
     name \in {"touch", "timer", "t"}, types \in UpTo(3, {"integer", "key", "list"})}

MCFamilies == {Blocks, Jumps, Changes, Tops, Signatures}
=============================================================================
