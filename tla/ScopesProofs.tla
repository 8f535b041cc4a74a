---------------------------- MODULE ScopesProofs -----------------------------
(***************************************************************************)
(* The checker's walk, for any scripts whose blocks match: the scopes that *)
(* are open are those of the blocks around the place that is checked, the  *)
(* symbol table is used by its operations only, and the table gives every  *)
(* name the meaning that the text gives it.                                *)
(***************************************************************************)
EXTENDS Scopes, Facts, FiniteSetTheorems

Maps == UNION {[D -> Kinds] : D \in SUBSET Names}

TopPhases  == {"globals", "inits", "funcs", "states", "unused", "done"}
BodyPhases == {"body", "value"}
UnitPhases == {"enter", "params"} \cup BodyPhases

(* Where the walk is, and what the table holds there.  ScopesMatchBlocks   *)
(* is inductive only with the place in range, and with the knowledge that  *)
(* a local is in the making whenever its value is checked.                 *)
PlaceInv ==
  /\ script \in Script
  /\ phase \in TopPhases \cup UnitPhases
  /\ unit \in 0 .. Len(Units)
  /\ at \in Nat \ {0}
  /\ phase \in UnitPhases <=> unit # 0
  /\ phase \in BodyPhases => at <= Len(Unit.body) + 1
  /\ phase = "value" => at <= Len(Unit.body) /\ Item.op = "decl"

EnvInv ==
  /\ env \in Seq(Maps)
  /\ Len(env) >= 1
  /\ ScopesMatchBlocks

ScopesInv == PlaceInv /\ EnvInv /\ used \subseteq Names

-----------------------------------------------------------------------------
(* The parts of a script.                                                  *)
LEMMA Concatenated ==
  ASSUME NEW S, NEW T, NEW f \in Seq(S), NEW e \in Seq(T)
  PROVE  /\ Len(f) \in Nat /\ Len(e) \in Nat
         /\ Len(f \o e) = Len(f) + Len(e)
         /\ \A u \in 1 .. Len(f \o e) : (f \o e)[u] \in S \cup T
<1>1. /\ \A i \in 1 .. Len(f) : f[i] \in S
      /\ \A i \in 1 .. Len(e) : e[i] \in T
  OBVIOUS
<1>2. f \in Seq(S \cup T) /\ e \in Seq(S \cup T)
  OBVIOUS
<1>3. f \o e \in Seq(S \cup T) /\ Len(f \o e) = Len(f) + Len(e)
  BY <1>2
<1>4. \A u \in 1 .. Len(f \o e) : (f \o e)[u] \in S \cup T
  BY <1>3
<1> QED BY <1>3, <1>4

LEMMA UnitsOf ==
  ASSUME NEW s \in Script
  PROVE  /\ Len(s.funcs \o s.events) \in Nat
         /\ \A u \in 1 .. Len(s.funcs \o s.events) :
              (s.funcs \o s.events)[u] \in Function \cup Handler
<1> DEFINE F == s.funcs
           E == s.events
<1>1. F \in Seq(Function) /\ E \in Seq(Handler)
  BY DEF Script
<1> HIDE DEF F, E
<1>2. Len(F \o E) \in Nat /\ \A u \in 1 .. Len(F \o E) : (F \o E)[u] \in Function \cup Handler
  BY <1>1, Concatenated
<1> QED BY <1>2 DEF F, E

LEMMA UnitFacts ==
  ASSUME NEW x \in Function \cup Handler
  PROVE  x.body \in Body /\ x.params \in Seq(Names) /\ x.name \in Names
BY DEF Function, Handler

(* How the depth changes from one item to the next.                        *)
LEMMA CountStep ==
  ASSUME NEW b \in Seq(Items), NEW op, NEW i \in 1 .. Len(b)
  PROVE  /\ Count(b, op, i - 1) \in Nat
         /\ Count(b, op, i) = Count(b, op, i - 1) + (IF b[i].op = op THEN 1 ELSE 0)
<1> DEFINE S(n) == {k \in 1 .. n : b[k].op = op}
<1>1. i \in Nat /\ i - 1 \in Nat
  OBVIOUS
<1>2. IsFiniteSet(1 .. i - 1)
  BY <1>1, FS_Interval
<1>3. IsFiniteSet(S(i - 1)) /\ Cardinality(S(i - 1)) \in Nat
  BY <1>2, FS_Subset, FS_CardinalityType
<1>4. i \notin S(i - 1)
  BY <1>1
<1>5. Count(b, op, i - 1) = Cardinality(S(i - 1)) /\ Count(b, op, i) = Cardinality(S(i))
  BY DEF Count
<1>6. CASE b[i].op = op
  <2>1. S(i) = S(i - 1) \cup {i}
    BY <1>1, <1>6
  <2>2. Cardinality(S(i - 1) \cup {i}) = Cardinality(S(i - 1)) + 1
    BY <1>3, <1>4, FS_AddElement
  <2> QED BY <1>3, <1>5, <1>6, <2>1, <2>2
<1>7. CASE b[i].op # op
  <2>1. S(i) = S(i - 1)
    BY <1>1, <1>7
  <2>2. Count(b, op, i) = Count(b, op, i - 1)
    BY <1>5, <2>1
  <2>3. Count(b, op, i - 1) \in Nat
    BY <1>3, <1>5
  <2> HIDE DEF S
  <2> QED BY <1>7, <2>2, <2>3
<1> QED BY <1>6, <1>7

LEMMA DepthStep ==
  ASSUME NEW b \in Seq(Items), NEW i \in 1 .. Len(b)
  PROVE  /\ Depth(b, i - 1) \in Int
         /\ Depth(b, i) = Depth(b, i - 1) + (CASE b[i].op = "open"  -> 1
                                              [] b[i].op = "close" -> -1
                                              [] OTHER             -> 0)
<1>1. /\ Count(b, "open", i - 1) \in Nat
      /\ Count(b, "open", i) = Count(b, "open", i - 1) + (IF b[i].op = "open" THEN 1 ELSE 0)
  BY CountStep
<1>2. /\ Count(b, "close", i - 1) \in Nat
      /\ Count(b, "close", i) = Count(b, "close", i - 1) + (IF b[i].op = "close" THEN 1 ELSE 0)
  BY CountStep
<1> QED BY <1>1, <1>2 DEF Depth

LEMMA DepthStart ==
  ASSUME NEW b
  PROVE  Depth(b, 0) = 0
<1>1. \A op : Count(b, op, 0) = 0
  <2>1. \A op : {k \in 1 .. 0 : b[k].op = op} = {}
    OBVIOUS
  <2> QED BY <2>1, FS_EmptySet DEF Count
<1> QED BY <1>1 DEF Depth

-----------------------------------------------------------------------------
(* What the operations of the table do to the stack of scopes.             *)
EmptyMap == [n \in {} |-> Table!Undefined]

LEMMA EmptyMapIsMap == EmptyMap \in Maps
<1>1. EmptyMap \in [{} -> Kinds]
  BY DEF EmptyMap
<1> QED BY <1>1 DEF Maps

LEMMA BindIsMap ==
  ASSUME NEW m \in Maps, NEW name \in Names, NEW kind \in Kinds
  PROVE  Table!Bind(m, name, kind) \in Maps
<1>1. PICK D \in SUBSET Names : m \in [D -> Kinds]
  BY DEF Maps
<1>2. Table!Bind(m, name, kind) \in [D \cup {name} -> Kinds]
  BY <1>1 DEF Table!Bind
<1>3. D \cup {name} \in SUBSET Names
  BY <1>1
<1> QED BY <1>2, <1>3 DEF Maps

Stack(n) == env' \in Seq(Maps) /\ Len(env') = n

LEMMA DeclareStep ==
  ASSUME env \in Seq(Maps), Len(env) >= 1,
         NEW name \in Names, NEW kind \in Kinds, Declare(name, kind)
  PROVE  Stack(Len(env)) /\ [Table!Next]_env
<1>1. CASE Taken(name)
  <2>1. env' = env
    BY <1>1 DEF Declare
  <2> QED BY <2>1 DEF Stack
<1>2. CASE ~Taken(name)
  <2>1. Table!Define(name, kind)
    BY <1>2 DEF Declare
  <2>2. Len(env) \in 1 .. Len(env) /\ env[Len(env)] \in Maps
    BY EmptySeq
  <2>3. Table!Bind(env[Len(env)], name, kind) \in Maps
    BY <2>2, BindIsMap
  <2>4. env' = [env EXCEPT ![Len(env)] = Table!Bind(env[Len(env)], name, kind)]
    BY <2>1 DEF Table!Define
  <2>5. Stack(Len(env))
    BY <2>2, <2>3, <2>4, Replaced DEF Stack
  <2> QED BY <2>1, <2>5 DEF Table!Next
<1> QED BY <1>1, <1>2

LEMMA PushStep ==
  ASSUME env \in Seq(Maps), Len(env) >= 1, Table!Push
  PROVE  Stack(Len(env) + 1) /\ [Table!Next]_env
<1>1. env' = Append(env, EmptyMap)
  BY DEF Table!Push, EmptyMap
<1>2. Stack(Len(env) + 1)
  BY <1>1, EmptyMapIsMap DEF Stack
<1> QED BY <1>2 DEF Table!Next

LEMMA PopStep ==
  ASSUME env \in Seq(Maps), Table!Pop
  PROVE  Stack(Len(env) - 1) /\ Len(env) > 1 /\ [Table!Next]_env
<1>1. Len(env) > 1 /\ env' = SubSeq(env, 1, Len(env) - 1)
  BY DEF Table!Pop
<1>2. Stack(Len(env) - 1)
  BY <1>1, WithoutLast DEF Stack
<1> QED BY <1>1, <1>2 DEF Table!Next

LEMMA StaysStep ==
  ASSUME env \in Seq(Maps), UNCHANGED env
  PROVE  Stack(Len(env)) /\ [Table!Next]_env
BY DEF Stack

(* References mark names.                                                  *)
LEMMA RefsStep ==
  ASSUME NEW refs \in Refs, NEW others, used \subseteq Names, CheckRefs(refs, others)
  PROVE  used' \subseteq Names
<1>1. \A r \in RefsOf(refs) : r.name \in Names
  BY DEF Refs, RefsOf
<1>2. used' = used \cup {r.name : r \in {r \in RefsOf(refs) : Marks(r)}}
  BY DEF CheckRefs
<1> QED BY <1>1, <1>2

-----------------------------------------------------------------------------
(* The places in a function or event.                                      *)
LEMMA InUnit ==
  ASSUME PlaceInv, unit # 0
  PROVE  /\ Unit.params \in Seq(Names) /\ Len(Unit.params) \in Nat
         /\ Unit.body \in Seq(Items) /\ Len(Unit.body) \in Nat
         /\ \A i \in 1 .. Len(Unit.body) : Depth(Unit.body, i) >= 0 /\ Unit.body[i] \in Items
         /\ Depth(Unit.body, Len(Unit.body)) = 0
<1>1. Len(Units) \in Nat /\ \A u \in 1 .. Len(Units) : Units[u] \in Function \cup Handler
  BY UnitsOf DEF PlaceInv, Units
<1>2. unit \in 1 .. Len(Units)
  BY <1>1 DEF PlaceInv
<1>3. Unit \in Function \cup Handler
  BY <1>1, <1>2 DEF Unit
<1>4. Unit.body \in Body /\ Unit.params \in Seq(Names)
  BY <1>3, UnitFacts
<1> HIDE DEF Unit
<1>5. Unit.body \in Seq(Items)
  BY <1>4 DEF Body
<1>6. Len(Unit.body) \in Nat /\ Len(Unit.params) \in Nat
  BY <1>4, <1>5
<1>7. /\ \A i \in 1 .. Len(Unit.body) : Depth(Unit.body, i) >= 0
      /\ Depth(Unit.body, Len(Unit.body)) = 0
  BY <1>4 DEF Body
<1>8. \A i \in 1 .. Len(Unit.body) : Unit.body[i] \in Items
  BY <1>5
<1> QED BY <1>4, <1>5, <1>6, <1>7, <1>8

LEMMA SameUnit ==
  ASSUME UNCHANGED <<script, unit>>
  PROVE  Units' = Units /\ Unit' = Unit
BY DEF Units, Unit

(* Moves outside of functions and events.                                  *)
LEMMA TopStep ==
  ASSUME ScopesInv, UNCHANGED script, phase \in TopPhases,
         phase' \in TopPhases, unit' = 0, at' \in Nat \ {0},
         Stack(Len(env)), used' \subseteq Names
  PROVE  ScopesInv'
<1>1. Units' = Units /\ Len(Units) \in Nat
  BY UnitsOf DEF Units, ScopesInv, PlaceInv
<1>2. PlaceInv'
  BY <1>1 DEF ScopesInv, PlaceInv, TopPhases, UnitPhases, BodyPhases
<1>3. Len(env) = 1
  BY DEF ScopesInv, EnvInv, ScopesMatchBlocks, TopPhases
<1>4. EnvInv'
  BY <1>3 DEF EnvInv, ScopesMatchBlocks, TopPhases, Stack
<1> QED BY <1>2, <1>4 DEF ScopesInv

(* To the next function or event, or to the end.                           *)
LEMMA NextUnitStep ==
  ASSUME ScopesInv, UNCHANGED script, NextUnit, Stack(1), used' \subseteq Names
  PROVE  ScopesInv'
<1>1. Units' = Units /\ Len(Units) \in Nat
  BY UnitsOf DEF Units, ScopesInv, PlaceInv
<1>2. \/ phase' = "enter" /\ unit' = unit + 1 /\ at' = 1 /\ unit < Len(Units)
      \/ phase' = "unused" /\ unit' = 0 /\ at' = 1
  BY DEF NextUnit, Begin
<1>3. unit \in 0 .. Len(Units)
  BY DEF ScopesInv, PlaceInv
<1>4. PlaceInv'
  BY <1>1, <1>2, <1>3 DEF ScopesInv, PlaceInv, TopPhases, UnitPhases, BodyPhases
<1>5. EnvInv'
  BY <1>2 DEF EnvInv, ScopesMatchBlocks, Stack
<1> QED BY <1>4, <1>5 DEF ScopesInv

(* Past an item of the body.                                               *)
LEMMA ItemStep ==
  ASSUME ScopesInv, UNCHANGED <<script, unit>>, phase \in BodyPhases,
         at <= Len(Unit.body), phase' = "body", at' = at + 1,
         Stack(2 + Depth(Unit.body, at)), used' \subseteq Names
  PROVE  ScopesInv'
<1>1. Units' = Units /\ Unit' = Unit
  BY SameUnit
<1>2. unit # 0 /\ at \in Nat \ {0}
  BY DEF ScopesInv, PlaceInv, UnitPhases
<1>3. /\ Unit.body \in Seq(Items) /\ Len(Unit.body) \in Nat
      /\ at \in 1 .. Len(Unit.body) /\ Depth(Unit.body, at) >= 0
  BY <1>2, InUnit DEF ScopesInv
<1>4. PlaceInv'
  BY <1>1, <1>2, <1>3 DEF ScopesInv, PlaceInv, TopPhases, UnitPhases, BodyPhases
<1>5. EnvInv'
  <2>1. Depth(Unit.body, at) \in Int
    BY <1>3, DepthStep
  <2>2. at' - 1 = at
    BY <1>2
  <2>3. ScopesMatchBlocks'
    BY <1>1, <2>2 DEF ScopesMatchBlocks, Stack
  <2> QED BY <1>3, <2>1, <2>3 DEF EnvInv, Stack
<1> QED BY <1>4, <1>5 DEF ScopesInv

(* The scopes before and after an item.                                    *)
LEMMA AtItem ==
  ASSUME ScopesInv, phase \in BodyPhases, at <= Len(Unit.body)
  PROVE  /\ at \in 1 .. Len(Unit.body)
         /\ Item \in Items
         /\ Item.op = "open"  => 2 + Depth(Unit.body, at) = Len(env) + 1
         /\ Item.op = "close" => 2 + Depth(Unit.body, at) = Len(env) - 1
         /\ Item.op \notin {"open", "close"} => 2 + Depth(Unit.body, at) = Len(env)
<1>1. unit # 0 /\ at \in Nat \ {0}
  BY DEF ScopesInv, PlaceInv, UnitPhases
<1>2. /\ Unit.body \in Seq(Items) /\ Len(Unit.body) \in Nat
      /\ at \in 1 .. Len(Unit.body) /\ Unit.body[at] \in Items
  BY <1>1, InUnit DEF ScopesInv
<1>3. Len(env) = 2 + Depth(Unit.body, at - 1)
  BY DEF ScopesInv, EnvInv, ScopesMatchBlocks, BodyPhases
<1>4. /\ Depth(Unit.body, at - 1) \in Int
      /\ Depth(Unit.body, at) = Depth(Unit.body, at - 1) +
           (CASE Unit.body[at].op = "open"  -> 1
              [] Unit.body[at].op = "close" -> -1
              [] OTHER                      -> 0)
  BY <1>2, DepthStep
<1> QED BY <1>2, <1>3, <1>4 DEF Item

-----------------------------------------------------------------------------
(* The operations that keep what is open.                                  *)
Keeps == Stack(Len(env)) /\ [Table!Next]_env

LEMMA TopActions ==
  ASSUME ScopesInv, \/ DeclareGlobal \/ StartInitialisers \/ CheckInitialiser \/ StartFunctions
                    \/ DeclareFunction \/ StartStates \/ DeclareState \/ ReportUnused
  PROVE  ScopesInv' /\ [Table!Next]_env
<1>1. /\ script \in Script /\ unit \in 0 .. Len(Units) /\ at \in Nat \ {0}
      /\ env \in Seq(Maps) /\ Len(env) >= 1 /\ used \subseteq Names
      /\ phase \in TopPhases => unit = 0
  BY DEF ScopesInv, PlaceInv, EnvInv, TopPhases, UnitPhases, BodyPhases
<1>2. /\ script.globals \in Seq(Global)
      /\ script.funcs \in Seq(Function)
      /\ script.states \in Seq(Names)
  BY <1>1 DEF Script
<1> DEFINE Goes == /\ UNCHANGED script /\ phase \in TopPhases /\ phase' \in TopPhases
                   /\ unit' = 0 /\ at' \in Nat \ {0} /\ Keeps /\ used' \subseteq Names
<1>3. CASE DeclareGlobal
  <2>0. script.globals[at] \in Global
    BY <1>1, <1>2, <1>3 DEF DeclareGlobal
  <2>1. script.globals[at].name \in Names
    BY <2>0 DEF Global
  <2>2. Declare(script.globals[at].name, "global") /\ "global" \in Kinds
    BY <1>3 DEF DeclareGlobal, Kinds
  <2>3. Keeps
    BY <1>1, <2>1, <2>2, DeclareStep DEF Keeps
  <2>4. Goes
    BY <1>1, <1>3, <2>3 DEF DeclareGlobal, Forward, TopPhases
  <2> QED BY <2>4, TopStep DEF Keeps
<1>4. CASE CheckInitialiser
  <2>0. script.globals[at] \in Global
    BY <1>1, <1>2, <1>4 DEF CheckInitialiser
  <2>1. script.globals[at].refs \in Refs
    BY <2>0 DEF Global
  <2>2. used' \subseteq Names
    BY <1>1, <1>4, <2>1, RefsStep DEF CheckInitialiser
  <2>3. Keeps
    BY <1>1, <1>4, StaysStep DEF CheckInitialiser, Keeps
  <2>4. Goes
    BY <1>1, <1>4, <2>2, <2>3 DEF CheckInitialiser, Forward, TopPhases
  <2> QED BY <2>4, TopStep DEF Keeps
<1>5. CASE DeclareFunction
  <2>1. script.funcs[at] \in Function
    BY <1>1, <1>2, <1>5 DEF DeclareFunction
  <2>2. script.funcs[at].name \in Names
    BY <2>1 DEF Function
  <2>3. Declare(script.funcs[at].name, "func") /\ "func" \in Kinds
    BY <1>5 DEF DeclareFunction, Kinds
  <2>4. Keeps
    BY <1>1, <2>2, <2>3, DeclareStep DEF Keeps
  <2>5. Goes
    BY <1>1, <1>5, <2>4 DEF DeclareFunction, Forward, TopPhases
  <2> QED BY <2>5, TopStep DEF Keeps
<1>6. CASE DeclareState
  <2>1. script.states[at] \in Names
    BY <1>1, <1>2, <1>6 DEF DeclareState
  <2>2. Declare(script.states[at], "state") /\ "state" \in Kinds
    BY <1>6 DEF DeclareState, Kinds
  <2>3. Keeps
    BY <1>1, <2>1, <2>2, DeclareStep DEF Keeps
  <2>4. Goes
    BY <1>1, <1>6, <2>3 DEF DeclareState, Forward, TopPhases
  <2> QED BY <2>4, TopStep DEF Keeps
<1>7. CASE StartInitialisers \/ StartFunctions \/ StartStates \/ ReportUnused
  <2>1. UNCHANGED <<script, env, used>>
    BY <1>7 DEF StartInitialisers, StartFunctions, StartStates, ReportUnused
  <2>2. Keeps
    BY <1>1, <2>1, StaysStep DEF Keeps
  <2>3. Goes
    BY <1>1, <1>7, <2>1, <2>2
       DEF StartInitialisers, StartFunctions, StartStates, ReportUnused, Begin, TopPhases
  <2> QED BY <2>3, TopStep DEF Keeps
<1> QED BY <1>3, <1>4, <1>5, <1>6, <1>7

LEMMA UnitActions ==
  ASSUME ScopesInv, StartUnits \/ EnterUnit \/ DeclareParam \/ StartBody \/ LeaveUnit
  PROVE  ScopesInv' /\ [Table!Next]_env
<1>1. /\ script \in Script /\ unit \in 0 .. Len(Units) /\ at \in Nat \ {0}
      /\ env \in Seq(Maps) /\ Len(env) >= 1 /\ used \subseteq Names
      /\ phase \in UnitPhases <=> unit # 0
  BY DEF ScopesInv, PlaceInv, EnvInv
<1>2. phase \in UnitPhases =>
        /\ Unit.params \in Seq(Names) /\ Unit.body \in Seq(Items) /\ Len(Unit.body) \in Nat
        /\ Depth(Unit.body, Len(Unit.body)) = 0
  BY <1>1, InUnit DEF ScopesInv
<1>3. CASE StartUnits
  <2>1. UNCHANGED <<script, env, used>> /\ NextUnit /\ phase = "states"
    BY <1>3 DEF StartUnits
  <2>2. Keeps
    BY <1>1, <2>1, StaysStep DEF Keeps
  <2>3. Len(env) = 1
    BY <2>1 DEF ScopesInv, EnvInv, ScopesMatchBlocks
  <2> QED BY <1>1, <2>1, <2>2, <2>3, NextUnitStep DEF Keeps
<1>4. CASE EnterUnit
  <2>1. /\ UNCHANGED <<script, unit, used>> /\ Table!Push
        /\ phase = "enter" /\ phase' = "params" /\ at' = 1
    BY <1>4 DEF EnterUnit, Begin
  <2>2. Stack(Len(env) + 1) /\ [Table!Next]_env
    BY <1>1, <2>1, PushStep
  <2>3. Units' = Units /\ unit # 0
    BY <1>1, <2>1, SameUnit DEF UnitPhases
  <2>4. PlaceInv'
    BY <1>1, <2>1, <2>3 DEF PlaceInv, UnitPhases, BodyPhases
  <2>5. Len(env) = 1
    BY <2>1 DEF ScopesInv, EnvInv, ScopesMatchBlocks
  <2>6. EnvInv'
    BY <2>1, <2>2, <2>5 DEF EnvInv, ScopesMatchBlocks, Stack
  <2> QED BY <1>1, <2>1, <2>2, <2>4, <2>6 DEF ScopesInv
<1>5. CASE DeclareParam
  <2>1. /\ UNCHANGED <<script, unit, used>> /\ Declare(Unit.params[at], "param")
        /\ phase = "params" /\ phase' = "params" /\ at' = at + 1 /\ at <= Len(Unit.params)
    BY <1>5 DEF DeclareParam, Forward
  <2>2. Unit.params[at] \in Names /\ "param" \in Kinds
    BY <1>1, <1>2, <2>1 DEF UnitPhases, Kinds
  <2>3. Stack(Len(env)) /\ [Table!Next]_env
    BY <1>1, <2>1, <2>2, DeclareStep
  <2>4. Units' = Units /\ unit # 0
    BY <1>1, <2>1, SameUnit DEF UnitPhases
  <2>5. PlaceInv'
    BY <1>1, <2>1, <2>4 DEF PlaceInv, UnitPhases, BodyPhases
  <2>6. Len(env) = 2
    BY <2>1 DEF ScopesInv, EnvInv, ScopesMatchBlocks
  <2>7. EnvInv'
    BY <2>1, <2>3, <2>6 DEF EnvInv, ScopesMatchBlocks, Stack
  <2> QED BY <1>1, <2>1, <2>3, <2>5, <2>7 DEF ScopesInv
<1>6. CASE StartBody
  <2>1. /\ UNCHANGED <<script, unit, used, env>>
        /\ phase = "params" /\ phase' = "body" /\ at' = 1
    BY <1>6 DEF StartBody, Begin
  <2>2. Units' = Units /\ Unit' = Unit /\ unit # 0 /\ Len(Unit.body) \in Nat
    BY <1>1, <1>2, <2>1, SameUnit DEF UnitPhases
  <2>3. PlaceInv'
    BY <1>1, <2>1, <2>2 DEF PlaceInv, UnitPhases, BodyPhases
  <2>4. Len(env) = 2
    BY <2>1 DEF ScopesInv, EnvInv, ScopesMatchBlocks
  <2>5. Depth(Unit.body, at' - 1) = 0
    BY <2>1, DepthStart
  <2>6. EnvInv'
    BY <1>1, <2>1, <2>2, <2>4, <2>5 DEF EnvInv, ScopesMatchBlocks
  <2> QED BY <1>1, <2>1, <2>3, <2>6 DEF ScopesInv
<1>7. CASE LeaveUnit
  <2>1. /\ UNCHANGED <<script, used>> /\ NextUnit /\ Table!Pop
        /\ phase = "body" /\ at > Len(Unit.body)
    BY <1>7 DEF LeaveUnit
  <2>2. Stack(Len(env) - 1) /\ [Table!Next]_env
    BY <1>1, <2>1, PopStep
  <2>3. at - 1 = Len(Unit.body)
    BY <1>1, <1>2, <2>1 DEF ScopesInv, PlaceInv, UnitPhases, BodyPhases
  <2>4. Len(env) = 2 + Depth(Unit.body, at - 1)
    BY <2>1 DEF ScopesInv, EnvInv, ScopesMatchBlocks
  <2>5. Len(env) = 2
    BY <1>2, <2>1, <2>3, <2>4 DEF UnitPhases, BodyPhases
  <2> QED BY <1>1, <2>1, <2>2, <2>5, NextUnitStep
<1> QED BY <1>3, <1>4, <1>5, <1>6, <1>7

LEMMA BodyActions ==
  ASSUME ScopesInv, \/ OpenBlock \/ CloseBlock \/ Expression \/ DeclareLocal \/ CheckValue
                    \/ Jump \/ Label \/ ChangeState \/ Return
  PROVE  ScopesInv' /\ [Table!Next]_env
<1>1. /\ at \in Nat \ {0} /\ env \in Seq(Maps) /\ Len(env) >= 1 /\ used \subseteq Names
      /\ phase = "value" => at <= Len(Unit.body) /\ Item.op = "decl"
  BY DEF ScopesInv, PlaceInv, EnvInv, BodyPhases
<1>2. phase \in BodyPhases /\ at <= Len(Unit.body)
  BY <1>1 DEF OpenBlock, CloseBlock, Expression, DeclareLocal, CheckValue, Jump, Label,
              ChangeState, Return, InBody, BodyPhases
<1>3. /\ Item \in Items
      /\ Item.op = "open"  => 2 + Depth(Unit.body, at) = Len(env) + 1
      /\ Item.op = "close" => 2 + Depth(Unit.body, at) = Len(env) - 1
      /\ Item.op \notin {"open", "close"} => 2 + Depth(Unit.body, at) = Len(env)
  BY <1>2, AtItem
<1>4. /\ Item.op \in {"expr", "decl", "return"} => Item.refs \in Refs
      /\ Item.op = "decl" => Item.name \in Names
      /\ <<>> \in Refs
  BY <1>3 DEF Items, Refs
<1> DEFINE Past == /\ UNCHANGED <<script, unit>> /\ phase' = "body" /\ at' = at + 1
<1>5. CASE OpenBlock
  <2>1. Past /\ UNCHANGED used /\ Table!Push /\ Item.op = "open"
    BY <1>5 DEF OpenBlock, Forward, InBody
  <2>2. Stack(Len(env) + 1) /\ [Table!Next]_env
    BY <1>1, <2>1, PushStep
  <2>3. Stack(2 + Depth(Unit.body, at))
    BY <1>3, <2>1, <2>2
  <2> QED BY <1>1, <1>2, <2>1, <2>2, <2>3, ItemStep
<1>6. CASE CloseBlock
  <2>1. Past /\ UNCHANGED used /\ Table!Pop /\ Item.op = "close"
    BY <1>6 DEF CloseBlock, Forward, InBody
  <2>2. Stack(Len(env) - 1) /\ [Table!Next]_env
    BY <1>1, <2>1, PopStep
  <2>3. Stack(2 + Depth(Unit.body, at))
    BY <1>3, <2>1, <2>2
  <2> QED BY <1>1, <1>2, <2>1, <2>2, <2>3, ItemStep
<1>7. CASE Expression \/ CheckValue \/ Jump \/ Label \/ ChangeState \/ Return
  <2>1. Past /\ UNCHANGED env /\ Item.op \notin {"open", "close"}
    BY <1>1, <1>7 DEF Expression, CheckValue, Jump, Label, ChangeState, Return, Forward, InBody
  <2>2. used' \subseteq Names
    <3>1. CASE Jump \/ Label \/ ChangeState
      BY <1>1, <3>1 DEF Jump, Label, ChangeState
    <3>2. CASE Expression \/ CheckValue
      <4>1. CheckRefs(Item.refs, {}) /\ Item.refs \in Refs
        BY <1>1, <1>4, <3>2 DEF Expression, CheckValue, InBody
      <4> QED BY <1>1, <4>1, RefsStep
    <3>3. CASE Return
      <4>1. PICK refs, others : refs \in Refs /\ CheckRefs(refs, others)
        BY <1>4, <3>3 DEF Return, InBody
      <4> QED BY <1>1, <4>1, RefsStep
    <3> QED BY <1>7, <3>1, <3>2, <3>3
  <2>3. Stack(Len(env)) /\ [Table!Next]_env
    BY <1>1, <2>1, StaysStep
  <2>4. Stack(2 + Depth(Unit.body, at))
    BY <1>3, <2>1, <2>3
  <2> QED BY <1>2, <2>1, <2>2, <2>3, <2>4, ItemStep
<1>8. CASE DeclareLocal
  <2>1. /\ UNCHANGED <<script, unit, at, used>> /\ phase = "body" /\ phase' = "value"
        /\ Declare(Item.name, "local") /\ Item.op = "decl" /\ "local" \in Kinds
    BY <1>8 DEF DeclareLocal, InBody, Kinds
  <2>2. Stack(Len(env)) /\ [Table!Next]_env
    BY <1>1, <1>4, <2>1, DeclareStep
  <2>3. Units' = Units /\ Unit' = Unit
    BY <2>1, SameUnit
  <2>4. Item' = Item
    BY <2>1, <2>3 DEF Item
  <2>5. PlaceInv'
    BY <1>2, <2>1, <2>3, <2>4 DEF ScopesInv, PlaceInv, UnitPhases, BodyPhases
  <2>6. Len(env) = 2 + Depth(Unit.body, at - 1)
    BY <2>1 DEF ScopesInv, EnvInv, ScopesMatchBlocks
  <2>7. EnvInv'
    BY <1>1, <2>1, <2>2, <2>3, <2>6 DEF EnvInv, ScopesMatchBlocks, Stack
  <2> QED BY <1>1, <2>1, <2>2, <2>5, <2>7 DEF ScopesInv
<1> QED BY <1>5, <1>6, <1>7, <1>8

-----------------------------------------------------------------------------
LEMMA ScopesInvInit == Init => ScopesInv /\ Table!Init
<1> SUFFICES ASSUME Init PROVE ScopesInv /\ Table!Init
  OBVIOUS
<1>1. script \in Script /\ phase = "globals" /\ unit = 0 /\ at = 1 /\ used = {} /\ Table!Init
  BY ScriptsAssumption DEF Init
<1>2. Len(Units) \in Nat
  BY <1>1, UnitsOf DEF Units
<1>3. PlaceInv
  BY <1>1, <1>2 DEF PlaceInv, TopPhases, UnitPhases, BodyPhases
<1>4. env = <<EmptyMap>>
  BY <1>1 DEF Table!Init, EmptyMap
<1>5. env \in Seq(Maps) /\ Len(env) = 1
  BY <1>4, EmptyMapIsMap
<1>6. EnvInv
  BY <1>1, <1>5 DEF EnvInv, ScopesMatchBlocks
<1> QED BY <1>1, <1>3, <1>6 DEF ScopesInv

LEMMA ScopesInvStep == ScopesInv /\ [Next]_vars => ScopesInv' /\ [Table!Next]_env
<1> SUFFICES ASSUME ScopesInv, [Next]_vars PROVE ScopesInv' /\ [Table!Next]_env
  OBVIOUS
<1>1. CASE UNCHANGED vars
  <2>1. UNCHANGED <<script, phase, unit, at, env, used>>
    BY <1>1 DEF vars
  <2>2. Units' = Units /\ Unit' = Unit /\ Item' = Item
    BY <2>1, SameUnit DEF Item
  <2>3. PlaceInv'
    BY <2>1, <2>2 DEF ScopesInv, PlaceInv
  <2>4. EnvInv'
    BY <2>1, <2>2 DEF ScopesInv, EnvInv, ScopesMatchBlocks
  <2> QED BY <2>1, <2>3, <2>4 DEF ScopesInv
<1>2. CASE Next
  BY <1>2, TopActions, UnitActions, BodyActions DEF Next
<1> QED BY <1>1, <1>2

LEMMA ScopesInvAlways == Spec => []ScopesInv
<1>1. Init => ScopesInv
  BY ScopesInvInit
<1>2. ScopesInv /\ [Next]_vars => ScopesInv'
  BY ScopesInvStep
<1> QED BY <1>1, <1>2, PTL DEF Spec

(* The scopes that are open are those of the blocks around the place that  *)
(* is checked, for every script whose blocks match, so that sym_push_scope *)
(* and sym_pop_scope are paired on every path through check_stmt.          *)
THEOREM ScopesMatchBlocksHolds == Spec => []ScopesMatchBlocks
<1>1. ScopesInv => ScopesMatchBlocks
  BY DEF ScopesInv, EnvInv
<1> QED BY <1>1, ScopesInvAlways, PTL

(* The walk stays where the script has something, and the table and the    *)
(* marks hold names of the script.                                         *)
LEMMA ScriptAlways == Spec => [](script \in Scripts)
<1>1. Init => script \in Scripts
  BY DEF Init, Scripts
<1>2. script \in Scripts /\ [Next]_vars => (script \in Scripts)'
  <2> SUFFICES ASSUME script \in Scripts, [Next]_vars PROVE UNCHANGED script
    OBVIOUS
  <2> QED BY DEF Next, vars, DeclareGlobal, StartInitialisers, CheckInitialiser, StartFunctions,
       DeclareFunction, StartStates, DeclareState, StartUnits, EnterUnit, DeclareParam, StartBody,
       OpenBlock, CloseBlock, Expression, DeclareLocal, CheckValue, Jump, Label, ChangeState,
       Return, LeaveUnit, ReportUnused
<1> DEFINE Kept == script \in Scripts
<1>3. Init => Kept
  BY <1>1
<1>4. Kept /\ [Next]_vars => Kept'
  BY <1>2
<1> HIDE DEF Kept
<1>5. Spec => []Kept
  BY <1>3, <1>4, PTL DEF Spec
<1> QED BY <1>5 DEF Kept

THEOREM ScopesTypeCorrect == Spec => []TypeOK
<1>1. ScopesInv /\ script \in Scripts => TypeOK
  <2> SUFFICES ASSUME ScopesInv, script \in Scripts PROVE TypeOK
    OBVIOUS
  <2>1. DOMAIN env[1] \subseteq Names
    <3>1. env[1] \in Maps
      BY DEF ScopesInv, EnvInv
    <3> QED BY <3>1 DEF Maps
  <2> QED BY <2>1 DEF ScopesInv, PlaceInv, TypeOK, TopPhases, UnitPhases, BodyPhases
<1> QED BY <1>1, ScopesInvAlways, ScriptAlways, PTL

(* The walk implements the stack of maps: it only ever pushes, pops and    *)
(* defines, one at a time, and never pops the global scope.                *)
THEOREM WalkDrivesTable == Spec => DrivesTable
<1>1. Init => Table!Init
  BY ScopesInvInit
<1>2. ScopesInv /\ [Next]_vars => [Table!Next]_env
  BY ScopesInvStep
<1> QED BY <1>1, <1>2, ScopesInvAlways, PTL DEF Spec, DrivesTable, Table!Spec
-----------------------------------------------------------------------------
(* What the checker finds: the table gives every name the meaning that the *)
(* text gives it, and from this follows which names, calls and jumps are   *)
(* complained about, what is unused, and what a script without errors      *)
(* looks like.                                                             *)
NG == Len(script.globals)
NF == Len(script.funcs)
NS == Len(script.states)

-----------------------------------------------------------------------------
(* What the operations of the table do to each scope.                      *)
LEMMA DeclareEffect ==
  ASSUME env \in Seq(Maps), Len(env) >= 1,
         NEW name \in Names, NEW kind \in Kinds, Declare(name, kind)
  PROVE  /\ Len(env') = Len(env)
         /\ \A i \in 1 .. Len(env) : i # Len(env) => env'[i] = env[i]
         /\ \A n : n \in DOMAIN env'[Len(env)] <=> n = name \/ n \in DOMAIN env[Len(env)]
         /\ \A n \in DOMAIN env[Len(env)] : env'[Len(env)][n] = env[Len(env)][n]
         /\ ~Taken(name) => env'[Len(env)][name] = kind
         /\ Taken(name) <=> name \in DOMAIN env[Len(env)]
         /\ Taken(name) => errors' # {}
<1>1. CASE Taken(name)
  <2>1. env' = env /\ errors' # {} /\ name \in DOMAIN env[Len(env)]
    BY <1>1 DEF Declare, Taken
  <2> QED BY <1>1, <2>1
<1>2. CASE ~Taken(name)
  <2>1. name \notin DOMAIN env[Len(env)]
    BY <1>2 DEF Taken
  <2>2. env' = [env EXCEPT ![Len(env)] = Table!Bind(env[Len(env)], name, kind)]
    BY <1>2 DEF Declare, Table!Define
  <2>3. Len(env) \in 1 .. Len(env) /\ env[Len(env)] \in Maps
    BY EmptySeq
  <2>4. Table!Bind(env[Len(env)], name, kind) \in Maps
    BY <2>3, BindIsMap
  <2>5. /\ Len(env') = Len(env)
        /\ env'[Len(env)] = Table!Bind(env[Len(env)], name, kind)
        /\ \A i \in 1 .. Len(env) : i # Len(env) => env'[i] = env[i]
    BY <2>2, <2>3, <2>4, Replaced
  <2>6. env'[Len(env)] = [n \in DOMAIN env[Len(env)] \cup {name} |->
                            IF n = name THEN kind ELSE env[Len(env)][n]]
    BY <2>5 DEF Table!Bind
  <2> QED BY <1>2, <2>1, <2>5, <2>6
<1> QED BY <1>1, <1>2

LEMMA PushEffect ==
  ASSUME env \in Seq(Maps), Table!Push
  PROVE  /\ Len(env') = Len(env) + 1
         /\ \A i \in 1 .. Len(env) : env'[i] = env[i]
         /\ DOMAIN env'[Len(env) + 1] = {}
<1>1. env' = Append(env, EmptyMap)
  BY DEF Table!Push, EmptyMap
<1>2. DOMAIN EmptyMap = {}
  BY DEF EmptyMap
<1>3. env'[Len(env) + 1] = EmptyMap
  BY <1>1, EmptyMapIsMap
<1>4. Len(env') = Len(env) + 1 /\ \A i \in 1 .. Len(env) : env'[i] = env[i]
  BY <1>1, EmptyMapIsMap
<1> QED BY <1>2, <1>3, <1>4

LEMMA PopEffect ==
  ASSUME env \in Seq(Maps), Table!Pop
  PROVE  /\ Len(env) > 1
         /\ Len(env') = Len(env) - 1
         /\ \A i \in 1 .. Len(env) - 1 : env'[i] = env[i]
<1>1. Len(env) > 1 /\ env' = SubSeq(env, 1, Len(env) - 1)
  BY DEF Table!Pop
<1> QED BY <1>1, WithoutLast

LEMMA DepthInt ==
  ASSUME NEW b \in Seq(Items), NEW i \in 0 .. Len(b)
  PROVE  Depth(b, i) \in Int
<1>1. CASE i = 0
  BY <1>1, DepthStart
<1>2. CASE i # 0
  <2>1. i \in 1 .. Len(b)
    BY <1>2
  <2> QED BY <2>1, DepthStep
<1> QED BY <1>1, <1>2

-----------------------------------------------------------------------------
(* The names of the top level, in the order in which they are declared.    *)
LEMMA TwoParts ==
  ASSUME NEW S, NEW a \in Seq(S), NEW b \in Seq(S)
  PROVE  /\ a \o b \in Seq(S)
         /\ Len(a \o b) = Len(a) + Len(b)
         /\ \A i \in 1 .. Len(a) : (a \o b)[i] = a[i]
         /\ \A i \in 1 .. Len(b) : (a \o b)[Len(a) + i] = b[i]
OBVIOUS

LEMMA ThreeParts ==
  ASSUME NEW S, NEW a \in Seq(S), NEW b \in Seq(S), NEW c \in Seq(S)
  PROVE  /\ Len(a \o b \o c) = Len(a) + Len(b) + Len(c)
         /\ \A i \in 1 .. Len(a) : (a \o b \o c)[i] = a[i]
         /\ \A i \in 1 .. Len(b) : (a \o b \o c)[Len(a) + i] = b[i]
         /\ \A i \in 1 .. Len(c) : (a \o b \o c)[Len(a) + Len(b) + i] = c[i]
<1>1. PICK ab : ab = a \o b
  OBVIOUS
<1>2. /\ ab \in Seq(S) /\ Len(ab) = Len(a) + Len(b)
      /\ \A i \in 1 .. Len(a) : ab[i] = a[i]
      /\ \A i \in 1 .. Len(b) : ab[Len(a) + i] = b[i]
  BY <1>1, TwoParts
<1>3. /\ Len(ab \o c) = Len(ab) + Len(c)
      /\ \A i \in 1 .. Len(ab) : (ab \o c)[i] = ab[i]
      /\ \A i \in 1 .. Len(c) : (ab \o c)[Len(ab) + i] = c[i]
  <2>1. ab \in Seq(S)
    BY <1>2
  <2> QED BY ONLY <2>1, c \in Seq(S), TwoParts
<1>4. Len(a) \in Nat /\ Len(b) \in Nat /\ Len(c) \in Nat
  OBVIOUS
<1>5. /\ Len(ab \o c) = Len(a) + Len(b) + Len(c)
      /\ \A i \in 1 .. Len(a) : (ab \o c)[i] = a[i]
      /\ \A i \in 1 .. Len(b) : (ab \o c)[Len(a) + i] = b[i]
      /\ \A i \in 1 .. Len(c) : (ab \o c)[Len(a) + Len(b) + i] = c[i]
  BY <1>2, <1>3, <1>4
<1> QED BY <1>1, <1>5

LEMMA TopNamesAre ==
  ASSUME script \in Script
  PROVE  /\ NG \in Nat /\ NF \in Nat /\ NS \in Nat
         /\ script.globals \in Seq(Global) /\ script.funcs \in Seq(Function) /\ script.states \in Seq(Names)
         /\ Len(TopNames) = NG + NF + NS
         /\ \A i \in 1 .. NG : TopNames[i] = script.globals[i].name
         /\ \A i \in 1 .. NF : TopNames[NG + i] = script.funcs[i].name
         /\ \A i \in 1 .. NS : TopNames[NG + NF + i] = script.states[i]
         /\ \A i \in 1 .. NG : script.globals[i] \in Global /\ script.globals[i].name \in Names
         /\ \A i \in 1 .. NF : script.funcs[i] \in Function /\ script.funcs[i].name \in Names
         /\ \A i \in 1 .. NS : script.states[i] \in Names
<1> DEFINE g == [i \in DOMAIN script.globals |-> script.globals[i].name]
           f == [i \in DOMAIN script.funcs |-> script.funcs[i].name]
           s == script.states
<1>1. script.globals \in Seq(Global) /\ script.funcs \in Seq(Function) /\ s \in Seq(Names)
  BY DEF Script
<1>2. /\ \A i \in 1 .. NG : script.globals[i] \in Global
      /\ \A i \in 1 .. NF : script.funcs[i] \in Function
      /\ \A i \in 1 .. NS : script.states[i] \in Names
  BY <1>1 DEF NG, NF, NS
<1>3. /\ \A i \in 1 .. NG : script.globals[i].name \in Names
      /\ \A i \in 1 .. NF : script.funcs[i].name \in Names
  BY <1>2 DEF Global, Function
<1>4. /\ DOMAIN script.globals = 1 .. NG /\ DOMAIN script.funcs = 1 .. NF
      /\ NG \in Nat /\ NF \in Nat /\ NS \in Nat
  BY <1>1 DEF NG, NF, NS
<1>5. g \in Seq(Names) /\ Len(g) = NG /\ \A i \in 1 .. NG : g[i] = script.globals[i].name
  BY <1>3, <1>4
<1>6. f \in Seq(Names) /\ Len(f) = NF /\ \A i \in 1 .. NF : f[i] = script.funcs[i].name
  BY <1>3, <1>4
<1>7. TopNames = g \o f \o s /\ Len(s) = NS
  BY DEF TopNames, NS
<1> HIDE DEF g, f, s
<1>8. /\ Len(TopNames) = NG + NF + NS
      /\ \A i \in 1 .. NG : TopNames[i] = g[i]
      /\ \A i \in 1 .. NF : TopNames[NG + i] = f[i]
      /\ \A i \in 1 .. NS : TopNames[NG + NF + i] = s[i]
  <2>1. g \in Seq(Names) /\ f \in Seq(Names) /\ s \in Seq(Names)
    BY <1>1, <1>5, <1>6
  <2>2. /\ Len(g \o f \o s) = Len(g) + Len(f) + Len(s)
        /\ \A i \in 1 .. Len(g) : (g \o f \o s)[i] = g[i]
        /\ \A i \in 1 .. Len(f) : (g \o f \o s)[Len(g) + i] = f[i]
        /\ \A i \in 1 .. Len(s) : (g \o f \o s)[Len(g) + Len(f) + i] = s[i]
    BY <2>1, ThreeParts
  <2>3. Len(g) = NG /\ Len(f) = NF /\ Len(s) = NS
    BY <1>5, <1>6, <1>7
  <2> QED BY ONLY <2>2, <2>3, <1>7
<1> QED BY <1>1, <1>2, <1>3, <1>4, <1>5, <1>6, <1>8 DEF s

-----------------------------------------------------------------------------
(* The global scope: how many of the names of the top level it has been    *)
(* told, and what each of them means.  The first of several counts.        *)
Told ==
  CASE phase = "globals" -> at - 1
    [] phase = "inits"   -> NG
    [] phase = "funcs"   -> NG + at - 1
    [] phase = "states"  -> NG + NF + at - 1
    [] OTHER             -> Len(TopNames)

TopKind(name) ==
  IF name \in GlobalNames THEN "global" ELSE IF name \in FunctionNames THEN "func" ELSE "state"

TopPlace ==
  /\ phase \in {"globals", "inits"} => at <= NG + 1
  /\ phase = "funcs" => at <= NF + 1
  /\ phase = "states" => at <= NS + 1

TopScope ==
  /\ \A n : n \in DOMAIN env[1] <=> \E i \in 1 .. Told : TopNames[i] = n
  /\ \A n \in DOMAIN env[1] : env[1][n] = TopKind(n)
  /\ \A n \in DOMAIN env[1] :
       env[1][n] = "func" => n \in DOMAIN arity /\ arity[n] = Len(Declared(n).params)

TopApart == errors = {} => \A i, j \in 1 .. Told : TopNames[i] = TopNames[j] => i = j

TopInv == TopPlace /\ TopScope /\ TopApart

(* What is not declared in a step.                                         *)
LEMMA TopKeeps ==
  ASSUME TopScope, TopApart, UNCHANGED <<script, arity>>,
         env'[1] = env[1], Told' = Told, errors \subseteq errors'
  PROVE  TopScope' /\ TopApart'
<1>1. TopNames' = TopNames
  BY DEF TopNames
<1>2. \A n : TopKind(n)' = TopKind(n) /\ Declared(n)' = Declared(n)
  BY DEF TopKind, GlobalNames, FunctionNames, Declared
<1>3. errors' = {} => errors = {}
  OBVIOUS
<1> QED BY <1>1, <1>2, <1>3 DEF TopScope, TopApart

(* The next name is declared.                                              *)
LEMMA TopDeclares ==
  ASSUME TopScope, TopApart, UNCHANGED script, env \in Seq(Maps), Len(env) = 1,
         Told \in Nat, Told' = Told + 1, errors \subseteq errors',
         NEW name \in Names, TopNames[Told + 1] = name,
         NEW kind \in Kinds, Declare(name, kind),
         ~Taken(name) => kind = TopKind(name),
         \A n \in DOMAIN env[1] : env[1][n] = "func" => n \in DOMAIN arity' /\ arity'[n] = arity[n],
         ~Taken(name) /\ kind = "func" =>
           name \in DOMAIN arity' /\ arity'[name] = Len(Declared(name).params)
  PROVE  TopScope' /\ TopApart'
<1>1. TopNames' = TopNames
  BY DEF TopNames
<1>2. \A n : TopKind(n)' = TopKind(n) /\ Declared(n)' = Declared(n)
  BY DEF TopKind, GlobalNames, FunctionNames, Declared
<1>3. /\ \A n : n \in DOMAIN env'[1] <=> n = name \/ n \in DOMAIN env[1]
      /\ \A n \in DOMAIN env[1] : env'[1][n] = env[1][n]
      /\ ~Taken(name) => env'[1][name] = kind
      /\ Taken(name) <=> name \in DOMAIN env[1]
      /\ Taken(name) => errors' # {}
  BY DeclareEffect
<1>4. \A n : (\E i \in 1 .. Told + 1 : TopNames[i] = n) <=> n = name \/ \E i \in 1 .. Told : TopNames[i] = n
  <2>1. \A i : i \in 1 .. Told + 1 <=> i = Told + 1 \/ i \in 1 .. Told
    OBVIOUS
  <2> QED BY <2>1
<1>5. \A n : n \in DOMAIN env'[1] <=> \E i \in 1 .. Told' : TopNames'[i] = n
  BY <1>1, <1>3, <1>4 DEF TopScope
<1>6. \A n \in DOMAIN env'[1] : env'[1][n] = TopKind(n)
  BY <1>3 DEF TopScope
<1>7. \A n \in DOMAIN env'[1] :
        env'[1][n] = "func" => n \in DOMAIN arity' /\ arity'[n] = Len(Declared(n).params)
  BY <1>3 DEF TopScope
<1>8. TopScope'
  BY <1>2, <1>5, <1>6, <1>7 DEF TopScope
<1>9. TopApart'
  <2> SUFFICES ASSUME errors' = {},
                      NEW i \in 1 .. Told + 1, NEW j \in 1 .. Told + 1, TopNames[i] = TopNames[j]
               PROVE  i = j
    BY <1>1 DEF TopApart
  <2>1. \A k \in 1 .. Told : TopNames[k] # name
    BY <1>3 DEF TopScope
  <2>2. \A k, l \in 1 .. Told : TopNames[k] = TopNames[l] => k = l
    BY DEF TopApart
  <2>3. i = Told + 1 \/ i \in 1 .. Told
    OBVIOUS
  <2>4. j = Told + 1 \/ j \in 1 .. Told
    OBVIOUS
  <2> QED BY <2>1, <2>2, <2>3, <2>4
<1> QED BY <1>8, <1>9

(* Which kind a name gets that no declaration before it has.               *)
LEMMA NewKinds ==
  ASSUME ScopesInv, TopInv, at >= 1
  PROVE  /\ phase = "globals" /\ at <= NG => TopKind(script.globals[at].name) = "global"
         /\ phase = "funcs" /\ at <= NF /\ script.funcs[at].name \notin DOMAIN env[1] =>
              /\ TopKind(script.funcs[at].name) = "func"
              /\ Declared(script.funcs[at].name) = script.funcs[at]
         /\ phase = "states" /\ at <= NS /\ script.states[at] \notin DOMAIN env[1] =>
              TopKind(script.states[at]) = "state"
<1>1. script \in Script /\ at \in Nat \ {0}
  BY DEF ScopesInv, PlaceInv
<1>2. /\ NG \in Nat /\ NF \in Nat /\ NS \in Nat
      /\ DOMAIN script.globals = 1 .. NG /\ DOMAIN script.funcs = 1 .. NF
      /\ \A i \in 1 .. NG : TopNames[i] = script.globals[i].name
      /\ \A i \in 1 .. NF : TopNames[NG + i] = script.funcs[i].name
  <2>1. DOMAIN script.globals = 1 .. NG /\ DOMAIN script.funcs = 1 .. NF
    BY <1>1 DEF Script, NG, NF
  <2> QED BY <1>1, <2>1, TopNamesAre
<1>3. \A n : n \in GlobalNames <=> \E i \in 1 .. NG : script.globals[i].name = n
  BY <1>2 DEF GlobalNames, Named
<1>4. \A n : n \in FunctionNames <=> /\ n \notin GlobalNames
                                    /\ \E i \in 1 .. NF : script.funcs[i].name = n
  BY <1>2 DEF FunctionNames, Named
<1>5. CASE phase = "globals" /\ at <= NG
  BY <1>1, <1>2, <1>3, <1>5 DEF TopKind
<1>6. CASE phase = "funcs" /\ at <= NF /\ script.funcs[at].name \notin DOMAIN env[1]
  <2> DEFINE n == script.funcs[at].name
  <2>1. \A i \in 1 .. NG + at - 1 : TopNames[i] # n
    BY <1>6 DEF TopInv, TopScope, Told
  <2>2. \A i \in 1 .. NG : i \in 1 .. NG + at - 1 /\ TopNames[i] = script.globals[i].name
    BY <1>1, <1>2
  <2>3. \A j \in 1 .. at - 1 : NG + j \in 1 .. NG + at - 1 /\ TopNames[NG + j] = script.funcs[j].name
    BY <1>1, <1>2, <1>6
  <2>4. n \notin GlobalNames
    BY <1>3, <2>1, <2>2
  <2>5. at \in 1 .. NF /\ \A j \in 1 .. at - 1 : script.funcs[j].name # n
    BY <1>1, <1>6, <2>1, <2>3
  <2>6. TopKind(n) = "func"
    BY <1>4, <2>4, <2>5 DEF TopKind
  <2>7. \A i \in 1 .. NF : script.funcs[i].name = n /\ (\A j \in 1 .. i - 1 : script.funcs[j].name # n)
                             => i = at
    <3> SUFFICES ASSUME NEW i \in 1 .. NF, script.funcs[i].name = n,
                        \A j \in 1 .. i - 1 : script.funcs[j].name # n
                 PROVE  i = at
      OBVIOUS
    <3>1. ~(at < i)
      BY <2>5
    <3>2. ~(i < at)
      BY <2>5
    <3> QED BY <1>1, <3>1, <3>2
  <2>8. Declared(n) = script.funcs[at]
    BY <1>2, <2>5, <2>7 DEF Declared
  <2> QED BY <1>6, <2>6, <2>8
<1>7. CASE phase = "states" /\ at <= NS /\ script.states[at] \notin DOMAIN env[1]
  <2> DEFINE n == script.states[at]
  <2>1. \A i \in 1 .. NG + NF + at - 1 : TopNames[i] # n
    BY <1>7 DEF TopInv, TopScope, Told
  <2>2. \A i \in 1 .. NG : i \in 1 .. NG + NF + at - 1 /\ TopNames[i] = script.globals[i].name
    BY <1>1, <1>2
  <2>3. \A j \in 1 .. NF : NG + j \in 1 .. NG + NF + at - 1 /\ TopNames[NG + j] = script.funcs[j].name
    BY <1>1, <1>2
  <2> QED BY <1>3, <1>4, <1>7, <2>1, <2>2, <2>3 DEF TopKind
<1> QED BY <1>5, <1>6, <1>7

(* Nothing that was reported is taken back.                                *)
LEMMA ErrorsGrow ==
  ASSUME [Next]_vars
  PROVE  errors \subseteq errors' /\ UNCHANGED script
BY DEF Next, vars, DeclareGlobal, StartInitialisers, CheckInitialiser, StartFunctions,
       DeclareFunction, StartStates, DeclareState, StartUnits, EnterUnit, DeclareParam, StartBody,
       OpenBlock, CloseBlock, Expression, DeclareLocal, CheckValue, Jump, Label, ChangeState,
       Return, LeaveUnit, ReportUnused, Declare, CheckRefs

(* The steps in functions and events, and what they leave alone.           *)
UnitSteps ==
  \/ EnterUnit \/ DeclareParam \/ StartBody \/ LeaveUnit
  \/ OpenBlock \/ CloseBlock \/ Expression \/ DeclareLocal \/ CheckValue
  \/ Jump \/ Label \/ ChangeState \/ Return

LEMMA GlobalScopeStays ==
  ASSUME ScopesInv, UnitSteps
  PROVE  /\ env'[1] = env[1] /\ UNCHANGED arity
         /\ phase \in UnitPhases /\ phase' \in UnitPhases \cup {"unused"}
<1>1. env \in Seq(Maps) /\ Len(env) >= 1 /\ at \in Nat \ {0} /\ (phase \in UnitPhases <=> unit # 0)
  BY DEF ScopesInv, EnvInv, PlaceInv
<1>2. phase \in UnitPhases /\ phase' \in UnitPhases \cup {"unused"} /\ UNCHANGED arity
  BY DEF UnitSteps, EnterUnit, DeclareParam, StartBody, LeaveUnit, OpenBlock, CloseBlock, Expression,
         DeclareLocal, CheckValue, Jump, Label, ChangeState, Return, InBody, Forward, Begin, NextUnit,
         UnitPhases, BodyPhases
<1>3. CASE EnterUnit \/ OpenBlock
  <2>1. Table!Push
    BY <1>3 DEF EnterUnit, OpenBlock
  <2>2. \A i \in 1 .. Len(env) : env'[i] = env[i]
    BY <1>1, <2>1, PushEffect
  <2> QED BY <1>1, <1>2, <2>2
<1>4. CASE LeaveUnit \/ CloseBlock
  <2>1. Table!Pop
    BY <1>4 DEF LeaveUnit, CloseBlock
  <2>2. Len(env) > 1 /\ \A i \in 1 .. Len(env) - 1 : env'[i] = env[i]
    BY <1>1, <2>1, PopEffect
  <2> QED BY <1>1, <1>2, <2>2
<1>5. CASE DeclareParam
  <2>1. phase = "params" /\ at <= Len(Unit.params) /\ Declare(Unit.params[at], "param") /\ "param" \in Kinds
    BY <1>5 DEF DeclareParam, Kinds
  <2>2. Unit.params \in Seq(Names) /\ Unit.params[at] \in Names
    <3>1. unit # 0
      BY <1>1, <2>1 DEF UnitPhases
    <3>2. Unit.params \in Seq(Names)
      BY <3>1, InUnit DEF ScopesInv
    <3> QED BY <1>1, <2>1, <3>2
  <2>3. Len(env) = 2
    BY <2>1 DEF ScopesInv, EnvInv, ScopesMatchBlocks
  <2> QED BY <1>1, <1>2, <2>1, <2>2, <2>3, DeclareEffect
<1>6. CASE DeclareLocal
  <2>1. /\ phase = "body" /\ at <= Len(Unit.body) /\ Item.op = "decl"
        /\ Declare(Item.name, "local") /\ "local" \in Kinds
    BY <1>6 DEF DeclareLocal, InBody, Kinds
  <2>2. Item \in Items /\ at \in 1 .. Len(Unit.body) /\ 2 + Depth(Unit.body, at) = Len(env)
    BY <2>1, AtItem DEF BodyPhases
  <2>3. Item.name \in Names
    BY <2>1, <2>2 DEF Items
  <2>4. Depth(Unit.body, at) >= 0
    <3>1. unit # 0
      BY <1>1, <2>1 DEF UnitPhases, BodyPhases
    <3> QED BY <2>2, <3>1, InUnit DEF ScopesInv
  <2>5. Len(env) >= 2
    <3>1. Depth(Unit.body, at) \in Int
      <4>1. unit # 0
        BY <1>1, <2>1 DEF UnitPhases, BodyPhases
      <4>2. Unit.body \in Seq(Items)
        BY <4>1, InUnit DEF ScopesInv
      <4> QED BY <2>2, <4>2, DepthInt
    <3> QED BY <1>1, <2>2, <2>4, <3>1
  <2> QED BY <1>1, <1>2, <2>1, <2>3, <2>5, DeclareEffect
<1>7. CASE StartBody \/ Expression \/ CheckValue \/ Jump \/ Label \/ ChangeState \/ Return
  BY <1>2, <1>7 DEF StartBody, Expression, CheckValue, Jump, Label, ChangeState, Return
<1> QED BY <1>3, <1>4, <1>5, <1>6, <1>7 DEF UnitSteps

LEMMA TopInvInit == Init => TopInv
<1> SUFFICES ASSUME Init PROVE TopInv
  OBVIOUS
<1>1. ScopesInv /\ env = <<EmptyMap>> /\ phase = "globals" /\ at = 1 /\ errors = {}
  BY ScopesInvInit DEF Init, Table!Init, EmptyMap
<1>2. DOMAIN env[1] = {} /\ Told = 0
  BY <1>1 DEF Told, EmptyMap
<1>3. NG \in Nat
  BY <1>1, TopNamesAre DEF ScopesInv, PlaceInv
<1>4. \A i : i \notin 1 .. Told
  BY <1>2
<1> QED BY <1>1, <1>2, <1>3, <1>4 DEF TopInv, TopPlace, TopScope, TopApart

LEMMA TopInvStep == ScopesInv /\ TopInv /\ [Next]_vars => TopInv'
<1> SUFFICES ASSUME ScopesInv, TopInv, [Next]_vars PROVE TopInv'
  OBVIOUS
<1>1. errors \subseteq errors' /\ UNCHANGED script
  BY ErrorsGrow
<1>2. /\ script \in Script /\ at \in Nat \ {0} /\ env \in Seq(Maps)
      /\ phase \in TopPhases => Len(env) = 1
  BY DEF ScopesInv, PlaceInv, EnvInv, ScopesMatchBlocks, TopPhases
<1>3. /\ NG \in Nat /\ NF \in Nat /\ NS \in Nat
      /\ Len(TopNames) = NG + NF + NS
      /\ \A i \in 1 .. NG : TopNames[i] = script.globals[i].name
      /\ \A i \in 1 .. NF : TopNames[NG + i] = script.funcs[i].name
      /\ \A i \in 1 .. NS : TopNames[NG + NF + i] = script.states[i]
      /\ \A i \in 1 .. NG : script.globals[i].name \in Names
      /\ \A i \in 1 .. NF : script.funcs[i].name \in Names
      /\ \A i \in 1 .. NS : script.states[i] \in Names
  BY <1>2, TopNamesAre
<1>4. NG' = NG /\ NF' = NF /\ NS' = NS /\ TopNames' = TopNames
  BY <1>1 DEF NG, NF, NS, TopNames
<1>5. TopPlace /\ TopScope /\ TopApart
  BY DEF TopInv
<1>6. CASE DeclareGlobal
  <2> DEFINE name == script.globals[at].name
  <2>1. /\ phase = "globals" /\ phase' = "globals" /\ at <= NG /\ at' = at + 1 /\ UNCHANGED arity
        /\ Declare(name, "global") /\ "global" \in Kinds
    BY <1>6 DEF DeclareGlobal, Forward, NG, Kinds
  <2>2. Told \in Nat /\ Told' = Told + 1 /\ TopNames[Told + 1] = name /\ name \in Names
    <3>1. Told = at - 1 /\ Told' = at' - 1
      BY <2>1 DEF Told
    <3>2. at \in 1 .. NG
      BY <1>2, <1>3, <2>1
    <3>3. TopNames[at] = name /\ name \in Names
      BY <1>3, <3>2
    <3> HIDE DEF name
    <3> QED BY <1>2, <2>1, <3>1, <3>3
  <2>3. TopKind(name) = "global"
    BY <1>2, <2>1, NewKinds
  <2>4. TopScope' /\ TopApart'
    <3>1. \A n \in DOMAIN env[1] : env[1][n] = "func" => n \in DOMAIN arity' /\ arity'[n] = arity[n]
      BY <1>5, <2>1 DEF TopScope
    <3> HIDE DEF name
    <3> QED BY <3>1, <1>1, <1>2, <1>5, <2>1, <2>2, <2>3, TopDeclares DEF TopPhases
  <2>5. TopPlace'
    BY <1>2, <1>3, <1>4, <2>1 DEF TopPlace
  <2> QED BY <2>4, <2>5 DEF TopInv
<1>7. CASE DeclareFunction
  <2> DEFINE f == script.funcs[at]
  <2>1. /\ phase = "funcs" /\ phase' = "funcs" /\ at <= NF /\ at' = at + 1
        /\ Declare(f.name, "func") /\ "func" \in Kinds
        /\ arity' = IF Taken(f.name) THEN arity
                    ELSE [n \in DOMAIN arity \cup {f.name} |->
                            IF n = f.name THEN Len(f.params) ELSE arity[n]]
    BY <1>7 DEF DeclareFunction, Forward, NF, Kinds
  <2>2. Told \in Nat /\ Told' = Told + 1 /\ TopNames[Told + 1] = f.name /\ f.name \in Names
    <3>1. Told = NG + at - 1 /\ Told' = NG + at' - 1
      BY <1>4, <2>1 DEF Told
    <3>2. at \in 1 .. NF
      BY <1>2, <1>3, <2>1
    <3>3. TopNames[NG + at] = f.name /\ f.name \in Names
      BY <1>3, <3>2
    <3> HIDE DEF f
    <3> QED BY <1>2, <1>3, <2>1, <3>1, <3>3
  <2>3. Taken(f.name) <=> f.name \in DOMAIN env[1]
    BY <1>2, <2>1 DEF Taken, TopPhases
  <2>4. ~Taken(f.name) => TopKind(f.name) = "func" /\ Declared(f.name) = f
    BY <1>2, <2>1, <2>3, NewKinds
  <2>5. \A n \in DOMAIN env[1] : env[1][n] = "func" => n \in DOMAIN arity' /\ arity'[n] = arity[n]
    <3> SUFFICES ASSUME NEW n \in DOMAIN env[1], env[1][n] = "func"
                 PROVE  n \in DOMAIN arity' /\ arity'[n] = arity[n]
      OBVIOUS
    <3>1. n \in DOMAIN arity
      BY <1>5 DEF TopScope
    <3>2. ~Taken(f.name) => n # f.name
      BY <2>3
    <3> QED BY <2>1, <3>1, <3>2
  <2>6. ~Taken(f.name) => f.name \in DOMAIN arity' /\ arity'[f.name] = Len(Declared(f.name).params)
    BY <2>1, <2>4
  <2>7. TopScope' /\ TopApart'
    BY <1>1, <1>2, <1>5, <2>1, <2>2, <2>4, <2>5, <2>6, TopDeclares DEF TopPhases
  <2>8. TopPlace'
    BY <1>2, <1>3, <1>4, <2>1 DEF TopPlace
  <2> QED BY <2>7, <2>8 DEF TopInv
<1>8. CASE DeclareState
  <2> DEFINE name == script.states[at]
  <2>1. /\ phase = "states" /\ phase' = "states" /\ at <= NS /\ at' = at + 1 /\ UNCHANGED arity
        /\ Declare(name, "state") /\ "state" \in Kinds
    BY <1>8 DEF DeclareState, Forward, NS, Kinds
  <2>2. Told \in Nat /\ Told' = Told + 1 /\ TopNames[Told + 1] = name /\ name \in Names
    BY <1>2, <1>3, <1>4, <2>1 DEF Told
  <2>3. Taken(name) <=> name \in DOMAIN env[1]
    BY <1>2, <2>1 DEF Taken, TopPhases
  <2>4. ~Taken(name) => TopKind(name) = "state"
    BY <1>2, <2>1, <2>3, NewKinds
  <2>5. TopScope' /\ TopApart'
    <3>1. \A n \in DOMAIN env[1] : env[1][n] = "func" => n \in DOMAIN arity' /\ arity'[n] = arity[n]
      BY <1>5, <2>1 DEF TopScope
    <3> HIDE DEF name
    <3> QED BY <3>1, <1>1, <1>2, <1>5, <2>1, <2>2, <2>4, TopDeclares DEF TopPhases
  <2>6. TopPlace'
    BY <1>2, <1>3, <1>4, <2>1 DEF TopPlace
  <2> QED BY <2>5, <2>6 DEF TopInv
<1>9. CASE \/ StartInitialisers \/ CheckInitialiser \/ StartFunctions \/ StartStates \/ StartUnits
           \/ ReportUnused \/ UNCHANGED vars
  <2>1. UNCHANGED <<env, arity>>
    BY <1>9 DEF StartInitialisers, CheckInitialiser, StartFunctions, StartStates, StartUnits,
                ReportUnused, vars
  <2>2. Told' = Told /\ TopPlace'
    <3>1. CASE StartInitialisers
      BY <1>2, <1>3, <1>4, <1>5, <3>1 DEF StartInitialisers, Begin, TopPlace, Told, NG
    <3>2. CASE CheckInitialiser
      BY <1>2, <1>3, <1>4, <1>5, <3>2 DEF CheckInitialiser, Forward, TopPlace, Told, NG
    <3>3. CASE StartFunctions
      BY <1>2, <1>3, <1>4, <1>5, <3>3 DEF StartFunctions, Begin, TopPlace, Told, NG
    <3>4. CASE StartStates
      BY <1>2, <1>3, <1>4, <1>5, <3>4 DEF StartStates, Begin, TopPlace, Told, NF
    <3>5. CASE StartUnits
      <4>1. phase = "states" /\ phase' \in {"enter", "unused"} /\ at > NS
        BY <3>5 DEF StartUnits, NextUnit, Begin, NS
      <4>2. Told = Len(TopNames) /\ Told' = Len(TopNames)
        BY <1>2, <1>3, <1>4, <1>5, <4>1 DEF TopPlace, Told
      <4> QED BY <4>1, <4>2 DEF TopPlace
    <3>6. CASE ReportUnused
      BY <1>4, <3>6 DEF ReportUnused, Begin, TopPlace, Told
    <3>7. CASE UNCHANGED vars
      BY <1>4, <1>5, <3>7 DEF vars, TopPlace, Told
    <3> QED BY <1>9, <3>1, <3>2, <3>3, <3>4, <3>5, <3>6, <3>7
  <2> QED BY <1>1, <1>5, <2>1, <2>2, TopKeeps DEF TopInv
<1>10. CASE UnitSteps
  <2>1. /\ env'[1] = env[1] /\ UNCHANGED arity
        /\ phase \in UnitPhases /\ phase' \in UnitPhases \cup {"unused"}
    BY <1>10, GlobalScopeStays
  <2>2. Told' = Told /\ TopPlace'
    BY <1>4, <2>1 DEF Told, TopPlace, UnitPhases, BodyPhases
  <2> QED BY <1>1, <1>5, <2>1, <2>2, TopKeeps DEF TopInv
<1> QED BY <1>6, <1>7, <1>8, <1>9, <1>10 DEF Next, UnitSteps

LEMMA TopInvAlways == Spec => []TopInv
<1>1. Init => TopInv
  BY TopInvInit
<1>2. ScopesInv /\ TopInv /\ [Next]_vars => TopInv'
  BY TopInvStep
<1> QED BY <1>1, <1>2, ScopesInvAlways, PTL DEF Spec

-----------------------------------------------------------------------------
(* The scopes of a function or event: a name is in a scope if a parameter  *)
(* has it, or a local that was declared at that depth and is not left.     *)
Held(body, d, name, i) ==
  \E j \in 1 .. i : /\ body[j].op = "decl" /\ body[j].name = name /\ Depth(body, j) = d
                   /\ \A k \in j .. i : Depth(body, k) >= d

IsParam(name) == \E p \in DOMAIN Unit.params : Unit.params[p] = name

InScope(d, name, i) == (d = 2 /\ IsParam(name)) \/ Held(Unit.body, d - 2, name, i)

Reached == IF phase = "value" THEN at ELSE at - 1

InnerInv ==
  /\ \A d \in 2 .. Len(env) : \A n \in DOMAIN env[d] : env[d][n] \in {"local", "param"}
  /\ phase = "params" =>
       \A n : n \in DOMAIN env[2] <=> \E p \in DOMAIN Unit.params : p < at /\ Unit.params[p] = n
  /\ phase \in BodyPhases =>
       \A d \in 2 .. Len(env) : \A n : n \in DOMAIN env[d] <=> InScope(d, n, Reached)

LEMMA HeldStep ==
  ASSUME NEW b \in Seq(Items), NEW i \in 1 .. Len(b), NEW d \in Int, d <= Depth(b, i), NEW n
  PROVE  Held(b, d, n, i) <=> \/ Held(b, d, n, i - 1)
                              \/ b[i].op = "decl" /\ b[i].name = n /\ Depth(b, i) = d
<1>0. Depth(b, i) \in Int
  BY DepthInt
<1>1. ASSUME Held(b, d, n, i)
      PROVE  Held(b, d, n, i - 1) \/ (b[i].op = "decl" /\ b[i].name = n /\ Depth(b, i) = d)
  <2>1. PICK j \in 1 .. i : /\ b[j].op = "decl" /\ b[j].name = n /\ Depth(b, j) = d
                            /\ \A k \in j .. i : Depth(b, k) >= d
    BY <1>1 DEF Held
  <2>2. CASE j = i
    BY <2>1, <2>2
  <2>3. CASE j # i
    <3>1. j \in 1 .. i - 1 /\ \A k \in j .. i - 1 : k \in j .. i
      BY <2>3
    <3> QED BY <2>1, <3>1 DEF Held
  <2> QED BY <2>2, <2>3
<1>2. ASSUME Held(b, d, n, i - 1)
      PROVE  Held(b, d, n, i)
  <2>1. PICK j \in 1 .. i - 1 : /\ b[j].op = "decl" /\ b[j].name = n /\ Depth(b, j) = d
                                /\ \A k \in j .. i - 1 : Depth(b, k) >= d
    BY <1>2 DEF Held
  <2>2. Depth(b, i) >= d
    BY <1>0
  <2>3. j \in 1 .. i /\ \A k \in j .. i : k = i \/ k \in j .. i - 1
    OBVIOUS
  <2> QED BY <2>1, <2>2, <2>3 DEF Held
<1>3. ASSUME b[i].op = "decl", b[i].name = n, Depth(b, i) = d
      PROVE  Held(b, d, n, i)
  <2>1. i \in 1 .. i /\ (\A k \in i .. i : k = i) /\ Depth(b, i) >= d
    BY <1>0
  <2> QED BY <1>3, <2>1 DEF Held
<1> QED BY <1>1, <1>2, <1>3

LEMMA HeldAbove ==
  ASSUME NEW b \in Seq(Items), NEW i \in 0 .. Len(b), NEW d \in Int, d > Depth(b, i), NEW n
  PROVE  ~Held(b, d, n, i)
<1> SUFFICES ASSUME Held(b, d, n, i) PROVE FALSE
  OBVIOUS
<1>1. PICK j \in 1 .. i : \A k \in j .. i : Depth(b, k) >= d
  BY DEF Held
<1>2. i \in j .. i
  OBVIOUS
<1>3. Depth(b, i) \in Int /\ Depth(b, i) >= d
  BY <1>1, <1>2, DepthInt
<1> QED BY <1>3

(* The place in a body, and the depth around it.                           *)
LEMMA BodyContext ==
  ASSUME ScopesInv, phase \in BodyPhases, at <= Len(Unit.body)
  PROVE  /\ unit # 0 /\ Unit.body \in Seq(Items) /\ at \in 1 .. Len(Unit.body)
         /\ Item = Unit.body[at] /\ Item \in Items
         /\ env \in Seq(Maps)
         /\ Depth(Unit.body, at - 1) \in Nat /\ Depth(Unit.body, at) \in Nat
         /\ Len(env) = 2 + Depth(Unit.body, at - 1)
         /\ Item.op = "open" => Depth(Unit.body, at) = Depth(Unit.body, at - 1) + 1
         /\ Item.op = "close" => Depth(Unit.body, at) = Depth(Unit.body, at - 1) - 1
         /\ Item.op \notin {"open", "close"} => Depth(Unit.body, at) = Depth(Unit.body, at - 1)
<1>1. unit # 0 /\ at \in Nat \ {0} /\ env \in Seq(Maps)
  BY DEF ScopesInv, PlaceInv, EnvInv, UnitPhases
<1>2. /\ Unit.body \in Seq(Items) /\ Len(Unit.body) \in Nat
      /\ at \in 1 .. Len(Unit.body) /\ Unit.body[at] \in Items
      /\ \A i \in 1 .. Len(Unit.body) : Depth(Unit.body, i) >= 0
  BY <1>1, InUnit DEF ScopesInv
<1>3. Len(env) = 2 + Depth(Unit.body, at - 1)
  BY DEF ScopesInv, EnvInv, ScopesMatchBlocks, BodyPhases
<1>4. /\ Depth(Unit.body, at - 1) \in Int
      /\ Depth(Unit.body, at) = Depth(Unit.body, at - 1) +
           (CASE Unit.body[at].op = "open"  -> 1
              [] Unit.body[at].op = "close" -> -1
              [] OTHER                      -> 0)
  BY <1>2, DepthStep
<1>5. Depth(Unit.body, at - 1) >= 0
  <2>1. CASE at = 1
    BY <2>1, DepthStart
  <2>2. CASE at # 1
    <3>1. at - 1 \in 1 .. Len(Unit.body)
      BY <1>2, <2>2
    <3> QED BY <1>2, <3>1
  <2> QED BY <2>1, <2>2
<1>6. Depth(Unit.body, at) \in Nat
  BY <1>2, <1>4
<1> QED BY <1>1, <1>2, <1>3, <1>4, <1>5, <1>6 DEF Item

LEMMA InnerItem ==
  ASSUME UNCHANGED <<script, unit>>, at \in Nat, phase' = "body", at' = at + 1,
         \A d \in 2 .. Len(env') : \A n \in DOMAIN env'[d] : env'[d][n] \in {"local", "param"},
         \A d \in 2 .. Len(env') : \A n : n \in DOMAIN env'[d] <=> InScope(d, n, at)
  PROVE  InnerInv'
<1>1. Unit' = Unit /\ Reached' = at
  BY SameUnit DEF Reached
<1>2. \A d, n, i : InScope(d, n, i)' = InScope(d, n, i)
  BY <1>1 DEF InScope, IsParam, Held
<1>3. \A d, n : InScope(d, n, Reached)' = InScope(d, n, at)
  BY <1>1, <1>2 DEF InScope, IsParam, Held
<1> QED BY <1>3 DEF InnerInv

LEMMA InnerBodySteps ==
  ASSUME ScopesInv, InnerInv,
         \/ OpenBlock \/ CloseBlock \/ Expression \/ DeclareLocal \/ CheckValue
         \/ Jump \/ Label \/ ChangeState \/ Return
  PROVE  InnerInv'
<1>0. phase = "value" => at <= Len(Unit.body) /\ Item.op = "decl"
  BY DEF ScopesInv, PlaceInv, BodyPhases
<1>1. phase \in BodyPhases /\ at <= Len(Unit.body)
  BY <1>0 DEF OpenBlock, CloseBlock, Expression, DeclareLocal, CheckValue, Jump, Label,
              ChangeState, Return, InBody, BodyPhases
<1>2. /\ unit # 0 /\ Unit.body \in Seq(Items) /\ at \in 1 .. Len(Unit.body)
      /\ Item = Unit.body[at] /\ Item \in Items
      /\ env \in Seq(Maps)
      /\ Depth(Unit.body, at - 1) \in Nat /\ Depth(Unit.body, at) \in Nat
      /\ Len(env) = 2 + Depth(Unit.body, at - 1)
      /\ Item.op = "open" => Depth(Unit.body, at) = Depth(Unit.body, at - 1) + 1
      /\ Item.op = "close" => Depth(Unit.body, at) = Depth(Unit.body, at - 1) - 1
      /\ Item.op \notin {"open", "close"} => Depth(Unit.body, at) = Depth(Unit.body, at - 1)
  BY <1>1, BodyContext
<1>3. \A d \in 2 .. Len(env) : \A n \in DOMAIN env[d] : env[d][n] \in {"local", "param"}
  BY DEF InnerInv
<1>4. \A d \in 2 .. Len(env) : \A n : n \in DOMAIN env[d] <=> InScope(d, n, Reached)
  BY <1>1 DEF InnerInv
<1>5. ASSUME NEW d \in 2 .. 2 + Depth(Unit.body, at), NEW n
      PROVE  InScope(d, n, at) <=> \/ InScope(d, n, at - 1)
                                   \/ Item.op = "decl" /\ Item.name = n /\ d = 2 + Depth(Unit.body, at)
  <2>1. d - 2 \in Int /\ d - 2 <= Depth(Unit.body, at)
    BY <1>2
  <2>2. Held(Unit.body, d - 2, n, at) <=>
          \/ Held(Unit.body, d - 2, n, at - 1)
          \/ Unit.body[at].op = "decl" /\ Unit.body[at].name = n /\ Depth(Unit.body, at) = d - 2
    BY <1>2, <2>1, HeldStep
  <2>3. Depth(Unit.body, at) = d - 2 <=> d = 2 + Depth(Unit.body, at)
    BY <1>2, <2>1
  <2> QED BY <1>2, <2>2, <2>3 DEF InScope
<1>6. CASE OpenBlock
  <2>1. /\ Table!Push /\ UNCHANGED <<script, unit>> /\ phase = "body" /\ phase' = "body"
        /\ at' = at + 1 /\ Item.op = "open"
    BY <1>6 DEF OpenBlock, Forward, InBody
  <2>2. /\ Len(env') = Len(env) + 1
        /\ \A d \in 1 .. Len(env) : env'[d] = env[d]
        /\ DOMAIN env'[Len(env) + 1] = {}
    BY <1>2, <2>1, PushEffect
  <2>3. \A d \in 2 .. Len(env') : d = Len(env) + 1 \/ (d \in 2 .. Len(env) /\ d \in 1 .. Len(env))
    BY <1>2, <2>2
  <2>4. \A d \in 2 .. Len(env') : \A n \in DOMAIN env'[d] : env'[d][n] \in {"local", "param"}
    BY <1>3, <2>2, <2>3
  <2>5. ASSUME NEW d \in 2 .. Len(env'), NEW n
        PROVE  n \in DOMAIN env'[d] <=> InScope(d, n, at)
    <3>1. InScope(d, n, at) <=> InScope(d, n, at - 1)
      BY <1>2, <1>5, <2>1, <2>2
    <3>2. CASE d = Len(env) + 1
      <4>1. ~Held(Unit.body, d - 2, n, at - 1)
        <5>1. at - 1 \in 0 .. Len(Unit.body) /\ d - 2 \in Int /\ d - 2 > Depth(Unit.body, at - 1)
          BY <1>2, <3>2
        <5> QED BY <1>2, <5>1, HeldAbove
      <4>2. d # 2
        BY <1>2, <3>2
      <4> QED BY <2>2, <3>1, <3>2, <4>1, <4>2 DEF InScope
    <3>3. CASE d \in 2 .. Len(env)
      <4>1. env'[d] = env[d] /\ Reached = at - 1
        BY <2>1, <2>2, <3>3 DEF Reached
      <4> QED BY <1>4, <3>1, <3>3, <4>1
    <3> QED BY <2>3, <3>2, <3>3
  <2> QED BY <1>2, <2>1, <2>4, <2>5, InnerItem
<1>7. CASE CloseBlock
  <2>1. /\ Table!Pop /\ UNCHANGED <<script, unit>> /\ phase = "body" /\ phase' = "body"
        /\ at' = at + 1 /\ Item.op = "close"
    BY <1>7 DEF CloseBlock, Forward, InBody
  <2>2. /\ Len(env') = Len(env) - 1
        /\ \A d \in 1 .. Len(env) - 1 : env'[d] = env[d]
    BY <1>2, <2>1, PopEffect
  <2>3. \A d \in 2 .. Len(env') : d \in 2 .. Len(env) /\ d \in 1 .. Len(env) - 1
    BY <1>2, <2>2
  <2>4. \A d \in 2 .. Len(env') : \A n \in DOMAIN env'[d] : env'[d][n] \in {"local", "param"}
    BY <1>3, <2>2, <2>3
  <2>5. ASSUME NEW d \in 2 .. Len(env'), NEW n
        PROVE  n \in DOMAIN env'[d] <=> InScope(d, n, at)
    <3>1. InScope(d, n, at) <=> InScope(d, n, at - 1)
      BY <1>2, <1>5, <2>1, <2>2
    <3>2. env'[d] = env[d] /\ Reached = at - 1
      BY <2>1, <2>2, <2>3 DEF Reached
    <3> QED BY <1>4, <2>3, <3>1, <3>2
  <2> QED BY <1>2, <2>1, <2>4, <2>5, InnerItem
<1>8. CASE Expression \/ Jump \/ Label \/ ChangeState \/ Return
  <2>1. /\ UNCHANGED <<script, unit, env>> /\ phase = "body" /\ phase' = "body"
        /\ at' = at + 1 /\ Item.op \notin {"open", "close", "decl"}
    BY <1>8 DEF Expression, Jump, Label, ChangeState, Return, Forward, InBody
  <2>2. ASSUME NEW d \in 2 .. Len(env'), NEW n
        PROVE  n \in DOMAIN env'[d] <=> InScope(d, n, at)
    <3>1. InScope(d, n, at) <=> InScope(d, n, at - 1)
      BY <1>2, <1>5, <2>1
    <3>2. Reached = at - 1
      BY <2>1 DEF Reached
    <3> QED BY <1>4, <2>1, <3>1, <3>2
  <2>3. \A d \in 2 .. Len(env') : \A n \in DOMAIN env'[d] : env'[d][n] \in {"local", "param"}
    BY <1>3, <2>1
  <2>4. at \in Nat
    BY <1>2
  <2> QED BY <2>1, <2>2, <2>3, <2>4, InnerItem
<1>9. CASE CheckValue
  <2>1. /\ UNCHANGED <<script, unit, env>> /\ phase = "value" /\ phase' = "body" /\ at' = at + 1
    BY <1>9 DEF CheckValue
  <2>2. \A d \in 2 .. Len(env') : \A n : n \in DOMAIN env'[d] <=> InScope(d, n, at)
    BY <1>4, <2>1 DEF Reached
  <2> QED BY <1>2, <1>3, <2>1, <2>2, InnerItem
<1>10. CASE DeclareLocal
  <2>1. /\ UNCHANGED <<script, unit, at>> /\ phase = "body" /\ phase' = "value"
        /\ Item.op = "decl" /\ Declare(Item.name, "local") /\ "local" \in Kinds
    BY <1>10 DEF DeclareLocal, InBody, Kinds
  <2>2. Item.name \in Names /\ Len(env) \in 2 .. Len(env) /\ Len(env) >= 1
    BY <1>2, <2>1 DEF Items
  <2>3. /\ Len(env') = Len(env)
        /\ \A d \in 1 .. Len(env) : d # Len(env) => env'[d] = env[d]
        /\ \A n : n \in DOMAIN env'[Len(env)] <=> n = Item.name \/ n \in DOMAIN env[Len(env)]
        /\ \A n \in DOMAIN env[Len(env)] : env'[Len(env)][n] = env[Len(env)][n]
        /\ ~Taken(Item.name) => env'[Len(env)][Item.name] = "local"
        /\ Taken(Item.name) <=> Item.name \in DOMAIN env[Len(env)]
    BY <1>2, <2>1, <2>2, DeclareEffect
  <2>4. \A n \in DOMAIN env'[Len(env)] : env'[Len(env)][n] \in {"local", "param"}
    BY <1>3, <2>2, <2>3
  <2>5. \A d \in 2 .. Len(env') : d = Len(env) \/ (d # Len(env) /\ d \in 1 .. Len(env) /\ d \in 2 .. Len(env))
    BY <1>2, <2>3
  <2>6. \A d \in 2 .. Len(env') : \A n \in DOMAIN env'[d] : env'[d][n] \in {"local", "param"}
    BY <1>3, <2>3, <2>4, <2>5
  <2>7. Unit' = Unit /\ Reached = at - 1 /\ Reached' = at
    BY <2>1, SameUnit DEF Reached
  <2>8. ASSUME NEW d \in 2 .. Len(env'), NEW n
        PROVE  n \in DOMAIN env'[d] <=> InScope(d, n, at)
    <3>1. InScope(d, n, at) <=> InScope(d, n, at - 1) \/ (Item.name = n /\ d = Len(env))
      BY <1>2, <1>5, <2>1, <2>3
    <3>2. n \in DOMAIN env[d] <=> InScope(d, n, at - 1)
      BY <1>4, <2>3, <2>7
    <3> QED BY <2>3, <2>5, <3>1, <3>2
  <2>9. \A d, n : InScope(d, n, Reached)' = InScope(d, n, at)
    BY <2>7 DEF InScope, IsParam, Held
  <2>10. \A d \in 2 .. Len(env') : \A n : n \in DOMAIN env'[d] <=> InScope(d, n, Reached)'
    BY <2>8, <2>9
  <2>11. phase' # "params"
    BY <2>1
  <2> QED BY <2>6, <2>10, <2>11 DEF InnerInv
<1> QED BY <1>6, <1>7, <1>8, <1>9, <1>10

LEMMA InnerUnitSteps ==
  ASSUME ScopesInv, InnerInv, EnterUnit \/ DeclareParam \/ StartBody
  PROVE  InnerInv'
<1>1. env \in Seq(Maps) /\ at \in Nat \ {0} /\ (phase \in UnitPhases => unit # 0)
  BY DEF ScopesInv, EnvInv, PlaceInv
<1>2. UNCHANGED <<script, unit>> /\ phase \in {"enter", "params"} /\ unit # 0
  BY <1>1 DEF EnterUnit, DeclareParam, StartBody, Forward, Begin, UnitPhases
<1>3. Unit' = Unit
  BY <1>2, SameUnit
<1>4. Unit.params \in Seq(Names)
  BY <1>2, InUnit DEF ScopesInv
<1>5. Len(env) = IF phase = "params" THEN 2 ELSE 1
  BY <1>2 DEF ScopesInv, EnvInv, ScopesMatchBlocks
<1>6. CASE EnterUnit
  <2>1. phase = "enter" /\ phase' = "params" /\ at' = 1 /\ Table!Push
    BY <1>6 DEF EnterUnit, Begin
  <2>2. Len(env') = 2 /\ DOMAIN env'[2] = {}
    BY <1>1, <1>5, <2>1, PushEffect
  <2>3. \A d \in 2 .. Len(env') : d = 2
    BY <2>2
  <2>4. \A p \in DOMAIN Unit.params : ~(p < at')
    BY <1>4, <2>1
  <2> QED BY <1>3, <2>1, <2>2, <2>3, <2>4 DEF InnerInv, BodyPhases
<1>7. CASE DeclareParam
  <2> DEFINE name == Unit.params[at]
  <2>1. /\ phase = "params" /\ phase' = "params" /\ at' = at + 1 /\ at <= Len(Unit.params)
        /\ Declare(name, "param") /\ "param" \in Kinds
    BY <1>7 DEF DeclareParam, Forward, Kinds
  <2>2. at \in DOMAIN Unit.params /\ name \in Names /\ \A p \in DOMAIN Unit.params : p \in Nat
    BY <1>1, <1>4, <2>1
  <2>3. /\ Len(env') = 2
        /\ \A n : n \in DOMAIN env'[2] <=> n = name \/ n \in DOMAIN env[2]
        /\ \A n \in DOMAIN env[2] : env'[2][n] = env[2][n]
        /\ ~Taken(name) => env'[2][name] = "param"
        /\ Taken(name) <=> name \in DOMAIN env[2]
    BY <1>1, <1>5, <2>1, <2>2, DeclareEffect
  <2>4. \A d \in 2 .. 2 : d = 2 /\ 2 \in 2 .. Len(env)
    BY <1>5, <2>1
  <2>5. \A n \in DOMAIN env'[2] : env'[2][n] \in {"local", "param"}
    BY <2>3, <2>4 DEF InnerInv
  <2>6. \A p \in DOMAIN Unit.params : p < at + 1 <=> p = at \/ p < at
    BY <1>1, <2>2
  <2>7. \A n : n \in DOMAIN env'[2] <=> \E p \in DOMAIN Unit.params : p < at' /\ Unit.params[p] = n
    <3>1. \A n : n \in DOMAIN env[2] <=> \E p \in DOMAIN Unit.params : p < at /\ Unit.params[p] = n
      BY <2>1 DEF InnerInv
    <3> QED BY <2>1, <2>2, <2>3, <2>6, <3>1
  <2> QED BY <1>3, <2>1, <2>3, <2>4, <2>5, <2>7 DEF InnerInv, BodyPhases
<1>8. CASE StartBody
  <2>1. /\ phase = "params" /\ phase' = "body" /\ at' = 1 /\ at > Len(Unit.params) /\ UNCHANGED env
    BY <1>8 DEF StartBody, Begin
  <2>2. \A p \in DOMAIN Unit.params : p < at
    BY <1>1, <1>4, <2>1
  <2>3. \A n : n \in DOMAIN env[2] <=> IsParam(n)
    BY <2>1, <2>2 DEF InnerInv, IsParam
  <2>4. \A d \in 2 .. Len(env) : d = 2
    BY <1>5, <2>1
  <2>5. Reached' = 0
    BY <2>1 DEF Reached
  <2>6. \A d, n : ~Held(Unit.body, d, n, 0)
    BY DEF Held
  <2>7. \A d, n : InScope(d, n, Reached)' <=> d = 2 /\ IsParam(n)
    BY <1>3, <2>5, <2>6 DEF InScope, IsParam, Held
  <2>8. \A d \in 2 .. Len(env') : \A n : n \in DOMAIN env'[d] <=> InScope(d, n, Reached)'
    BY <2>1, <2>3, <2>4, <2>7
  <2>9. \A d \in 2 .. Len(env') : \A n \in DOMAIN env'[d] : env'[d][n] \in {"local", "param"}
    BY <2>1 DEF InnerInv
  <2> QED BY <2>1, <2>8, <2>9 DEF InnerInv
<1> QED BY <1>6, <1>7, <1>8

LEMMA InnerInvInit == Init => InnerInv
<1> SUFFICES ASSUME Init PROVE InnerInv
  OBVIOUS
<1>1. env = <<EmptyMap>> /\ phase = "globals"
  BY DEF Init, Table!Init, EmptyMap
<1>2. \A d : d \notin 2 .. Len(env)
  BY <1>1
<1> QED BY <1>1, <1>2 DEF InnerInv, BodyPhases

LEMMA InnerInvStep == ScopesInv /\ ScopesInv' /\ InnerInv /\ [Next]_vars => InnerInv'
<1> SUFFICES ASSUME ScopesInv, ScopesInv', InnerInv, [Next]_vars PROVE InnerInv'
  OBVIOUS
<1>1. CASE phase' \in TopPhases \cup {"enter"}
  <2>1. Len(env') = 1
    BY <1>1 DEF ScopesInv, EnvInv, ScopesMatchBlocks, TopPhases
  <2>2. \A d : d \notin 2 .. Len(env')
    BY <2>1
  <2> QED BY <1>1, <2>2 DEF InnerInv, TopPhases, BodyPhases
<1>2. CASE phase' \notin TopPhases \cup {"enter"}
  <2>1. CASE UNCHANGED vars
    <3>1. UNCHANGED <<script, phase, unit, at, env>>
      BY <2>1 DEF vars
    <3>2. Unit' = Unit /\ Reached' = Reached
      BY <3>1, SameUnit DEF Reached
    <3>3. \A d, n : InScope(d, n, Reached)' <=> InScope(d, n, Reached)
      BY <3>2 DEF InScope, IsParam, Held
    <3> QED BY <3>1, <3>2, <3>3 DEF InnerInv
  <2>2. CASE \/ OpenBlock \/ CloseBlock \/ Expression \/ DeclareLocal \/ CheckValue
             \/ Jump \/ Label \/ ChangeState \/ Return
    BY <2>2, InnerBodySteps
  <2>3. CASE EnterUnit \/ DeclareParam \/ StartBody
    BY <2>3, InnerUnitSteps
  <2>4. CASE \/ DeclareGlobal \/ StartInitialisers \/ CheckInitialiser \/ StartFunctions
             \/ DeclareFunction \/ StartStates \/ DeclareState \/ StartUnits
             \/ LeaveUnit \/ ReportUnused
    <3>1. phase' \in TopPhases \cup {"enter"}
      BY <2>4 DEF DeclareGlobal, StartInitialisers, CheckInitialiser, StartFunctions, DeclareFunction,
                  StartStates, DeclareState, StartUnits, LeaveUnit, ReportUnused, Forward, Begin,
                  NextUnit, TopPhases
    <3> QED BY <1>2, <3>1
  <2> QED BY <2>1, <2>2, <2>3, <2>4 DEF Next
<1> QED BY <1>1, <1>2

LEMMA InnerInvAlways == Spec => []InnerInv
<1>1. Init => InnerInv
  BY InnerInvInit
<1>2. ScopesInv /\ ScopesInv' /\ InnerInv /\ [Next]_vars => InnerInv'
  BY InnerInvStep
<1> QED BY <1>1, <1>2, ScopesInvAlways, PTL DEF Spec

-----------------------------------------------------------------------------
(* What a name means where it is looked up.                                *)
LEMMA TableMeaning ==
  ASSUME env \in Seq(Maps), NEW n
  PROVE  /\ (\A d \in 1 .. Len(env) : n \notin DOMAIN env[d]) => Meaning(n) = Table!Undefined
         /\ (\E d \in 1 .. Len(env) : n \in DOMAIN env[d]) =>
              \E d \in 1 .. Len(env) : /\ n \in DOMAIN env[d] /\ Meaning(n) = env[d][n]
                                       /\ \A e \in 1 .. Len(env) : n \in DOMAIN env[e] => e <= d
         /\ \A d : d \in Table!DefinedIn(env, n) <=> d \in 1 .. Len(env) /\ n \in DOMAIN env[d]
<1> DEFINE D == Table!DefinedIn(env, n)
<1>1. Len(env) \in Nat /\ DOMAIN env = 1 .. Len(env)
  OBVIOUS
<1>2. \A d : d \in D <=> d \in 1 .. Len(env) /\ n \in DOMAIN env[d]
  BY <1>1 DEF Table!DefinedIn
<1>3. ASSUME \A d \in 1 .. Len(env) : n \notin DOMAIN env[d]
      PROVE  Meaning(n) = Table!Undefined
  <2>1. D = {}
    BY <1>2, <1>3
  <2> QED BY <2>1 DEF Meaning, Table!Meaning
<1>4. ASSUME \E d \in 1 .. Len(env) : n \in DOMAIN env[d]
      PROVE  \E d \in 1 .. Len(env) : /\ n \in DOMAIN env[d] /\ Meaning(n) = env[d][n]
                                      /\ \A e \in 1 .. Len(env) : n \in DOMAIN env[e] => e <= d
  <2> DEFINE top == CHOOSE d \in D : \A e \in D : e <= d
  <2>1. D # {} /\ D \subseteq 1 .. Len(env)
    BY <1>2, <1>4
  <2>2. \E d \in D : \A e \in D : e <= d
    <3> HIDE DEF D
    <3> QED BY <1>1, <2>1, GreatestExists
  <2>3. top \in D /\ \A e \in D : e <= top
    <3> HIDE DEF D
    <3> QED BY <2>2
  <2>4. Meaning(n) = env[top][n]
    BY <2>1 DEF Meaning, Table!Meaning
  <2> HIDE DEF top, D
  <2> QED BY <1>2, <2>3, <2>4
<1> QED BY <1>2, <1>3, <1>4

LEMMA TopMembers ==
  ASSUME ScopesInv, TopInv
  PROVE  /\ phase = "inits" => \A n : n \in DOMAIN env[1] <=> n \in GlobalNames
         /\ phase \in UnitPhases \cup {"unused", "done"} =>
              \A n : n \in DOMAIN env[1] <=> n \in GlobalNames \cup FunctionNames \cup StateNames
         /\ \A n \in DOMAIN env[1] : env[1][n] = TopKind(n)
<1>1. script \in Script
  BY DEF ScopesInv, PlaceInv
<1>2. /\ NG \in Nat /\ NF \in Nat /\ NS \in Nat
      /\ Len(TopNames) = NG + NF + NS
      /\ \A i \in 1 .. NG : TopNames[i] = script.globals[i].name
      /\ \A i \in 1 .. NF : TopNames[NG + i] = script.funcs[i].name
      /\ \A i \in 1 .. NS : TopNames[NG + NF + i] = script.states[i]
  BY <1>1, TopNamesAre
<1>3. DOMAIN script.globals = 1 .. NG /\ DOMAIN script.funcs = 1 .. NF /\ DOMAIN script.states = 1 .. NS
  BY <1>1 DEF Script, NG, NF, NS
<1>4. /\ \A n : n \in Named(script.globals) <=> \E i \in 1 .. NG : TopNames[i] = n
      /\ \A n : n \in Named(script.funcs) <=> \E i \in 1 .. NF : TopNames[NG + i] = n
      /\ \A n : n \in {script.states[i] : i \in DOMAIN script.states} <=>
                  \E i \in 1 .. NS : TopNames[NG + NF + i] = n
  <2>1. \A n : n \in Named(script.globals) <=> \E i \in 1 .. NG : script.globals[i].name = n
    BY <1>3 DEF Named
  <2>2. \A n : n \in Named(script.funcs) <=> \E i \in 1 .. NF : script.funcs[i].name = n
    BY <1>3 DEF Named
  <2>3. \A n : n \in {script.states[i] : i \in DOMAIN script.states} <=>
                  \E i \in 1 .. NS : script.states[i] = n
    BY <1>3
  <2>4. \A n : (\E i \in 1 .. NG : script.globals[i].name = n) <=> \E i \in 1 .. NG : TopNames[i] = n
    BY <1>2
  <2>5. \A n : (\E i \in 1 .. NF : script.funcs[i].name = n) <=> \E i \in 1 .. NF : TopNames[NG + i] = n
    BY <1>2
  <2>6. \A n : (\E i \in 1 .. NS : script.states[i] = n) <=> \E i \in 1 .. NS : TopNames[NG + NF + i] = n
    BY <1>2
  <2> QED BY ONLY <2>1, <2>2, <2>3, <2>4, <2>5, <2>6
<1>5. \A n : n \in DOMAIN env[1] <=> \E i \in 1 .. Told : TopNames[i] = n
  BY DEF TopInv, TopScope
<1>6. CASE phase = "inits"
  <2>1. Told = NG
    BY <1>6 DEF Told
  <2> QED BY <1>4, <1>5, <1>6, <2>1 DEF GlobalNames, TopInv, TopScope, UnitPhases, BodyPhases
<1>7. CASE phase \in UnitPhases \cup {"unused", "done"}
  <2>1. Told = NG + NF + NS
    BY <1>2, <1>7 DEF Told, UnitPhases, BodyPhases
  <2>2. \A i : i \in 1 .. NG + NF + NS <=>
                 \/ i \in 1 .. NG
                 \/ \E k \in 1 .. NF : i = NG + k
                 \/ \E k \in 1 .. NS : i = NG + NF + k
    <3>1. ASSUME NEW i \in NG + 1 .. NG + NF PROVE i - NG \in 1 .. NF /\ i = NG + (i - NG)
      BY <1>2
    <3>2. ASSUME NEW i \in NG + NF + 1 .. NG + NF + NS
          PROVE  i - NG - NF \in 1 .. NS /\ i = NG + NF + (i - NG - NF)
      BY <1>2
    <3>3. \A i \in 1 .. NG + NF + NS : i \in 1 .. NG \/ i \in NG + 1 .. NG + NF \/ i \in NG + NF + 1 .. NG + NF + NS
      BY <1>2
    <3>4. ASSUME NEW i, \/ i \in 1 .. NG
                        \/ \E k \in 1 .. NF : i = NG + k
                        \/ \E k \in 1 .. NS : i = NG + NF + k
          PROVE  i \in 1 .. NG + NF + NS
      BY <1>2, <3>4
    <3> QED BY <3>1, <3>2, <3>3, <3>4
  <2>3. \A n : (\E i \in 1 .. NG + NF + NS : TopNames[i] = n) <=>
                 \/ \E i \in 1 .. NG : TopNames[i] = n
                 \/ \E i \in 1 .. NF : TopNames[NG + i] = n
                 \/ \E i \in 1 .. NS : TopNames[NG + NF + i] = n
    BY <2>2
  <2>4. \A n : n \in DOMAIN env[1] <=> n \in GlobalNames \cup FunctionNames \cup StateNames
    BY <1>4, <1>5, <2>1, <2>3 DEF GlobalNames, FunctionNames, StateNames
  <2> QED BY <1>7, <2>4 DEF TopInv, TopScope, UnitPhases, BodyPhases
<1> QED BY <1>6, <1>7 DEF TopInv, TopScope

(* A reference is looked at in an initialiser or at an item of a body; at  *)
(* the declaration of a local, once the local is declared.                 *)
AtInitialiser == phase = "inits" /\ at <= NG

AtReference ==
  /\ phase \in BodyPhases /\ at <= Len(Unit.body)
  /\ Item.op \in {"expr", "return", "decl"} /\ (Item.op = "decl" => phase = "value")

LEMMA ScopesHere ==
  ASSUME ScopesInv, InnerInv, AtReference, NEW n
  PROVE  (\E d \in 2 .. Len(env) : n \in DOMAIN env[d]) <=> Local(unit, at, n)
<1>1. /\ unit # 0 /\ Unit.body \in Seq(Items) /\ at \in 1 .. Len(Unit.body)
      /\ Item = Unit.body[at] /\ env \in Seq(Maps)
      /\ Depth(Unit.body, at) \in Nat
      /\ Len(env) = 2 + Depth(Unit.body, at)
  BY BodyContext DEF AtReference
<1>2. \A d \in 2 .. Len(env) : n \in DOMAIN env[d] <=> InScope(d, n, at)
  <2> SUFFICES ASSUME NEW d \in 2 .. Len(env)
               PROVE  n \in DOMAIN env[d] <=> InScope(d, n, at)
    OBVIOUS
  <2>1. n \in DOMAIN env[d] <=> InScope(d, n, Reached)
    BY DEF InnerInv, AtReference
  <2>2. CASE phase = "value"
    BY <2>1, <2>2 DEF Reached
  <2>3. CASE phase # "value"
    <3>1. d - 2 \in Int /\ d - 2 <= Depth(Unit.body, at)
      BY <1>1
    <3>2. Held(Unit.body, d - 2, n, at) <=> Held(Unit.body, d - 2, n, at - 1)
      BY <1>1, <2>3, <3>1, HeldStep DEF AtReference
    <3> QED BY <2>1, <2>3, <3>2 DEF Reached, InScope
  <2> QED BY <2>2, <2>3
<1>3. Local(unit, at, n) <=>
        \/ IsParam(n)
        \/ \E j \in 1 .. at : /\ Unit.body[j].op = "decl" /\ Unit.body[j].name = n
                             /\ \A k \in j .. at : Depth(Unit.body, k) >= Depth(Unit.body, j)
  BY DEF Local, IsParam, Unit
<1> HIDE DEF Unit
<1>4. ASSUME NEW d \in 2 .. Len(env), InScope(d, n, at)
      PROVE  Local(unit, at, n)
  BY <1>3, <1>4 DEF InScope, Held
<1>5. ASSUME Local(unit, at, n)
      PROVE  \E d \in 2 .. Len(env) : InScope(d, n, at)
  <2>1. CASE IsParam(n)
    <3>1. 2 \in 2 .. Len(env)
      BY <1>1
    <3> QED BY <2>1, <3>1 DEF InScope
  <2>2. CASE ~IsParam(n)
    <3>1. PICK j \in 1 .. at : /\ Unit.body[j].op = "decl" /\ Unit.body[j].name = n
                               /\ \A k \in j .. at : Depth(Unit.body, k) >= Depth(Unit.body, j)
      BY <1>3, <1>5, <2>2
    <3>2. j \in 1 .. Len(Unit.body) /\ at \in j .. at
      BY <1>1
    <3>3. Depth(Unit.body, j) \in Int
      BY <1>1, <3>2, DepthInt
    <3>4. Depth(Unit.body, j) >= 0
      BY <1>1, <3>2, InUnit DEF ScopesInv
    <3>5. Depth(Unit.body, j) + 2 \in 2 .. Len(env) /\ Depth(Unit.body, j) + 2 - 2 = Depth(Unit.body, j)
      BY <1>1, <3>1, <3>2, <3>3, <3>4
    <3>6. Held(Unit.body, Depth(Unit.body, j), n, at)
      BY <3>1 DEF Held
    <3>7. PICK d \in 2 .. Len(env) : d - 2 = Depth(Unit.body, j)
      BY <3>3, <3>5
    <3> QED BY <3>6, <3>7 DEF InScope
  <2> QED BY <2>1, <2>2
<1> QED BY <1>2, <1>4, <1>5

(* At such a place the table says of a name what the text says.            *)
TopHere == IF phase = "inits" THEN GlobalNames ELSE GlobalNames \cup FunctionNames \cup StateNames

LocalHere(n) == phase # "inits" /\ Local(unit, at, n)

LEMMA MeaningHere ==
  ASSUME ScopesInv, TopInv, InnerInv, AtInitialiser \/ AtReference, NEW n
  PROVE  /\ LocalHere(n) => Meaning(n) \in {"local", "param"}
         /\ ~LocalHere(n) /\ n \in TopHere => Meaning(n) = TopKind(n)
         /\ ~LocalHere(n) /\ n \notin TopHere => Meaning(n) = Table!Undefined
         /\ n \in DOMAIN env[1] <=> n \in TopHere
         /\ n \in TopHere => env[1][n] = TopKind(n)
         /\ Table!DefinedIn(env, n) = {1} <=> ~LocalHere(n) /\ n \in TopHere
<1>1. env \in Seq(Maps) /\ Len(env) >= 1 /\ Len(env) \in Nat
  BY DEF ScopesInv, EnvInv
<1>2. /\ n \in DOMAIN env[1] <=> n \in TopHere
      /\ n \in DOMAIN env[1] => env[1][n] = TopKind(n)
  BY TopMembers DEF TopHere, AtInitialiser, AtReference, UnitPhases, BodyPhases
<1>3. (\E d \in 2 .. Len(env) : n \in DOMAIN env[d]) <=> LocalHere(n)
  <2>1. CASE phase = "inits"
    <3>1. Len(env) = 1
      BY <2>1 DEF ScopesInv, EnvInv, ScopesMatchBlocks
    <3>2. \A d : d \notin 2 .. Len(env)
      BY <3>1
    <3> QED BY <2>1, <3>2 DEF LocalHere
  <2>2. CASE phase # "inits"
    <3>1. AtReference
      BY <2>2 DEF AtInitialiser
    <3> QED BY <2>2, <3>1, ScopesHere DEF LocalHere
  <2> QED BY <2>1, <2>2
<1>4. 1 \in 1 .. Len(env) /\ \A d : d \in 1 .. Len(env) <=> d = 1 \/ d \in 2 .. Len(env)
  BY <1>1
<1>5. /\ (\A d \in 1 .. Len(env) : n \notin DOMAIN env[d]) => Meaning(n) = Table!Undefined
      /\ (\E d \in 1 .. Len(env) : n \in DOMAIN env[d]) =>
           \E d \in 1 .. Len(env) : /\ n \in DOMAIN env[d] /\ Meaning(n) = env[d][n]
                                    /\ \A e \in 1 .. Len(env) : n \in DOMAIN env[e] => e <= d
      /\ \A d : d \in Table!DefinedIn(env, n) <=> d \in 1 .. Len(env) /\ n \in DOMAIN env[d]
  BY <1>1, TableMeaning
<1>6. CASE LocalHere(n)
  <2>1. PICK e \in 2 .. Len(env) : n \in DOMAIN env[e]
    BY <1>3, <1>6
  <2>2. PICK d \in 1 .. Len(env) : n \in DOMAIN env[d] /\ Meaning(n) = env[d][n] /\ e <= d
    BY <1>4, <1>5, <2>1
  <2>3. d \in 2 .. Len(env)
    BY <1>1, <2>1, <2>2
  <2>4. Meaning(n) \in {"local", "param"}
    BY <2>2, <2>3 DEF InnerInv
  <2>5. e \in Table!DefinedIn(env, n) /\ e # 1
    BY <1>4, <1>5, <2>1
  <2> QED BY <1>2, <1>6, <2>4, <2>5
<1>7. CASE ~LocalHere(n) /\ n \in TopHere
  <2>1. PICK d \in 1 .. Len(env) : n \in DOMAIN env[d] /\ Meaning(n) = env[d][n]
    BY <1>2, <1>4, <1>5, <1>7
  <2>2. d = 1
    BY <1>3, <1>4, <1>7, <2>1
  <2>3. Table!DefinedIn(env, n) = {1}
    BY <1>2, <1>3, <1>4, <1>5, <1>7
  <2> QED BY <1>2, <1>7, <2>1, <2>2, <2>3
<1>8. CASE ~LocalHere(n) /\ n \notin TopHere
  <2>1. \A d \in 1 .. Len(env) : n \notin DOMAIN env[d]
    BY <1>2, <1>3, <1>4, <1>8
  <2>2. 1 \notin Table!DefinedIn(env, n)
    BY <1>5, <2>1, <1>4
  <2> QED BY <1>2, <1>5, <1>8, <2>1, <2>2
<1> QED BY <1>6, <1>7, <1>8

(* What the text says of a reference, without the table.                   *)
UseComplaints(s) ==
  IF (s.unit # 0 /\ Local(s.unit, s.at, s.ref.name)) \/ s.ref.name \in GlobalNames THEN {}
  ELSE IF s.unit # 0 /\ s.ref.name \in FunctionNames \cup StateNames THEN {"not a value"}
  ELSE IF s.ref.name \in BuiltinConsts THEN {} ELSE {"undeclared"}

CallComplaints(s) ==
  (IF Wanted(s) = {} THEN IF s.ref.name \in LlNames THEN {} ELSE {"undeclared function"}
   ELSE IF s.ref.args \in Wanted(s) THEN {} ELSE {"arity"})
    \cup (IF Barred(s) THEN {"mono only"} ELSE {})

ComplaintsOf(s) == IF s.ref.op = "use" THEN UseComplaints(s) ELSE CallComplaints(s)

RefersTo(s) ==
  IF s.ref.op = "use"
    THEN IF s.unit = 0 THEN s.ref.name \in GlobalNames
         ELSE /\ ~Local(s.unit, s.at, s.ref.name)
              /\ s.ref.name \in GlobalNames \cup FunctionNames \cup StateNames
    ELSE s.unit # 0 /\ s.ref.name \in FunctionNames

SiteOf(u, i, r) == [unit |-> u, at |-> i, ref |-> r]

(* Which overload a call is compared with.                                 *)
LEMMA OverloadIs ==
  ASSUME NEW n \in DOMAIN BuiltinFns, NEW args
  PROVE  LET table == BuiltinFns[n]
             fits(i) == table[i].params = args
         IN  \E i \in DOMAIN table :
               /\ Overload(n, args) = table[i]
               /\ IF \E k \in DOMAIN table : fits(k)
                    THEN fits(i) /\ \A j \in 1 .. i - 1 : ~fits(j)
                    ELSE i = 1
<1> DEFINE table   == BuiltinFns[n]
           fitting == {i \in DOMAIN table : table[i].params = args}
           best    == CHOOSE i \in fitting : \A j \in fitting : i <= j
<1>1. table \in Seq([params : Nat, mono : BOOLEAN]) /\ table # <<>>
  BY BuiltinsAssumption
<1>2. Overload(n, args) = IF fitting = {} THEN table[1] ELSE table[best]
  BY DEF Overload
<1> HIDE DEF table
<1>3. 1 \in DOMAIN table /\ DOMAIN table = 1 .. Len(table) /\ Len(table) \in Nat
  BY <1>1
<1>4. CASE fitting = {}
  <2>1. ~ \E k \in DOMAIN table : table[k].params = args
    BY <1>4
  <2>2. Overload(n, args) = table[1]
    BY <1>2, <1>4
  <2> QED BY <1>3, <2>1, <2>2 DEF table
<1>5. CASE fitting # {}
  <2>1. fitting \subseteq Nat
    BY <1>3
  <2>2. best \in fitting /\ \A j \in fitting : best <= j
    <3> HIDE DEF fitting
    <3>1. \E i \in fitting : \A j \in fitting : i <= j
      BY <1>5, <2>1, LeastExists
    <3> QED BY <3>1
  <2>3. Overload(n, args) = table[best]
    BY <1>2, <1>5
  <2> HIDE DEF best
  <2>4. \A j \in 1 .. best - 1 : table[j].params # args
    <3> SUFFICES ASSUME NEW j \in 1 .. best - 1, table[j].params = args PROVE FALSE
      OBVIOUS
    <3>1. best \in 1 .. Len(table)
      BY <1>3, <2>2
    <3>2. j \in DOMAIN table
      BY <1>3, <3>1
    <3>3. best <= j
      BY <2>2, <3>2
    <3> QED BY <3>1, <3>3
  <2>5. best \in DOMAIN table /\ table[best].params = args
    BY <2>2
  <2>6. \E k \in DOMAIN table : table[k].params = args
    BY <2>5
  <2> QED BY <2>3, <2>4, <2>5, <2>6 DEF table
<1> QED BY <1>4, <1>5

(* What is said of a call that no function of the script answers.          *)
LEMMA BuiltinCall ==
  ASSUME NEW s, ~ByScript(s), s.ref.name \in DOMAIN BuiltinFns
  PROVE  /\ Wanted(s) # {}
         /\ BuiltinFaults(Overload(s.ref.name, s.ref.args), s.ref.args) = CallComplaints(s)
<1>1. PICK n, args : n = s.ref.name /\ args = s.ref.args
  OBVIOUS
<1> DEFINE table == BuiltinFns[n]
           fits(i) == table[i].params = args
<1>2. table \in Seq([params : Nat, mono : BOOLEAN]) /\ table # <<>>
  BY <1>1, BuiltinsAssumption
<1>3. PICK i \in DOMAIN table :
        /\ Overload(n, args) = table[i]
        /\ IF \E k \in DOMAIN table : fits(k)
             THEN fits(i) /\ \A j \in 1 .. i - 1 : ~fits(j)
             ELSE i = 1
  BY <1>1, OverloadIs
<1>4. Wanted(s) = {table[k].params : k \in DOMAIN table}
  BY <1>1 DEF Wanted
<1>5. args \in Wanted(s) <=> \E k \in DOMAIN table : fits(k)
  BY <1>4
<1>6. Barred(s) <=> script.lso /\ \E k \in DOMAIN table :
                      /\ table[k].mono
                      /\ IF args \in Wanted(s)
                           THEN fits(k) /\ \A j \in 1 .. k - 1 : ~fits(j)
                           ELSE k = 1
  BY <1>1 DEF Barred
<1>7. 1 \in DOMAIN table /\ DOMAIN table = 1 .. Len(table) /\ Len(table) \in Nat
  BY <1>2
<1> HIDE DEF table
<1>8. table[i].params = args <=> args \in Wanted(s)
  <2>1. CASE \E k \in DOMAIN table : fits(k)
    BY <1>3, <1>5, <2>1
  <2>2. CASE ~ \E k \in DOMAIN table : fits(k)
    BY <1>3, <1>5, <2>2
  <2> QED BY <2>1, <2>2
<1>9. ASSUME NEW k \in DOMAIN table,
             IF args \in Wanted(s) THEN fits(k) /\ \A j \in 1 .. k - 1 : ~fits(j) ELSE k = 1
      PROVE  k = i
  <2>1. CASE args \in Wanted(s)
    <3>1. /\ fits(k) /\ fits(i)
          /\ \A j \in 1 .. k - 1 : ~fits(j)
          /\ \A j \in 1 .. i - 1 : ~fits(j)
      BY <1>3, <1>5, <1>9, <2>1
    <3>2. i \in Nat /\ k \in Nat /\ i >= 1 /\ k >= 1
      BY <1>7
    <3>3. ~(k < i) /\ ~(i < k)
      <4> HIDE DEF fits
      <4> QED BY <3>1, <3>2
    <3> QED BY <3>2, <3>3
  <2>2. CASE args \notin Wanted(s)
    BY <1>3, <1>5, <1>9, <2>2
  <2> QED BY <2>1, <2>2
<1>10. IF args \in Wanted(s) THEN fits(i) /\ \A j \in 1 .. i - 1 : ~fits(j) ELSE i = 1
  BY <1>3, <1>5
<1> HIDE DEF fits
<1>11. Barred(s) <=> script.lso /\ table[i].mono
  BY ONLY <1>6, <1>9, <1>10, <1>3
<1>12. Wanted(s) # {}
  BY <1>4, <1>7
<1> QED BY <1>1, <1>3, <1>8, <1>11, <1>12 DEF BuiltinFaults, CallComplaints

LEMMA RefsMeanTheText ==
  ASSUME ScopesInv, TopInv, InnerInv, AtInitialiser \/ AtReference, NEW r, r.op \in {"use", "call"}
  PROVE  LET s == SiteOf(unit, at, r)
         IN  /\ Faults(r) = ComplaintsOf(s)
             /\ Marks(r) <=> RefersTo(s)
             /\ r.op = "call" => (Known(r.name) <=> Wanted(s) # {})
<1> DEFINE n == r.name
           s == SiteOf(unit, at, r)
<1>1. s.unit = unit /\ s.at = at /\ s.ref = r
  BY DEF SiteOf
<1>2. phase = "inits" <=> unit = 0
  BY DEF ScopesInv, PlaceInv, AtInitialiser, AtReference, UnitPhases, BodyPhases, TopPhases
<1>3. /\ LocalHere(n) => Meaning(n) \in {"local", "param"}
      /\ ~LocalHere(n) /\ n \in TopHere => Meaning(n) = TopKind(n)
      /\ ~LocalHere(n) /\ n \notin TopHere => Meaning(n) = Table!Undefined
      /\ n \in DOMAIN env[1] <=> n \in TopHere
      /\ n \in TopHere => env[1][n] = TopKind(n)
      /\ Table!DefinedIn(env, n) = {1} <=> ~LocalHere(n) /\ n \in TopHere
  BY MeaningHere
<1>4. LocalHere(n) <=> unit # 0 /\ Local(unit, at, n)
  BY <1>2 DEF LocalHere
<1>5. TopHere = IF unit = 0 THEN GlobalNames ELSE GlobalNames \cup FunctionNames \cup StateNames
  BY <1>2 DEF TopHere
<1>6. /\ n \in GlobalNames => n \notin FunctionNames /\ n \notin StateNames
      /\ n \in FunctionNames => n \notin StateNames
  BY DEF FunctionNames, StateNames
<1>7. IsFunction(n) <=> unit # 0 /\ n \in FunctionNames
  BY <1>3, <1>5, <1>6 DEF IsFunction, TopKind
<1>8. IsFunction(n) => arity[n] = Len(Declared(n).params)
  BY DEF IsFunction, TopInv, TopScope
<1>9. ByScript(s) <=> IsFunction(n)
  BY <1>1, <1>7 DEF ByScript
<1>10. Known(n) <=> Wanted(s) # {}
  <2>1. CASE IsFunction(n)
    BY <1>1, <1>9, <2>1 DEF Known, Wanted
  <2>2. CASE ~IsFunction(n) /\ n \in DOMAIN BuiltinFns
    <3> HIDE DEF s
    <3> QED BY <1>1, <1>9, <2>2, BuiltinCall DEF Known
  <2>3. CASE ~IsFunction(n) /\ n \notin DOMAIN BuiltinFns
    BY <1>1, <1>9, <2>3 DEF Known, Wanted
  <2> QED BY <2>1, <2>2, <2>3
<1>11. CallFaults(n, r.args) = CallComplaints(s)
  <2> HIDE DEF s
  <2>1. CASE IsFunction(n)
    <3>1. Wanted(s) = {arity[n]} /\ ~Barred(s)
      BY <1>1, <1>8, <1>9, <2>1 DEF Wanted, Barred
    <3> QED BY <1>1, <2>1, <3>1 DEF CallFaults, CallComplaints
  <2>2. CASE ~IsFunction(n) /\ n \in DOMAIN BuiltinFns
    <3>1. BuiltinFaults(Overload(n, r.args), r.args) = CallComplaints(s)
      BY <1>1, <1>9, <2>2, BuiltinCall
    <3> QED BY <2>2, <3>1 DEF CallFaults
  <2>3. CASE ~IsFunction(n) /\ n \notin DOMAIN BuiltinFns
    <3>1. Wanted(s) = {} /\ ~Barred(s)
      BY <1>1, <1>9, <2>3 DEF Wanted, Barred
    <3> QED BY <1>1, <2>3, <3>1 DEF CallFaults, CallComplaints
  <2> QED BY <2>1, <2>2, <2>3
<1>12. CASE r.op = "use"
  <2>1. UseFaults(n) = UseComplaints(s)
    <3>1. CASE LocalHere(n)
      <4>1. UseComplaints(s) = {}
        BY <1>1, <1>4, <3>1 DEF UseComplaints
      <4>2. Meaning(n) \notin {"func", "state"} /\ Meaning(n) # Table!Undefined
        BY <1>3, <3>1 DEF Table!Undefined
      <4> QED BY <4>1, <4>2 DEF UseFaults
    <3>2. CASE ~LocalHere(n) /\ n \in TopHere
      <4>1. Meaning(n) = TopKind(n)
        BY <1>3, <3>2
      <4> QED BY <1>1, <1>4, <1>5, <1>6, <3>2, <4>1 DEF UseFaults, UseComplaints, TopKind, Table!Undefined
    <3>3. CASE ~LocalHere(n) /\ n \notin TopHere
      <4>1. Meaning(n) = "undefined" /\ Table!Undefined = "undefined"
        BY <1>3, <3>3 DEF Table!Undefined
      <4> QED BY <1>1, <1>4, <1>5, <3>3, <4>1 DEF UseFaults, UseComplaints
    <3> QED BY <3>1, <3>2, <3>3
  <2>2. Marks(r) <=> RefersTo(s)
    BY <1>1, <1>3, <1>4, <1>5, <1>12 DEF Marks, RefersTo
  <2> QED BY <1>1, <1>12, <2>1, <2>2 DEF Faults, ComplaintsOf
<1>13. CASE r.op = "call"
  <2>1. CallFaults(n, r.args) = CallComplaints(s)
    BY <1>11
  <2>2. Marks(r) <=> RefersTo(s)
    BY <1>1, <1>7, <1>13 DEF Marks, RefersTo
  <2> QED BY <1>1, <1>10, <1>13, <2>1, <2>2 DEF Faults, ComplaintsOf
<1> QED BY <1>12, <1>13

-----------------------------------------------------------------------------
(* The places that have been looked at: initialisers, as those of unit 0,  *)
(* and items of bodies.                                                    *)
Ended == phase \in {"unused", "done"}

SeenIn(u, i) ==
  /\ u \in DOMAIN Units /\ i \in DOMAIN Units[u].body
  /\ Ended \/ u < unit \/ (u = unit /\ phase \in BodyPhases /\ i < at)

Seen(u, i) ==
  \/ u = 0 /\ i \in 1 .. NG /\ phase # "globals" /\ (phase = "inits" => i < at)
  \/ SeenIn(u, i)

ItemSteps ==
  OpenBlock \/ CloseBlock \/ Expression \/ CheckValue \/ Jump \/ Label \/ ChangeState \/ Return

LEMMA UnitsAre ==
  ASSUME ScopesInv
  PROVE  /\ Len(Units) \in Nat /\ DOMAIN Units = 1 .. Len(Units)
         /\ \A u \in DOMAIN Units : /\ Units[u].body \in Seq(Items)
                                   /\ DOMAIN Units[u].body = 1 .. Len(Units[u].body)
                                   /\ Len(Units[u].body) \in Nat
                                   /\ Units[u].params \in Seq(Names)
                                   /\ Units[u].name \in Names
         /\ unit \in 0 .. Len(Units) /\ (unit # 0 => unit \in DOMAIN Units)
<1>1. Len(Units) \in Nat /\ \A u \in 1 .. Len(Units) : Units[u] \in Function \cup Handler
  BY UnitsOf DEF ScopesInv, PlaceInv, Units
<1>2. DOMAIN Units = 1 .. Len(Units)
  <2>1. script.funcs \in Seq(Function) /\ script.events \in Seq(Handler)
    BY DEF ScopesInv, PlaceInv, Script
  <2>2. script.funcs \o script.events \in Seq(Function \cup Handler)
    <3>1. script.funcs \in Seq(Function \cup Handler) /\ script.events \in Seq(Function \cup Handler)
      BY <2>1
    <3> QED BY <3>1
  <2> QED BY <2>2 DEF Units
<1>3. ASSUME NEW u \in DOMAIN Units
      PROVE  /\ Units[u].body \in Seq(Items) /\ DOMAIN Units[u].body = 1 .. Len(Units[u].body)
             /\ Len(Units[u].body) \in Nat
             /\ Units[u].params \in Seq(Names)
             /\ Units[u].name \in Names
  <2>1. Units[u].body \in Body /\ Units[u].params \in Seq(Names) /\ Units[u].name \in Names
    BY <1>1, <1>2, UnitFacts
  <2>2. Units[u].body \in Seq(Items)
    BY <2>1 DEF Body
  <2> QED BY <2>1, <2>2
<1>4. unit \in 0 .. Len(Units)
  BY DEF ScopesInv, PlaceInv
<1> QED BY <1>1, <1>2, <1>3, <1>4

(* To the next function or event: the whole body has been seen.            *)
LEMMA SeenNextUnit ==
  ASSUME ScopesInv, UNCHANGED script, NextUnit, phase \notin {"globals", "inits", "unused", "done"},
         phase \in UnitPhases => phase = "body" /\ at > Len(Unit.body), NEW u, NEW i
  PROVE  Seen(u, i)' <=> Seen(u, i)
<1>1. /\ Len(Units) \in Nat /\ DOMAIN Units = 1 .. Len(Units) /\ unit \in 0 .. Len(Units)
      /\ \A v \in DOMAIN Units : DOMAIN Units[v].body = 1 .. Len(Units[v].body) /\ Len(Units[v].body) \in Nat
      /\ at \in Nat /\ (phase \in UnitPhases <=> unit # 0)
  BY UnitsAre DEF ScopesInv, PlaceInv
<1>2. Units' = Units /\ NG' = NG
  BY DEF Units, NG
<1>3. \/ phase' = "enter" /\ unit' = unit + 1 /\ at' = 1 /\ unit < Len(Units)
      \/ phase' = "unused" /\ unit' = 0 /\ at' = 1 /\ unit = Len(Units)
  <2>1. Len(Units) \in Nat /\ unit \in 0 .. Len(Units)
    BY <1>1
  <2>2. CASE unit < Len(Units)
    BY <2>2 DEF NextUnit, Begin
  <2>3. CASE ~(unit < Len(Units))
    <3>1. unit = Len(Units)
      BY ONLY <2>1, <2>3
    <3> QED BY <2>3, <3>1 DEF NextUnit, Begin
  <2> QED BY <2>2, <2>3
<1>4. SeenIn(u, i)' <=> SeenIn(u, i)
  <2>1. CASE u \in DOMAIN Units /\ i \in DOMAIN Units[u].body
    <3>1. u = unit => phase \in BodyPhases /\ i < at
      BY <1>1, <2>1 DEF Unit, BodyPhases
    <3>2. ~Ended
      BY DEF Ended
    <3>3. SeenIn(u, i) <=> u <= unit
      BY <1>1, <2>1, <3>1, <3>2 DEF SeenIn
    <3>4. SeenIn(u, i)' <=> u <= unit
      <4>1. u \in 1 .. Len(Units) /\ unit \in 0 .. Len(Units) /\ Len(Units) \in Nat
        BY <1>1, <2>1
      <4>2. CASE phase' = "enter" /\ unit' = unit + 1 /\ at' = 1
        <5>1. SeenIn(u, i)' <=> u < unit + 1
          BY <1>2, <2>1, <4>2 DEF SeenIn, Ended, BodyPhases
        <5> QED BY ONLY <4>1, <5>1
      <4>3. CASE phase' = "unused" /\ unit = Len(Units)
        <5>1. SeenIn(u, i)'
          BY <1>2, <2>1, <4>3 DEF SeenIn, Ended
        <5>2. u <= unit
          BY ONLY <4>1, <4>3
        <5> QED BY <5>1, <5>2
      <4> QED BY <1>3, <4>2, <4>3
    <3> QED BY <3>3, <3>4
  <2>2. CASE ~(u \in DOMAIN Units /\ i \in DOMAIN Units[u].body)
    BY <1>2, <2>2 DEF SeenIn
  <2> QED BY <2>1, <2>2
<1> QED BY <1>2, <1>3, <1>4 DEF Seen

LEMMA SeenStays ==
  ASSUME ScopesInv, TopInv,
         \/ DeclareGlobal \/ StartInitialisers \/ StartFunctions \/ DeclareFunction \/ StartStates
         \/ DeclareState \/ StartUnits \/ EnterUnit \/ DeclareParam \/ StartBody \/ DeclareLocal
         \/ LeaveUnit \/ ReportUnused,
         NEW u, NEW i
  PROVE  Seen(u, i)' <=> Seen(u, i)
<1>1. /\ at \in Nat /\ (phase \in UnitPhases <=> unit # 0) /\ NG \in Nat
      /\ Len(Units) \in Nat /\ DOMAIN Units = 1 .. Len(Units)
      /\ \A v \in DOMAIN Units : DOMAIN Units[v].body = 1 .. Len(Units[v].body) /\ Len(Units[v].body) \in Nat
      /\ \A v \in DOMAIN Units : ~(v < 0) /\ v # 0
  BY UnitsAre, TopNamesAre DEF ScopesInv, PlaceInv
<1>2. UNCHANGED script
  BY DEF DeclareGlobal, StartInitialisers, StartFunctions, DeclareFunction, StartStates, DeclareState,
         StartUnits, EnterUnit, DeclareParam, StartBody, DeclareLocal, LeaveUnit, ReportUnused
<1>3. Units' = Units /\ NG' = NG
  BY <1>2 DEF Units, NG
<1>4. CASE DeclareGlobal \/ DeclareFunction \/ DeclareState \/ StartStates
  <2>1. /\ phase \in {"globals", "funcs", "states"} /\ phase' \in {"globals", "funcs", "states"}
        /\ phase = "globals" <=> phase' = "globals"
        /\ unit' = 0
    BY <1>1, <1>4 DEF DeclareGlobal, DeclareFunction, DeclareState, StartStates, Forward, Begin,
                      UnitPhases, BodyPhases
  <2>2. unit = 0
    BY <1>1, <2>1 DEF UnitPhases, BodyPhases
  <2> QED BY <1>3, <2>1, <2>2 DEF Seen, SeenIn, Ended, BodyPhases
<1>5. CASE StartInitialisers
  <2>1. phase = "globals" /\ phase' = "inits" /\ unit' = 0 /\ at' = 1
    BY <1>5 DEF StartInitialisers, Begin
  <2>2. ~SeenIn(u, i) /\ ~SeenIn(u, i)'
    BY <1>1, <1>3, <2>1 DEF SeenIn, Ended, UnitPhases, BodyPhases
  <2> QED BY <1>3, <2>1, <2>2 DEF Seen
<1>6. CASE StartFunctions
  <2>1. phase = "inits" /\ phase' = "funcs" /\ unit' = 0 /\ at > NG
    BY <1>6 DEF StartFunctions, Begin, NG
  <2>2. ~SeenIn(u, i) /\ ~SeenIn(u, i)'
    BY <1>1, <1>3, <2>1 DEF SeenIn, Ended, UnitPhases, BodyPhases
  <2> QED BY <1>1, <1>3, <2>1, <2>2 DEF Seen
<1>7. CASE StartUnits
  <2>1. NextUnit /\ phase = "states"
    BY <1>7 DEF StartUnits
  <2> QED BY <1>2, <2>1, SeenNextUnit DEF UnitPhases, BodyPhases
<1>8. CASE LeaveUnit
  <2>1. NextUnit /\ phase = "body" /\ at > Len(Unit.body)
    BY <1>8 DEF LeaveUnit
  <2> QED BY <1>2, <2>1, SeenNextUnit
<1>9. CASE EnterUnit \/ DeclareParam
  <2>1. unit' = unit /\ {phase, phase'} \subseteq {"enter", "params"}
    BY <1>9 DEF EnterUnit, DeclareParam, Forward, Begin
  <2> QED BY <1>3, <2>1 DEF Seen, SeenIn, Ended, BodyPhases
<1>10. CASE StartBody
  <2>1. unit' = unit /\ phase = "params" /\ phase' = "body" /\ at' = 1
    BY <1>10 DEF StartBody, Begin
  <2>2. u \in DOMAIN Units /\ i \in DOMAIN Units[u].body => ~(i < at')
    BY <1>1, <2>1
  <2> QED BY <1>3, <2>1, <2>2 DEF Seen, SeenIn, Ended, BodyPhases
<1>11. CASE DeclareLocal
  <2>1. unit' = unit /\ at' = at /\ {phase, phase'} \subseteq BodyPhases
    BY <1>11 DEF DeclareLocal, InBody, BodyPhases
  <2> QED BY <1>3, <2>1 DEF Seen, SeenIn, Ended, BodyPhases
<1>12. CASE ReportUnused
  <2>1. phase = "unused" /\ phase' = "done"
    BY <1>12 DEF ReportUnused, Begin
  <2> QED BY <1>3, <2>1 DEF Seen, SeenIn, Ended, BodyPhases
<1> QED BY <1>4, <1>5, <1>6, <1>7, <1>8, <1>9, <1>10, <1>11, <1>12

LEMMA SeenGrows ==
  ASSUME ScopesInv, CheckInitialiser \/ ItemSteps, NEW u, NEW i
  PROVE  Seen(u, i)' <=> Seen(u, i) \/ (u = unit /\ i = at)
<1>1. /\ at \in Nat \ {0} /\ (phase \in UnitPhases <=> unit # 0) /\ NG \in Nat
      /\ Len(Units) \in Nat /\ DOMAIN Units = 1 .. Len(Units) /\ (unit # 0 => unit \in DOMAIN Units)
      /\ \A v \in DOMAIN Units : DOMAIN Units[v].body = 1 .. Len(Units[v].body) /\ Len(Units[v].body) \in Nat
      /\ \A v \in DOMAIN Units : v \in Nat /\ v # 0
      /\ phase = "value" => at <= Len(Unit.body)
  BY UnitsAre, TopNamesAre DEF ScopesInv, PlaceInv
<1>2. CASE CheckInitialiser
  <2>1. /\ phase = "inits" /\ phase' = "inits" /\ at' = at + 1 /\ at <= NG
        /\ UNCHANGED <<script, unit>>
    BY <1>2 DEF CheckInitialiser, Forward, NG
  <2>2. Units' = Units /\ NG' = NG /\ unit = 0
    BY <1>1, <2>1 DEF Units, NG, UnitPhases, BodyPhases
  <2>3. ~SeenIn(u, i) /\ ~SeenIn(u, i)'
    BY <1>1, <2>1, <2>2 DEF SeenIn, Ended, BodyPhases
  <2>4. i \in 1 .. NG => (i < at + 1 <=> i < at \/ i = at)
    BY <1>1
  <2>5. at \in 1 .. NG
    BY <1>1, <2>1
  <2> QED BY <2>1, <2>2, <2>3, <2>4, <2>5 DEF Seen
<1>3. CASE ItemSteps
  <2>1. /\ phase \in BodyPhases /\ at <= Len(Unit.body) /\ phase' = "body" /\ at' = at + 1
        /\ UNCHANGED <<script, unit>>
    BY <1>1, <1>3 DEF ItemSteps, OpenBlock, CloseBlock, Expression, CheckValue, Jump, Label, ChangeState,
                      Return, Forward, InBody, BodyPhases
  <2>2. Units' = Units /\ NG' = NG /\ unit # 0
    BY <1>1, <2>1 DEF Units, NG, UnitPhases
  <2>3. ~Ended /\ ~Ended' /\ phase \notin {"globals", "inits"} /\ phase' \in BodyPhases
    BY <2>1 DEF Ended, BodyPhases
  <2>4. SeenIn(u, i)' <=> SeenIn(u, i) \/ (u = unit /\ i = at)
    <3>1. u \in DOMAIN Units /\ i \in DOMAIN Units[u].body => (i < at + 1 <=> i < at \/ i = at)
      BY <1>1
    <3>2. unit \in DOMAIN Units /\ at \in DOMAIN Units[unit].body
      BY <1>1, <2>1, <2>2 DEF Unit
    <3>3. u \in DOMAIN Units => ~(unit < unit)
      BY <1>1, <3>2
    <3> QED BY <2>1, <2>2, <2>3, <3>1, <3>2, <3>3 DEF SeenIn
  <2>5. phase' \notin {"globals", "inits"}
    BY <2>1
  <2> QED BY <2>2, <2>3, <2>4, <2>5 DEF Seen
<1> QED BY <1>2, <1>3

-----------------------------------------------------------------------------
(* Which step reports what.                                                *)
RefWhats   == {"undeclared", "not a value", "arity", "mono only", "undeclared function"}
JumpWhats  == {"no label", "duplicate label"}
OtherWhats == {"redeclaration", "no default state", "duplicate event", "unknown event", "event arity",
               "event type", "state change in function", "unknown state"}

RefSteps == CheckInitialiser \/ Expression \/ CheckValue \/ Return

PlainSteps ==
  \/ DeclareGlobal \/ StartInitialisers \/ StartFunctions \/ DeclareFunction \/ StartStates
  \/ DeclareState \/ StartUnits \/ EnterUnit \/ DeclareParam \/ StartBody \/ OpenBlock \/ CloseBlock
  \/ DeclareLocal \/ Jump \/ Label \/ ChangeState

LEMMA SignatureWhats ==
  ASSUME NEW n, NEW types
  PROVE  SignatureFaults(n, types) \subseteq {"unknown event", "event arity", "event type"}
BY DEF SignatureFaults

LEMMA PlainReports ==
  ASSUME PlainSteps
  PROVE  /\ \A e \in errors' : e \in errors \/ e.what \in OtherWhats
         /\ \A e \in warnings' : e \in warnings \/ e.what \in {"hides builtin", "shadows", "shadows builtin"}
         /\ errors \subseteq errors' /\ warnings \subseteq warnings'
         /\ UNCHANGED <<script, used>>
<1>1. \A what, n : Faulty(what, n).what = what
  BY DEF Faulty
<1>2. ASSUME NEW n, NEW kind, Declare(n, kind)
      PROVE  errors \subseteq errors' /\ \A e \in errors' : e \in errors \/ e.what \in OtherWhats
  <2>1. errors' \in {errors, errors \cup {Faulty("redeclaration", n)}}
    BY <1>2 DEF Declare
  <2>2. Faulty("redeclaration", n).what \in OtherWhats
    BY <1>1 DEF OtherWhats
  <2> QED BY <2>1, <2>2
<1>3. ASSUME NEW n, NEW b, WarnHiding(n, b)
      PROVE  /\ warnings \subseteq warnings'
             /\ \A e \in warnings' : e \in warnings \/ e.what \in {"hides builtin", "shadows", "shadows builtin"}
  BY <1>1, <1>3 DEF WarnHiding
<1>4. CASE DeclareGlobal
  BY <1>2, <1>3, <1>4 DEF DeclareGlobal
<1>5. CASE DeclareFunction
  BY <1>2, <1>3, <1>5 DEF DeclareFunction
<1>6. CASE DeclareState \/ DeclareParam
  BY <1>2, <1>6 DEF DeclareState, DeclareParam
<1>7. CASE DeclareLocal
  <2>1. Declare(Item.name, "local") /\ UNCHANGED <<script, used>>
    BY <1>7 DEF DeclareLocal
  <2>2. Shadowed(Item.name) \subseteq {"shadows", "shadows builtin"}
    BY DEF Shadowed
  <2>3. warnings' = warnings \cup
          {Faulty(what, Item.name) : what \in IF Taken(Item.name) THEN {} ELSE Shadowed(Item.name)}
    BY <1>7 DEF DeclareLocal
  <2>4. \A e \in warnings' : e \in warnings \/ e.what \in {"shadows", "shadows builtin"}
    <3> SUFFICES ASSUME NEW e \in warnings', e \notin warnings
                 PROVE  e.what \in {"shadows", "shadows builtin"}
      OBVIOUS
    <3>1. PICK what \in Shadowed(Item.name) : e = Faulty(what, Item.name)
      BY <2>3
    <3> QED BY <1>1, <2>2, <3>1
  <2> QED BY <1>2, <2>1, <2>3, <2>4
<1>8. CASE StartUnits
  <2>1. /\ UNCHANGED <<script, used, warnings>>
        /\ errors' \in {errors, errors \cup {Faulty("no default state", "default")}}
    BY <1>8 DEF StartUnits
  <2>2. Faulty("no default state", "default").what \in OtherWhats
    BY <1>1 DEF OtherWhats
  <2> QED BY <2>1, <2>2
<1>9. CASE EnterUnit
  <2>1. /\ UNCHANGED <<script, used, warnings>>
        /\ errors' = errors \cup
             {Faulty("duplicate event", Unit.name) :
                e \in {e \in Len(script.funcs) + 1 .. unit - 1 :
                         InEvent /\ Units[e].state = Unit.state /\ Units[e].name = Unit.name}}
             \cup {Faulty(what, Unit.name) : what \in IF InEvent THEN SignatureFaults(Unit.name, Unit.types) ELSE {}}
    BY <1>9 DEF EnterUnit
  <2>2. SignatureFaults(Unit.name, Unit.types) \subseteq {"unknown event", "event arity", "event type"}
    BY SignatureWhats
  <2>3. \A e \in errors' : e \in errors \/ e.what \in OtherWhats
    <3> SUFFICES ASSUME NEW e \in errors', e \notin errors
                 PROVE  e.what \in OtherWhats
      OBVIOUS
    <3>1. \/ e = Faulty("duplicate event", Unit.name)
          \/ \E what \in SignatureFaults(Unit.name, Unit.types) : e = Faulty(what, Unit.name)
      BY <2>1
    <3>2. CASE e = Faulty("duplicate event", Unit.name)
      <4>1. e.what = "duplicate event"
        BY <1>1, <3>2
      <4> QED BY <4>1 DEF OtherWhats
    <3>3. CASE e # Faulty("duplicate event", Unit.name)
      <4>1. PICK what \in SignatureFaults(Unit.name, Unit.types) : e = Faulty(what, Unit.name)
        BY <3>1, <3>3
      <4>2. e.what \in {"unknown event", "event arity", "event type"}
        BY <1>1, <2>2, <4>1
      <4> QED BY <4>2 DEF OtherWhats
    <3> QED BY <3>2, <3>3
  <2> QED BY <2>1, <2>3
<1>10. CASE ChangeState
  <2>1. /\ UNCHANGED <<script, used, warnings>>
        /\ errors' \in {errors, errors \cup {Faulty("state change in function", Item.name)},
                        errors \cup {Faulty("unknown state", Item.name)}}
    BY <1>10 DEF ChangeState
  <2>2. /\ Faulty("state change in function", Item.name).what \in OtherWhats
        /\ Faulty("unknown state", Item.name).what \in OtherWhats
    BY <1>1 DEF OtherWhats
  <2> QED BY <2>1, <2>2
<1>11. CASE \/ StartInitialisers \/ StartFunctions \/ StartStates \/ StartBody \/ OpenBlock
            \/ CloseBlock \/ Jump \/ Label
  BY <1>11 DEF StartInitialisers, StartFunctions, StartStates, StartBody, OpenBlock, CloseBlock, Jump, Label
<1> QED BY <1>4, <1>5, <1>6, <1>7, <1>8, <1>9, <1>10, <1>11 DEF PlainSteps

LEMMA FaultsWhats ==
  ASSUME NEW r
  PROVE  Faults(r) \subseteq RefWhats
BY DEF Faults, UseFaults, CallFaults, BuiltinFaults, RefWhats

LEMMA RefReports ==
  ASSUME NEW refs, NEW others, CheckRefs(refs, others), \A e \in others : e.what = "return"
  PROVE  /\ \A e \in errors' : e \in errors \/ e.what \in RefWhats \cup {"return"}
         /\ \A e \in warnings' : e \in warnings \/ e.what = "unknown ll"
         /\ errors \subseteq errors' /\ warnings \subseteq warnings'
<1>1. \A what, n : Faulty(what, n).what = what
  BY DEF Faulty
<1>2. errors' = errors \cup others
        \cup UNION {{Faulty(what, ref.name) : what \in Faults(ref)} : ref \in RefsOf(refs)}
  BY DEF CheckRefs
<1>3. \A e \in UNION {{Faulty(what, ref.name) : what \in Faults(ref)} : ref \in RefsOf(refs)} :
        e.what \in RefWhats
  BY <1>1, FaultsWhats
<1>4. \A e \in warnings' : e \in warnings \/ e.what = "unknown ll"
  BY <1>1 DEF CheckRefs
<1>5. warnings \subseteq warnings'
  BY DEF CheckRefs
<1> QED BY <1>2, <1>3, <1>4, <1>5

(* Every step that looks at references does so with CheckRefs, at the      *)
(* place it is at.                                                         *)
PlaceRefs(u, i) == IF u = 0 THEN RefsOf(script.globals[i].refs) ELSE RefsAt(<<u, i>>)

LEMMA RefStepsCheck ==
  ASSUME ScopesInv, RefSteps
  PROVE  /\ AtInitialiser \/ AtReference
         /\ UNCHANGED script
         /\ \E refs, others : /\ CheckRefs(refs, others)
                              /\ RefsOf(refs) = PlaceRefs(unit, at)
                              /\ \A e \in others : e.what = "return"
         /\ \A r \in PlaceRefs(unit, at) : r.op \in {"use", "call"} /\ r.name \in Names
<1>1. /\ phase \in UnitPhases <=> unit # 0
      /\ script \in Script /\ at \in Nat \ {0}
      /\ phase = "value" => at <= Len(Unit.body) /\ Item.op = "decl"
  BY DEF ScopesInv, PlaceInv
<1>2. \A refs \in Refs : \A r \in RefsOf(refs) : r.op \in {"use", "call"} /\ r.name \in Names
  BY DEF Refs, RefsOf
<1>3. CASE CheckInitialiser
  <2>1. /\ phase = "inits" /\ at <= NG /\ UNCHANGED script
        /\ CheckRefs(script.globals[at].refs, {})
    BY <1>3 DEF CheckInitialiser, NG
  <2>2. unit = 0 /\ AtInitialiser
    BY <1>1, <2>1 DEF AtInitialiser, UnitPhases, BodyPhases
  <2>3. PlaceRefs(unit, at) = RefsOf(script.globals[at].refs)
    BY <2>2 DEF PlaceRefs
  <2>4. script.globals[at].refs \in Refs
    <3>1. at \in 1 .. NG
      BY <1>1, <2>1, TopNamesAre
    <3>2. script.globals[at] \in Global
      BY <1>1, <3>1, TopNamesAre
    <3> QED BY <3>2 DEF Global
  <2> QED BY <1>2, <2>1, <2>2, <2>3, <2>4
<1>4. CASE Expression \/ CheckValue \/ Return
  <2>1. phase \in BodyPhases /\ at <= Len(Unit.body) /\ UNCHANGED script
    BY <1>1, <1>4 DEF Expression, CheckValue, Return, InBody, BodyPhases
  <2>2. unit # 0 /\ Item = Unit.body[at] /\ Item \in Items /\ at \in 1 .. Len(Unit.body)
    BY <2>1, BodyContext
  <2>3. AtReference
    BY <1>1, <1>4, <2>1 DEF Expression, CheckValue, Return, InBody, AtReference
  <2>4. Item.op \in {"expr", "decl", "return"} /\ Item.refs \in Refs
    BY <2>2, <2>3 DEF AtReference, Items
  <2>5. ItemAt(<<unit, at>>) = Item
    BY <2>2 DEF ItemAt, Unit
  <2>6. PlaceRefs(unit, at) = IF Item.op = "return" /\ InEvent THEN {} ELSE RefsOf(Item.refs)
    BY <2>2, <2>4, <2>5 DEF PlaceRefs, RefsAt, Skipped, InEvent
  <2>7. \A r \in PlaceRefs(unit, at) : r.op \in {"use", "call"} /\ r.name \in Names
    BY <1>2, <2>4, <2>6
  <2>8. CASE Expression \/ CheckValue
    <3>1. CheckRefs(Item.refs, {}) /\ Item.op # "return"
      BY <1>1, <2>8 DEF Expression, CheckValue, InBody
    <3> QED BY <2>1, <2>3, <2>6, <2>7, <3>1
  <2>9. CASE Return
    <3> DEFINE wrong == IF InEvent THEN Item.value ELSE Item.value # Unit.value
               refs == IF InEvent THEN <<>> ELSE Item.refs
               others == IF wrong THEN {Faulty("return", Unit.name)} ELSE {}
    <3>1. CheckRefs(refs, others) /\ Item.op = "return"
      BY <2>9 DEF Return, InBody
    <3>2. RefsOf(<<>>) = {}
      BY DEF RefsOf
    <3>3. RefsOf(refs) = PlaceRefs(unit, at)
      BY <2>6, <3>1, <3>2
    <3>4. \A e \in others : e.what = "return"
      BY DEF Faulty
    <3> HIDE DEF refs, others
    <3> QED BY <2>1, <2>3, <2>7, <3>1, <3>3, <3>4
  <2> QED BY <1>4, <2>8, <2>9
<1> QED BY <1>3, <1>4 DEF RefSteps

-----------------------------------------------------------------------------
(* What is reported of references, and what is marked as used, is what the *)
(* text says of the places that have been looked at.                       *)
ErrorAt(w, n, u, i) ==
  \E e \in errors : e.what = w /\ e.name = n /\ e.unit = u /\ e.at = i

WarnedAt(w, n, u, i) ==
  \E e \in warnings : e.what = w /\ e.name = n /\ e.unit = u /\ e.at = i

Complained(w, n, u, i) ==
  \E r \in PlaceRefs(u, i) : r.name = n /\ w \in ComplaintsOf(SiteOf(u, i, r))

LetThrough(n, u, i) ==
  \E r \in PlaceRefs(u, i) :
    r.name = n /\ r.op = "call" /\ Wanted(SiteOf(u, i, r)) = {} /\ n \in LlNames

Referred(n, u, i) ==
  \E r \in PlaceRefs(u, i) : r.name = n /\ RefersTo(SiteOf(u, i, r))

RefErrors ==
  \A w \in RefWhats : \A n, u, i : ErrorAt(w, n, u, i) <=> Seen(u, i) /\ Complained(w, n, u, i)

RefWarnings ==
  \A n, u, i : WarnedAt("unknown ll", n, u, i) <=> Seen(u, i) /\ LetThrough(n, u, i)

RefMarks == \A n : n \in used <=> \E u, i : Seen(u, i) /\ Referred(n, u, i)

RefInv == RefErrors /\ RefWarnings /\ RefMarks

LEMMA TextStays ==
  ASSUME UNCHANGED script
  PROVE  /\ \A w, n, u, i : Complained(w, n, u, i)' <=> Complained(w, n, u, i)
         /\ \A n, u, i : LetThrough(n, u, i)' <=> LetThrough(n, u, i)
         /\ \A n, u, i : Referred(n, u, i)' <=> Referred(n, u, i)
<1>1. Units' = Units
  BY DEF Units
<1>2. \A n : Declared(n)' = Declared(n)
  BY DEF Declared
<1>3. GlobalNames' = GlobalNames /\ FunctionNames' = FunctionNames /\ StateNames' = StateNames
  BY DEF GlobalNames, FunctionNames, StateNames
<1>4. \A u, i, n : Local(u, i, n)' <=> Local(u, i, n)
  BY <1>1 DEF Local
<1>5. \A s : Wanted(s)' = Wanted(s) /\ (Barred(s)' <=> Barred(s))
  BY <1>2, <1>3 DEF Wanted, Barred, ByScript
<1>6. \A s : ComplaintsOf(s)' = ComplaintsOf(s)
  BY <1>3, <1>4, <1>5 DEF ComplaintsOf, UseComplaints, CallComplaints
<1>7. \A s : RefersTo(s)' <=> RefersTo(s)
  BY <1>3, <1>4 DEF RefersTo
<1>8. \A u, i : PlaceRefs(u, i)' = PlaceRefs(u, i)
  BY <1>1 DEF PlaceRefs, RefsAt, Skipped, ItemAt
<1> QED BY <1>5, <1>6, <1>7, <1>8 DEF Complained, LetThrough, Referred

LEMMA RefKept ==
  ASSUME RefInv, UNCHANGED <<script, used>>,
         errors \subseteq errors', \A e \in errors' : e \in errors \/ e.what \notin RefWhats,
         warnings \subseteq warnings', \A e \in warnings' : e \in warnings \/ e.what # "unknown ll",
         \A u, i : PlaceRefs(u, i) # {} => (Seen(u, i)' <=> Seen(u, i))
  PROVE  RefInv'
<1>1. /\ \A w, n, u, i : Complained(w, n, u, i)' <=> Complained(w, n, u, i)
      /\ \A n, u, i : LetThrough(n, u, i)' <=> LetThrough(n, u, i)
      /\ \A n, u, i : Referred(n, u, i)' <=> Referred(n, u, i)
  BY TextStays
<1>2. \A w \in RefWhats : \A n, u, i : ErrorAt(w, n, u, i)' <=> ErrorAt(w, n, u, i)
  BY DEF ErrorAt
<1>3. \A n, u, i : WarnedAt("unknown ll", n, u, i)' <=> WarnedAt("unknown ll", n, u, i)
  BY DEF WarnedAt
<1>4. \A w, n, u, i : Seen(u, i)' /\ Complained(w, n, u, i)' <=> Seen(u, i) /\ Complained(w, n, u, i)
  BY <1>1 DEF Complained
<1>5. \A n, u, i : Seen(u, i)' /\ LetThrough(n, u, i)' <=> Seen(u, i) /\ LetThrough(n, u, i)
  BY <1>1 DEF LetThrough
<1>6. \A n, u, i : Seen(u, i)' /\ Referred(n, u, i)' <=> Seen(u, i) /\ Referred(n, u, i)
  BY <1>1 DEF Referred
<1>7. RefErrors'
  BY <1>2, <1>4 DEF RefInv, RefErrors
<1>8. RefWarnings'
  BY <1>3, <1>5 DEF RefInv, RefWarnings
<1>9. RefMarks'
  BY <1>6 DEF RefInv, RefMarks
<1> QED BY <1>7, <1>8, <1>9 DEF RefInv

LEMMA RefLooked ==
  ASSUME ScopesInv, TopInv, InnerInv, RefInv, RefSteps
  PROVE  RefInv'
<1>1. PICK refs, others : /\ CheckRefs(refs, others)
                          /\ RefsOf(refs) = PlaceRefs(unit, at)
                          /\ \A e \in others : e.what = "return"
  BY RefStepsCheck
<1>2. AtInitialiser \/ AtReference
  BY RefStepsCheck
<1>3. UNCHANGED script /\ \A r \in PlaceRefs(unit, at) : r.op \in {"use", "call"}
  BY RefStepsCheck
<1>4. \A r \in PlaceRefs(unit, at) :
        /\ Faults(r) = ComplaintsOf(SiteOf(unit, at, r))
        /\ Marks(r) <=> RefersTo(SiteOf(unit, at, r))
        /\ r.op = "call" => (Known(r.name) <=> Wanted(SiteOf(unit, at, r)) # {})
  BY <1>2, <1>3, RefsMeanTheText
<1>5. \A u, i : Seen(u, i)' <=> Seen(u, i) \/ (u = unit /\ i = at)
  BY SeenGrows DEF RefSteps, ItemSteps
<1>6. /\ \A w, n, u, i : Complained(w, n, u, i)' <=> Complained(w, n, u, i)
      /\ \A n, u, i : LetThrough(n, u, i)' <=> LetThrough(n, u, i)
      /\ \A n, u, i : Referred(n, u, i)' <=> Referred(n, u, i)
  BY <1>3, TextStays
<1>7. \A what, n : /\ Faulty(what, n).what = what /\ Faulty(what, n).name = n
                   /\ Faulty(what, n).unit = unit /\ Faulty(what, n).at = at
  BY DEF Faulty
<1>8. RefErrors'
  <2> SUFFICES ASSUME NEW w \in RefWhats, NEW n, NEW u, NEW i
               PROVE  ErrorAt(w, n, u, i)' <=> Seen(u, i)' /\ Complained(w, n, u, i)'
    BY DEF RefErrors
  <2>1. errors' = errors \cup others
          \cup UNION {{Faulty(what, ref.name) : what \in Faults(ref)} : ref \in RefsOf(refs)}
    BY <1>1 DEF CheckRefs
  <2>2. \A e : e \in errors' <=> \/ e \in errors \/ e \in others
                                 \/ \E r \in PlaceRefs(unit, at) : \E what \in Faults(r) :
                                      e = Faulty(what, r.name)
    BY <1>1, <2>1
  <2>3. \A e \in others : e.what # w
    BY <1>1 DEF RefWhats
  <2>4. ErrorAt(w, n, u, i)' <=> ErrorAt(w, n, u, i) \/ (u = unit /\ i = at /\ Complained(w, n, u, i))
    <3>1. ASSUME ErrorAt(w, n, u, i)', ~ErrorAt(w, n, u, i)
          PROVE  u = unit /\ i = at /\ Complained(w, n, u, i)
      <4>1. PICK e \in errors' : e.what = w /\ e.name = n /\ e.unit = u /\ e.at = i
        BY <3>1 DEF ErrorAt
      <4>2. e \notin errors /\ e \notin others
        BY <2>3, <3>1, <4>1 DEF ErrorAt
      <4>3. PICK r \in PlaceRefs(unit, at) : \E what \in Faults(r) : e = Faulty(what, r.name)
        BY <2>2, <4>2
      <4>4. PICK what \in Faults(r) : e = Faulty(what, r.name)
        BY <4>3
      <4>5. w = what /\ n = r.name /\ u = unit /\ i = at
        BY <1>7, <4>1, <4>4
      <4> QED BY <1>4, <4>5 DEF Complained
    <3>2. ASSUME ErrorAt(w, n, u, i)
          PROVE  ErrorAt(w, n, u, i)'
      BY <2>2, <3>2 DEF ErrorAt
    <3>3. ASSUME u = unit, i = at, Complained(w, n, u, i)
          PROVE  ErrorAt(w, n, u, i)'
      <4>1. PICK r \in PlaceRefs(unit, at) : r.name = n /\ w \in Faults(r)
        BY <1>4, <3>3 DEF Complained
      <4>2. Faulty(w, n) \in errors'
        BY <2>2, <4>1
      <4> QED BY <1>7, <3>3, <4>2 DEF ErrorAt
    <3> QED BY <3>1, <3>2, <3>3
  <2>5. ErrorAt(w, n, u, i) <=> Seen(u, i) /\ Complained(w, n, u, i)
    BY DEF RefInv, RefErrors
  <2> QED BY <1>5, <1>6, <2>4, <2>5
<1>9. RefWarnings'
  <2> SUFFICES ASSUME NEW n, NEW u, NEW i
               PROVE  WarnedAt("unknown ll", n, u, i)' <=> Seen(u, i)' /\ LetThrough(n, u, i)'
    BY DEF RefWarnings
  <2>1. warnings' = warnings \cup
          {Faulty("unknown ll", ref.name) :
             ref \in {r \in RefsOf(refs) : r.op = "call" /\ ~Known(r.name) /\ r.name \in LlNames}}
    BY <1>1 DEF CheckRefs
  <2>2. \A e : e \in warnings' <=>
                 \/ e \in warnings
                 \/ \E r \in PlaceRefs(unit, at) : /\ r.op = "call" /\ ~Known(r.name) /\ r.name \in LlNames
                                                   /\ e = Faulty("unknown ll", r.name)
    BY <1>1, <2>1
  <2>3. WarnedAt("unknown ll", n, u, i)' <=>
          WarnedAt("unknown ll", n, u, i) \/ (u = unit /\ i = at /\ LetThrough(n, u, i))
    <3>1. ASSUME WarnedAt("unknown ll", n, u, i)', ~WarnedAt("unknown ll", n, u, i)
          PROVE  u = unit /\ i = at /\ LetThrough(n, u, i)
      <4>1. PICK e \in warnings' : e.what = "unknown ll" /\ e.name = n /\ e.unit = u /\ e.at = i
        BY <3>1 DEF WarnedAt
      <4>2. e \notin warnings
        BY <3>1, <4>1 DEF WarnedAt
      <4>3. PICK r \in PlaceRefs(unit, at) : /\ r.op = "call" /\ ~Known(r.name) /\ r.name \in LlNames
                                             /\ e = Faulty("unknown ll", r.name)
        BY <2>2, <4>2
      <4>4. n = r.name /\ u = unit /\ i = at
        BY <1>7, <4>1, <4>3
      <4> QED BY <1>4, <4>3, <4>4 DEF LetThrough
    <3>2. ASSUME WarnedAt("unknown ll", n, u, i)
          PROVE  WarnedAt("unknown ll", n, u, i)'
      BY <2>2, <3>2 DEF WarnedAt
    <3>3. ASSUME u = unit, i = at, LetThrough(n, u, i)
          PROVE  WarnedAt("unknown ll", n, u, i)'
      <4>1. PICK r \in PlaceRefs(unit, at) : r.name = n /\ r.op = "call" /\ ~Known(n) /\ n \in LlNames
        BY <1>4, <3>3 DEF LetThrough
      <4>2. PICK e : e = Faulty("unknown ll", n)
        OBVIOUS
      <4>3. e \in warnings'
        BY <2>2, <4>1, <4>2
      <4>4. e.what = "unknown ll" /\ e.name = n /\ e.unit = u /\ e.at = i
        BY <1>7, <3>3, <4>2
      <4> QED BY <4>3, <4>4 DEF WarnedAt
    <3> QED BY <3>1, <3>2, <3>3
  <2>4. WarnedAt("unknown ll", n, u, i) <=> Seen(u, i) /\ LetThrough(n, u, i)
    BY DEF RefInv, RefWarnings
  <2> QED BY <1>5, <1>6, <2>3, <2>4
<1>10. RefMarks'
  <2> SUFFICES ASSUME NEW n
               PROVE  n \in used' <=> \E u, i : Seen(u, i)' /\ Referred(n, u, i)'
    BY DEF RefMarks
  <2>1. used' = used \cup {ref.name : ref \in {r \in RefsOf(refs) : Marks(r)}}
    BY <1>1 DEF CheckRefs
  <2>2. n \in used' <=> n \in used \/ \E r \in PlaceRefs(unit, at) : Marks(r) /\ r.name = n
    BY <1>1, <2>1
  <2>3. n \in used' <=> n \in used \/ Referred(n, unit, at)
    BY <1>4, <2>2 DEF Referred
  <2>4. n \in used <=> \E u, i : Seen(u, i) /\ Referred(n, u, i)
    BY DEF RefInv, RefMarks
  <2> QED BY <1>5, <1>6, <2>3, <2>4
<1> QED BY <1>8, <1>9, <1>10 DEF RefInv

LEMMA LeaveReports ==
  ASSUME LeaveUnit
  PROVE  /\ \A e \in errors' : e \in errors \/ e.what \in JumpWhats
         /\ errors \subseteq errors' /\ UNCHANGED <<script, used, warnings>>
<1>1. /\ UNCHANGED <<script, used, warnings>>
      /\ errors' = errors
           \cup {[Faulty("duplicate label", l.name) EXCEPT !.at = l.at] : l \in DuplicateLabels}
           \cup {[Faulty("no label", j.name) EXCEPT !.at = j.at] : j \in LostJumps}
  BY DEF LeaveUnit
<1>2. \A w, n, i : [Faulty(w, n) EXCEPT !.at = i].what = w
  BY DEF Faulty
<1>3. ASSUME NEW e \in errors', e \notin errors
      PROVE  e.what \in JumpWhats
  <2>1. CASE \E l \in DuplicateLabels : e = [Faulty("duplicate label", l.name) EXCEPT !.at = l.at]
    <3>1. PICK l \in DuplicateLabels : e = [Faulty("duplicate label", l.name) EXCEPT !.at = l.at]
      BY <2>1
    <3>2. e.what = "duplicate label"
      BY <1>2, <3>1
    <3> QED BY <3>2 DEF JumpWhats
  <2>2. CASE \E j \in LostJumps : e = [Faulty("no label", j.name) EXCEPT !.at = j.at]
    <3>1. PICK j \in LostJumps : e = [Faulty("no label", j.name) EXCEPT !.at = j.at]
      BY <2>2
    <3>2. e.what = "no label"
      BY <1>2, <3>1
    <3> QED BY <3>2 DEF JumpWhats
  <2> QED BY <1>1, <1>3, <2>1, <2>2
<1> QED BY <1>1, <1>3

LEMMA UnusedReports ==
  ASSUME ReportUnused
  PROVE  /\ \A e \in warnings' : e \in warnings \/ e.what = "unused"
         /\ warnings \subseteq warnings' /\ UNCHANGED <<script, used, errors>>
<1>1. /\ UNCHANGED <<script, used, errors>>
      /\ warnings' = warnings \cup {Faulty("unused", name) : name \in IF script.wall THEN Unused ELSE {}}
  BY DEF ReportUnused
<1>2. \A n : Faulty("unused", n).what = "unused"
  BY DEF Faulty
<1> QED BY <1>1, <1>2

LEMMA RefInvInit == Init => RefInv
<1> SUFFICES ASSUME Init PROVE RefInv
  OBVIOUS
<1>1. /\ errors = {} /\ warnings = {} /\ used = {} /\ phase = "globals" /\ unit = 0
      /\ DOMAIN Units = 1 .. Len(Units) /\ Len(Units) \in Nat
  BY ScopesInvInit, UnitsAre DEF Init
<1>2. \A u, i : ~Seen(u, i)
  <2>1. \A u \in DOMAIN Units : ~(u < 0) /\ u # 0
    BY <1>1
  <2> QED BY <1>1, <2>1 DEF Seen, SeenIn, Ended
<1> QED BY <1>1, <1>2 DEF RefInv, RefErrors, RefWarnings, RefMarks, ErrorAt, WarnedAt

LEMMA RefInvStep == ScopesInv /\ TopInv /\ InnerInv /\ RefInv /\ [Next]_vars => RefInv'
<1> SUFFICES ASSUME ScopesInv, TopInv, InnerInv, RefInv, [Next]_vars PROVE RefInv'
  OBVIOUS
<1>1. CASE RefSteps
  BY <1>1, RefLooked
<1>2. CASE PlainSteps
  <2>1. /\ \A e \in errors' : e \in errors \/ e.what \in OtherWhats
        /\ \A e \in warnings' : e \in warnings \/ e.what \in {"hides builtin", "shadows", "shadows builtin"}
        /\ errors \subseteq errors' /\ warnings \subseteq warnings'
        /\ UNCHANGED <<script, used>>
    BY <1>2, PlainReports
  <2>2. /\ \A e \in errors' : e \in errors \/ e.what \notin RefWhats
        /\ \A e \in warnings' : e \in warnings \/ e.what # "unknown ll"
    BY <2>1 DEF OtherWhats, RefWhats
  <2>3. ASSUME NEW u, NEW i, PlaceRefs(u, i) # {}
        PROVE  Seen(u, i)' <=> Seen(u, i)
    <3>1. CASE OpenBlock \/ CloseBlock \/ Jump \/ Label \/ ChangeState
      <4>1. Seen(u, i)' <=> Seen(u, i) \/ (u = unit /\ i = at)
        BY <3>1, SeenGrows DEF ItemSteps
      <4>2. /\ phase = "body" /\ at <= Len(Unit.body)
            /\ Item.op \in {"open", "close", "jump", "label", "state"}
        BY <3>1 DEF OpenBlock, CloseBlock, Jump, Label, ChangeState, InBody
      <4>3. unit # 0 /\ Item = Unit.body[at]
        BY <4>2, BodyContext DEF BodyPhases
      <4>4. ItemAt(<<unit, at>>) = Item
        BY <4>3 DEF ItemAt, Unit
      <4>5. PlaceRefs(unit, at) = {}
        BY <4>2, <4>3, <4>4 DEF PlaceRefs, RefsAt
      <4> QED BY <2>3, <4>1, <4>5
    <3>2. CASE ~(OpenBlock \/ CloseBlock \/ Jump \/ Label \/ ChangeState)
      BY <1>2, <3>2, SeenStays DEF PlainSteps
    <3> QED BY <3>1, <3>2
  <2> QED BY <2>1, <2>2, <2>3, RefKept
<1>3. CASE LeaveUnit
  <2>1. /\ \A e \in errors' : e \in errors \/ e.what \in JumpWhats
        /\ errors \subseteq errors' /\ UNCHANGED <<script, used, warnings>>
    BY <1>3, LeaveReports
  <2>2. \A e \in errors' : e \in errors \/ e.what \notin RefWhats
    BY <2>1 DEF JumpWhats, RefWhats
  <2>3. \A u, i : Seen(u, i)' <=> Seen(u, i)
    BY <1>3, SeenStays
  <2> QED BY <2>1, <2>2, <2>3, RefKept
<1>4. CASE ReportUnused
  <2>1. /\ \A e \in warnings' : e \in warnings \/ e.what = "unused"
        /\ warnings \subseteq warnings' /\ UNCHANGED <<script, used, errors>>
    BY <1>4, UnusedReports
  <2>2. \A u, i : Seen(u, i)' <=> Seen(u, i)
    BY <1>4, SeenStays
  <2> QED BY <2>1, <2>2, RefKept
<1>5. CASE UNCHANGED vars
  <2>1. UNCHANGED <<script, used, errors, warnings>>
    BY <1>5 DEF vars
  <2>2. \A u, i : Seen(u, i)' <=> Seen(u, i)
    BY <1>5 DEF vars, Seen, SeenIn, Ended, NG, Units
  <2> QED BY <2>1, <2>2, RefKept
<1> QED BY <1>1, <1>2, <1>3, <1>4, <1>5 DEF Next, RefSteps, PlainSteps

LEMMA RefInvAlways == Spec => []RefInv
<1>1. Init => RefInv
  BY RefInvInit
<1>2. ScopesInv /\ TopInv /\ InnerInv /\ RefInv /\ [Next]_vars => RefInv'
  BY RefInvStep
<1> QED BY <1>1, <1>2, ScopesInvAlways, TopInvAlways, InnerInvAlways, PTL DEF Spec

-----------------------------------------------------------------------------
(* The references of a script, as the properties list them.                *)
AllSites == Sites("use") \cup Sites("call") \cup InitSites("use") \cup InitSites("call")

LEMMA SitesAre ==
  ASSUME NEW op, NEW s
  PROVE  /\ s \in Sites(op) <=>
              \E u \in DOMAIN Units : \E i \in DOMAIN Units[u].body : \E r \in RefsAt(<<u, i>>) :
                r.op = op /\ s = SiteOf(u, i, r)
         /\ s \in InitSites(op) <=>
              \E i \in DOMAIN script.globals : \E r \in RefsOf(script.globals[i].refs) :
                r.op = op /\ s = SiteOf(0, i, r)
<1>1. \A p : p \in Places <=> \E u \in DOMAIN Units : \E i \in DOMAIN Units[u].body : p = <<u, i>>
  BY DEF Places
<1>2. s \in Sites(op) <=> \E p \in Places : \E r \in RefsAt(p) : r.op = op /\ s = SiteOf(p[1], p[2], r)
  BY DEF Sites, SiteOf
<1>3. s \in Sites(op) <=>
        \E u \in DOMAIN Units : \E i \in DOMAIN Units[u].body : \E r \in RefsAt(<<u, i>>) :
          r.op = op /\ s = SiteOf(u, i, r)
  <2>1. ASSUME s \in Sites(op)
        PROVE  \E u \in DOMAIN Units : \E i \in DOMAIN Units[u].body : \E r \in RefsAt(<<u, i>>) :
                 r.op = op /\ s = SiteOf(u, i, r)
    <3>1. PICK p \in Places : \E r \in RefsAt(p) : r.op = op /\ s = SiteOf(p[1], p[2], r)
      BY <1>2, <2>1
    <3>2. PICK u \in DOMAIN Units : \E i \in DOMAIN Units[u].body : p = <<u, i>>
      BY <1>1
    <3>3. PICK i \in DOMAIN Units[u].body : p = <<u, i>>
      BY <3>2
    <3> QED BY <3>1, <3>3
  <2>2. ASSUME NEW u \in DOMAIN Units, NEW i \in DOMAIN Units[u].body, NEW r \in RefsAt(<<u, i>>),
               r.op = op, s = SiteOf(u, i, r)
        PROVE  s \in Sites(op)
    <3>1. PICK p : p = <<u, i>>
      OBVIOUS
    <3>2. p \in Places /\ p[1] = u /\ p[2] = i
      BY <1>1, <3>1
    <3>3. r \in RefsAt(p)
      BY <2>2, <3>1
    <3> QED BY <1>2, <2>2, <3>2, <3>3
  <2> QED BY <2>1, <2>2
<1>4. s \in InitSites(op) <=>
        \E i \in DOMAIN script.globals : \E r \in RefsOf(script.globals[i].refs) :
          r.op = op /\ s = SiteOf(0, i, r)
  BY DEF InitSites, SiteOf
<1> QED BY <1>3, <1>4

LEMMA RefsAreRefs ==
  ASSUME ScopesInv
  PROVE  /\ \A i \in DOMAIN script.globals : \A r \in RefsOf(script.globals[i].refs) : r.op \in {"use", "call"}
         /\ \A u \in DOMAIN Units : \A i \in DOMAIN Units[u].body : \A r \in RefsAt(<<u, i>>) :
              r.op \in {"use", "call"}
<1>1. \A refs \in Refs : \A r \in RefsOf(refs) : r.op \in {"use", "call"}
  BY DEF Refs, RefsOf
<1>2. ASSUME NEW i \in DOMAIN script.globals
      PROVE  script.globals[i].refs \in Refs
  <2>1. script \in Script
    BY DEF ScopesInv, PlaceInv
  <2>2. script.globals \in Seq(Global)
    BY <2>1 DEF Script
  <2>3. script.globals[i] \in Global
    BY <2>2
  <2> QED BY <2>3 DEF Global
<1>3. ASSUME NEW u \in DOMAIN Units, NEW i \in DOMAIN Units[u].body, NEW r \in RefsAt(<<u, i>>)
      PROVE  r.op \in {"use", "call"}
  <2>1. Units[u].body[i] \in Items
    BY UnitsAre
  <2>2. ItemAt(<<u, i>>) = Units[u].body[i]
    BY DEF ItemAt
  <2>3. /\ Units[u].body[i].op \in {"expr", "decl", "return"}
        /\ r \in RefsOf(Units[u].body[i].refs)
    BY <2>2 DEF RefsAt
  <2>4. Units[u].body[i].refs \in Refs
    BY <2>1, <2>3 DEF Items
  <2> QED BY <1>1, <2>3, <2>4
<1> QED BY <1>1, <1>2, <1>3

(* At the end, all of them have been looked at.                            *)
LEMMA AllSeen ==
  ASSUME ScopesInv, phase \in {"unused", "done"}, NEW u, NEW i, NEW r
  PROVE  Seen(u, i) /\ r \in PlaceRefs(u, i) <=> SiteOf(u, i, r) \in AllSites
<1> DEFINE s == SiteOf(u, i, r)
<1>1. /\ NG \in Nat /\ DOMAIN script.globals = 1 .. NG
      /\ \A v \in DOMAIN Units : v # 0
  <2>1. script \in Script
    BY DEF ScopesInv, PlaceInv
  <2>2. DOMAIN script.globals = 1 .. NG
    BY <2>1 DEF Script, NG
  <2> QED BY <2>1, <2>2, TopNamesAre, UnitsAre
<1>2. s.unit = u /\ s.at = i /\ s.ref = r /\ \A v, j, q : s = SiteOf(v, j, q) => v = u /\ j = i /\ q = r
  BY DEF SiteOf
<1>3. Seen(u, i) <=> \/ u = 0 /\ i \in DOMAIN script.globals
                     \/ u \in DOMAIN Units /\ i \in DOMAIN Units[u].body
  BY <1>1 DEF Seen, SeenIn, Ended
<1>4. \A op : s \in Sites(op) <=> /\ u \in DOMAIN Units /\ i \in DOMAIN Units[u].body
                                  /\ r \in RefsAt(<<u, i>>) /\ r.op = op
  <2>1. ASSUME NEW op, s \in Sites(op)
        PROVE  u \in DOMAIN Units /\ i \in DOMAIN Units[u].body /\ r \in RefsAt(<<u, i>>) /\ r.op = op
    <3> HIDE DEF s
    <3>0. s \in Sites(op) <=> \E v \in DOMAIN Units : \E j \in DOMAIN Units[v].body :
                               \E q \in RefsAt(<<v, j>>) : q.op = op /\ s = SiteOf(v, j, q)
      BY ONLY SitesAre
    <3>1. PICK v \in DOMAIN Units : \E j \in DOMAIN Units[v].body : \E q \in RefsAt(<<v, j>>) :
                 q.op = op /\ s = SiteOf(v, j, q)
      BY ONLY <2>1, <3>0
    <3>2. PICK j \in DOMAIN Units[v].body : \E q \in RefsAt(<<v, j>>) : q.op = op /\ s = SiteOf(v, j, q)
      BY <3>1
    <3>3. PICK q \in RefsAt(<<v, j>>) : q.op = op /\ s = SiteOf(v, j, q)
      BY <3>2
    <3>4. v = u /\ j = i /\ q = r
      BY <1>2, <3>3
    <3> QED BY <3>3, <3>4
  <2>2. ASSUME NEW op, u \in DOMAIN Units, i \in DOMAIN Units[u].body, r \in RefsAt(<<u, i>>), r.op = op
        PROVE  s \in Sites(op)
    BY <2>2, SitesAre
  <2> QED BY <2>1, <2>2
<1>5. \A op : s \in InitSites(op) <=> /\ u = 0 /\ i \in DOMAIN script.globals
                                      /\ r \in RefsOf(script.globals[i].refs) /\ r.op = op
  <2>1. ASSUME NEW op, s \in InitSites(op)
        PROVE  u = 0 /\ i \in DOMAIN script.globals /\ r \in RefsOf(script.globals[i].refs) /\ r.op = op
    <3> HIDE DEF s
    <3>1. PICK j \in DOMAIN script.globals : \E q \in RefsOf(script.globals[j].refs) :
                 q.op = op /\ s = SiteOf(0, j, q)
      BY <2>1, SitesAre
    <3>2. PICK q \in RefsOf(script.globals[j].refs) : q.op = op /\ s = SiteOf(0, j, q)
      BY <3>1
    <3>3. 0 = u /\ j = i /\ q = r
      BY <1>2, <3>2
    <3> QED BY <3>2, <3>3
  <2>2. ASSUME NEW op, u = 0, i \in DOMAIN script.globals, r \in RefsOf(script.globals[i].refs), r.op = op
        PROVE  s \in InitSites(op)
    BY <2>2, SitesAre
  <2> QED BY <2>1, <2>2
<1> HIDE DEF s
<1>6. CASE u = 0
  <2>1. u \notin DOMAIN Units /\ PlaceRefs(u, i) = RefsOf(script.globals[i].refs)
    BY <1>1, <1>6 DEF PlaceRefs
  <2> QED BY <1>3, <1>4, <1>5, <1>6, <2>1, RefsAreRefs DEF AllSites, s
<1>7. CASE u # 0
  <2>1. PlaceRefs(u, i) = RefsAt(<<u, i>>)
    BY <1>7 DEF PlaceRefs
  <2> QED BY <1>3, <1>4, <1>5, <1>7, <2>1, RefsAreRefs DEF AllSites, s
<1> QED BY <1>6, <1>7

LEMMA SiteFacts ==
  ASSUME ScopesInv, NEW op
  PROVE  /\ \A s \in Sites(op) : /\ s = SiteOf(s.unit, s.at, s.ref) /\ s.ref.op = op
                                 /\ s.unit \in DOMAIN Units /\ s.unit # 0
         /\ \A s \in InitSites(op) : s = SiteOf(s.unit, s.at, s.ref) /\ s.ref.op = op /\ s.unit = 0
<1>1. \A u, i, r : LET s == SiteOf(u, i, r) IN s.unit = u /\ s.at = i /\ s.ref = r
  BY DEF SiteOf
<1>2. ASSUME NEW s \in Sites(op)
      PROVE  /\ s = SiteOf(s.unit, s.at, s.ref) /\ s.ref.op = op
             /\ s.unit \in DOMAIN Units /\ s.unit # 0
  <2>1. PICK u \in DOMAIN Units : \E i \in DOMAIN Units[u].body : \E r \in RefsAt(<<u, i>>) :
               r.op = op /\ s = SiteOf(u, i, r)
    BY <1>2, SitesAre
  <2>2. PICK i \in DOMAIN Units[u].body : \E r \in RefsAt(<<u, i>>) : r.op = op /\ s = SiteOf(u, i, r)
    BY <2>1
  <2>3. PICK r \in RefsAt(<<u, i>>) : r.op = op /\ s = SiteOf(u, i, r)
    BY <2>2
  <2>4. u # 0
    BY UnitsAre
  <2> QED BY <1>1, <2>3, <2>4
<1>3. ASSUME NEW s \in InitSites(op)
      PROVE  s = SiteOf(s.unit, s.at, s.ref) /\ s.ref.op = op /\ s.unit = 0
  <2>1. PICK i \in DOMAIN script.globals : \E r \in RefsOf(script.globals[i].refs) :
               r.op = op /\ s = SiteOf(0, i, r)
    BY <1>3, SitesAre
  <2>2. PICK r \in RefsOf(script.globals[i].refs) : r.op = op /\ s = SiteOf(0, i, r)
    BY <2>1
  <2> QED BY <1>1, <2>2
<1> QED BY <1>2, <1>3

LEMMA SiteSeen ==
  ASSUME ScopesInv, phase \in {"unused", "done"}, NEW s \in AllSites
  PROVE  /\ s = SiteOf(s.unit, s.at, s.ref)
         /\ Seen(s.unit, s.at) /\ s.ref \in PlaceRefs(s.unit, s.at)
<1>1. s = SiteOf(s.unit, s.at, s.ref)
  BY SiteFacts DEF AllSites
<1>2. PICK u, i, r : u = s.unit /\ i = s.at /\ r = s.ref
  OBVIOUS
<1>3. SiteOf(u, i, r) \in AllSites
  BY <1>1, <1>2
<1>4. Seen(u, i) /\ r \in PlaceRefs(u, i)
  BY <1>3, AllSeen
<1> QED BY <1>1, <1>2, <1>4

(* The complaints of one kind are those of the sites.                      *)
LEMMA ComplaintsAre ==
  ASSUME ScopesInv, RefInv, phase \in {"unused", "done"}, NEW w \in RefWhats
  PROVE  Complaints(errors, {w}) = {Complaint(w, s) : s \in {s \in AllSites : w \in ComplaintsOf(s)}}
<1>1. \A u, i, r : LET s == SiteOf(u, i, r) IN s.unit = u /\ s.at = i /\ s.ref = r
  BY DEF SiteOf
<1>2. ASSUME NEW c \in Complaints(errors, {w})
      PROVE  \E s \in AllSites : w \in ComplaintsOf(s) /\ c = Complaint(w, s)
  <2>1. PICK e \in errors : /\ e.what = w
                            /\ c = [what |-> e.what, unit |-> e.unit, at |-> e.at, name |-> e.name]
    BY <1>2 DEF Complaints
  <2>2. PICK n, u, i : n = e.name /\ u = e.unit /\ i = e.at
    OBVIOUS
  <2>3. ErrorAt(w, n, u, i)
    BY <2>1, <2>2 DEF ErrorAt
  <2>4. Seen(u, i) /\ Complained(w, n, u, i)
    BY <2>3 DEF RefInv, RefErrors
  <2>5. PICK r \in PlaceRefs(u, i) : r.name = n /\ w \in ComplaintsOf(SiteOf(u, i, r))
    BY <2>4 DEF Complained
  <2>6. SiteOf(u, i, r) \in AllSites
    BY <2>4, <2>5, AllSeen
  <2>7. c = Complaint(w, SiteOf(u, i, r))
    BY <1>1, <2>1, <2>2, <2>5 DEF Complaint
  <2> QED BY <2>5, <2>6, <2>7
<1>3. ASSUME NEW s \in AllSites, w \in ComplaintsOf(s)
      PROVE  Complaint(w, s) \in Complaints(errors, {w})
  <2>1. PICK u, i, r, n : u = s.unit /\ i = s.at /\ r = s.ref /\ n = r.name
    OBVIOUS
  <2>2. s = SiteOf(u, i, r) /\ Seen(u, i) /\ r \in PlaceRefs(u, i)
    BY <2>1, SiteSeen
  <2>3. Complained(w, n, u, i)
    BY <1>3, <2>1, <2>2 DEF Complained
  <2>4. ErrorAt(w, n, u, i)
    BY <2>2, <2>3 DEF RefInv, RefErrors
  <2>5. PICK e \in errors : e.what = w /\ e.name = n /\ e.unit = u /\ e.at = i
    BY <2>4 DEF ErrorAt
  <2>6. Complaint(w, s) = [what |-> e.what, unit |-> e.unit, at |-> e.at, name |-> e.name]
    BY <2>1, <2>5 DEF Complaint
  <2> QED BY <2>5, <2>6 DEF Complaints
<1>4. ASSUME NEW c
      PROVE  c \in Complaints(errors, {w}) <=>
               c \in {Complaint(w, s) : s \in {s \in AllSites : w \in ComplaintsOf(s)}}
  BY <1>2, <1>3
<1> QED BY <1>4

LEMMA WarningsAre ==
  ASSUME ScopesInv, RefInv, phase \in {"unused", "done"}
  PROVE  Complaints(warnings, {"unknown ll"}) =
           {Complaint("unknown ll", s) :
              s \in {s \in AllSites : s.ref.op = "call" /\ Wanted(s) = {} /\ s.ref.name \in LlNames}}
<1> DEFINE w == "unknown ll"
           Let(s) == s.ref.op = "call" /\ Wanted(s) = {} /\ s.ref.name \in LlNames
<1>1. ASSUME NEW c \in Complaints(warnings, {w})
      PROVE  \E s \in AllSites : Let(s) /\ c = Complaint(w, s)
  <2>1. PICK e \in warnings : /\ e.what = w
                              /\ c = [what |-> e.what, unit |-> e.unit, at |-> e.at, name |-> e.name]
    BY <1>1 DEF Complaints
  <2>2. PICK n, u, i : n = e.name /\ u = e.unit /\ i = e.at
    OBVIOUS
  <2>3. WarnedAt(w, n, u, i)
    BY <2>1, <2>2 DEF WarnedAt
  <2>4. Seen(u, i) /\ LetThrough(n, u, i)
    BY <2>3 DEF RefInv, RefWarnings
  <2>5. PICK r \in PlaceRefs(u, i) :
               r.name = n /\ r.op = "call" /\ Wanted(SiteOf(u, i, r)) = {} /\ n \in LlNames
    BY <2>4 DEF LetThrough
  <2>6. SiteOf(u, i, r) \in AllSites
    BY <2>4, <2>5, AllSeen
  <2>7. PICK s : s = SiteOf(u, i, r)
    OBVIOUS
  <2>8. s.unit = u /\ s.at = i /\ s.ref = r
    BY ONLY <2>7 DEF SiteOf
  <2>9. c = Complaint(w, s)
    BY <2>1, <2>2, <2>5, <2>8 DEF Complaint
  <2>10. Let(s)
    BY <2>5, <2>7, <2>8
  <2> QED BY <2>6, <2>7, <2>9, <2>10
<1>2. ASSUME NEW s \in AllSites, Let(s)
      PROVE  Complaint(w, s) \in Complaints(warnings, {w})
  <2>1. PICK u, i, r, n : u = s.unit /\ i = s.at /\ r = s.ref /\ n = r.name
    OBVIOUS
  <2>2. s = SiteOf(u, i, r) /\ Seen(u, i) /\ r \in PlaceRefs(u, i)
    BY <2>1, SiteSeen
  <2>3. LetThrough(n, u, i)
    BY <1>2, <2>1, <2>2 DEF LetThrough
  <2>4. WarnedAt(w, n, u, i)
    BY <2>2, <2>3 DEF RefInv, RefWarnings
  <2>5. PICK e \in warnings : e.what = w /\ e.name = n /\ e.unit = u /\ e.at = i
    BY <2>4 DEF WarnedAt
  <2>6. Complaint(w, s) = [what |-> e.what, unit |-> e.unit, at |-> e.at, name |-> e.name]
    BY <2>1, <2>5 DEF Complaint
  <2> QED BY <2>5, <2>6 DEF Complaints
<1>3. ASSUME NEW c
      PROVE  c \in Complaints(warnings, {w}) <=>
               c \in {Complaint(w, s) : s \in {s \in AllSites : Let(s)}}
  BY <1>1, <1>2
<1> QED BY <1>3

LEMMA TwoWhats ==
  ASSUME NEW set, NEW a, NEW b
  PROVE  Complaints(set, {a, b}) = Complaints(set, {a}) \cup Complaints(set, {b})
BY DEF Complaints

(* A name is complained about exactly where the text gives it no meaning   *)
(* that has a value, for any script (sem.c:334-369, 741-765).              *)
THEOREM NamesLexical == Spec => []NamesAreLexical
<1>1. ASSUME ScopesInv, RefInv, Done
      PROVE  LET free == {s \in Sites("use") : ~Local(s.unit, s.at, s.ref.name) /\ s.ref.name \notin GlobalNames}
                 early == {s \in InitSites("use") : s.ref.name \notin GlobalNames}
                 top   == FunctionNames \cup StateNames
             IN  Complaints(errors, {"undeclared", "not a value"}) =
                   {Complaint("not a value", s) : s \in {s \in free : s.ref.name \in top}}
                     \cup {Complaint("undeclared", s) :
                             s \in {s \in free : s.ref.name \notin top \cup BuiltinConsts}
                                     \cup {s \in early : s.ref.name \notin BuiltinConsts}}
  <2> DEFINE free == {s \in Sites("use") : ~Local(s.unit, s.at, s.ref.name) /\ s.ref.name \notin GlobalNames}
             early == {s \in InitSites("use") : s.ref.name \notin GlobalNames}
             top   == FunctionNames \cup StateNames
  <2>1. phase \in {"unused", "done"} /\ "undeclared" \in RefWhats /\ "not a value" \in RefWhats
    BY <1>1 DEF Done, RefWhats
  <2>2. \A s \in Sites("use") :
          ComplaintsOf(s) = IF s \notin free THEN {}
                            ELSE IF s.ref.name \in top THEN {"not a value"}
                            ELSE IF s.ref.name \in BuiltinConsts THEN {} ELSE {"undeclared"}
    BY <1>1, SiteFacts DEF ComplaintsOf, UseComplaints
  <2>3. \A s \in InitSites("use") :
          ComplaintsOf(s) = IF s \notin early \/ s.ref.name \in BuiltinConsts THEN {} ELSE {"undeclared"}
    BY <1>1, SiteFacts DEF ComplaintsOf, UseComplaints
  <2>4. \A s \in Sites("call") \cup InitSites("call") :
          ComplaintsOf(s) \subseteq {"arity", "mono only", "undeclared function"}
    <3>1. \A s : CallComplaints(s) \subseteq {"arity", "mono only", "undeclared function"}
      BY DEF CallComplaints
    <3> QED BY <1>1, <3>1, SiteFacts DEF ComplaintsOf
  <2>5. {s \in AllSites : "not a value" \in ComplaintsOf(s)} = {s \in free : s.ref.name \in top}
    <3> HIDE DEF top
    <3> QED BY <2>2, <2>3, <2>4 DEF AllSites
  <2>6. {s \in AllSites : "undeclared" \in ComplaintsOf(s)} =
          {s \in free : s.ref.name \notin top \cup BuiltinConsts}
            \cup {s \in early : s.ref.name \notin BuiltinConsts}
    <3> HIDE DEF top
    <3> QED BY <2>2, <2>3, <2>4 DEF AllSites
  <2>7. Complaints(errors, {"undeclared", "not a value"}) =
          Complaints(errors, {"undeclared"}) \cup Complaints(errors, {"not a value"})
    BY TwoWhats
  <2>8. /\ Complaints(errors, {"undeclared"}) =
             {Complaint("undeclared", s) : s \in {s \in AllSites : "undeclared" \in ComplaintsOf(s)}}
        /\ Complaints(errors, {"not a value"}) =
             {Complaint("not a value", s) : s \in {s \in AllSites : "not a value" \in ComplaintsOf(s)}}
    BY <1>1, <2>1, ComplaintsAre
  <2> HIDE DEF free, early, top
  <2>9. Complaints(errors, {"undeclared", "not a value"}) =
          {Complaint("not a value", s) : s \in {s \in free : s.ref.name \in top}}
            \cup {Complaint("undeclared", s) :
                    s \in {s \in free : s.ref.name \notin top \cup BuiltinConsts}
                            \cup {s \in early : s.ref.name \notin BuiltinConsts}}
    BY ONLY <2>5, <2>6, <2>7, <2>8
  <2> QED BY <2>9 DEF free, early, top
<1>2. ScopesInv /\ RefInv => NamesAreLexical
  BY <1>1 DEF NamesAreLexical
<1> QED BY <1>2, ScopesInvAlways, RefInvAlways, PTL

(* A call means the function of the script of that name wherever it is     *)
(* declared and whatever locals have its name, else an overload of the     *)
(* builtin one, for LSO not a Mono-only one; and an unknown one that       *)
(* starts with "ll" is let through (sem.c:216-295).                        *)
THEOREM CallsGlobal == Spec => []CallsAreGlobal
<1>1. ASSUME ScopesInv, RefInv, Done
      PROVE  LET calls == Sites("call") \cup InitSites("call")
                 lost  == {s \in calls : Wanted(s) = {}}
             IN  /\ Complaints(errors, {"arity", "undeclared function"}) =
                      {Complaint("arity", s) : s \in {s \in calls \ lost : s.ref.args \notin Wanted(s)}}
                        \cup {Complaint("undeclared function", s) :
                                s \in {s \in lost : s.ref.name \notin LlNames}}
                 /\ Complaints(errors, {"mono only"}) =
                      {Complaint("mono only", s) : s \in {s \in calls : Barred(s)}}
                 /\ Complaints(warnings, {"unknown ll"}) =
                      {Complaint("unknown ll", s) : s \in {s \in lost : s.ref.name \in LlNames}}
  <2> DEFINE calls == Sites("call") \cup InitSites("call")
             lost  == {s \in calls : Wanted(s) = {}}
  <2>1. /\ phase \in {"unused", "done"}
        /\ "arity" \in RefWhats /\ "mono only" \in RefWhats /\ "undeclared function" \in RefWhats
    BY <1>1 DEF Done, RefWhats
  <2>2. \A s \in calls :
          /\ s.ref.op = "call"
          /\ ComplaintsOf(s) =
               (IF s \in lost THEN IF s.ref.name \in LlNames THEN {} ELSE {"undeclared function"}
                ELSE IF s.ref.args \in Wanted(s) THEN {} ELSE {"arity"})
                 \cup (IF Barred(s) THEN {"mono only"} ELSE {})
    BY <1>1, SiteFacts DEF ComplaintsOf, CallComplaints
  <2>3. \A s \in Sites("use") \cup InitSites("use") :
          s.ref.op # "call" /\ ComplaintsOf(s) \subseteq {"undeclared", "not a value"}
    <3>1. \A s : UseComplaints(s) \subseteq {"undeclared", "not a value"}
      BY DEF UseComplaints
    <3> QED BY <1>1, <3>1, SiteFacts DEF ComplaintsOf
  <2>4. AllSites = calls \cup Sites("use") \cup InitSites("use") /\ lost \subseteq calls
    BY DEF AllSites
  <2>5. {s \in AllSites : s.ref.op = "call" /\ Wanted(s) = {} /\ s.ref.name \in LlNames} =
          {s \in lost : s.ref.name \in LlNames}
    <3> HIDE DEF calls
    <3> QED BY <2>2, <2>3, <2>4
  <2> HIDE DEF calls, lost
  <2>15. ASSUME NEW s \in calls
         PROVE  /\ "arity" \in ComplaintsOf(s) <=> s \notin lost /\ s.ref.args \notin Wanted(s)
                /\ "undeclared function" \in ComplaintsOf(s) <=> s \in lost /\ s.ref.name \notin LlNames
                /\ "mono only" \in ComplaintsOf(s) <=> Barred(s)
    <3>1. PICK base, bar :
            /\ ComplaintsOf(s) = base \cup bar
            /\ base = IF s \in lost THEN IF s.ref.name \in LlNames THEN {} ELSE {"undeclared function"}
                      ELSE IF s.ref.args \in Wanted(s) THEN {} ELSE {"arity"}
            /\ bar = IF Barred(s) THEN {"mono only"} ELSE {}
      BY ONLY <2>2, <2>15
    <3>2. "mono only" \in bar <=> Barred(s)
      BY ONLY <3>1
    <3>3. "arity" \notin bar /\ "undeclared function" \notin bar /\ "mono only" \notin base
      BY ONLY <3>1
    <3>4. /\ "arity" \in base <=> s \notin lost /\ s.ref.args \notin Wanted(s)
          /\ "undeclared function" \in base <=> s \in lost /\ s.ref.name \notin LlNames
      BY ONLY <3>1
    <3> QED BY ONLY <3>1, <3>2, <3>3, <3>4
  <2>16. ASSUME NEW s \in Sites("use") \cup InitSites("use")
         PROVE  /\ "arity" \notin ComplaintsOf(s) /\ "undeclared function" \notin ComplaintsOf(s)
                /\ "mono only" \notin ComplaintsOf(s)
    BY ONLY <2>3, <2>16
  <2>6. {s \in AllSites : "arity" \in ComplaintsOf(s)} = {s \in calls \ lost : s.ref.args \notin Wanted(s)}
    BY ONLY <2>4, <2>15, <2>16
  <2>7. {s \in AllSites : "undeclared function" \in ComplaintsOf(s)} = {s \in lost : s.ref.name \notin LlNames}
    BY ONLY <2>4, <2>15, <2>16
  <2>8. Complaints(errors, {"arity", "undeclared function"}) =
          Complaints(errors, {"arity"}) \cup Complaints(errors, {"undeclared function"})
    BY TwoWhats
  <2>9. /\ Complaints(errors, {"arity"}) =
             {Complaint("arity", s) : s \in {s \in AllSites : "arity" \in ComplaintsOf(s)}}
        /\ Complaints(errors, {"undeclared function"}) =
             {Complaint("undeclared function", s) :
                s \in {s \in AllSites : "undeclared function" \in ComplaintsOf(s)}}
    BY <1>1, <2>1, ComplaintsAre
  <2>10. Complaints(errors, {"arity", "undeclared function"}) =
           {Complaint("arity", s) : s \in {s \in calls \ lost : s.ref.args \notin Wanted(s)}}
             \cup {Complaint("undeclared function", s) : s \in {s \in lost : s.ref.name \notin LlNames}}
    BY ONLY <2>6, <2>7, <2>8, <2>9
  <2>11. Complaints(warnings, {"unknown ll"}) =
           {Complaint("unknown ll", s) : s \in {s \in lost : s.ref.name \in LlNames}}
    BY <1>1, <2>1, <2>5, WarningsAre
  <2>12. {s \in AllSites : "mono only" \in ComplaintsOf(s)} = {s \in calls : Barred(s)}
    BY ONLY <2>4, <2>15, <2>16
  <2>13. Complaints(errors, {"mono only"}) =
           {Complaint("mono only", s) : s \in {s \in AllSites : "mono only" \in ComplaintsOf(s)}}
    BY <1>1, <2>1, ComplaintsAre
  <2>14. Complaints(errors, {"mono only"}) = {Complaint("mono only", s) : s \in {s \in calls : Barred(s)}}
    BY ONLY <2>12, <2>13
  <2> QED BY <2>10, <2>11, <2>14 DEF calls, lost
<1>2. ScopesInv /\ RefInv => CallsAreGlobal
  BY <1>1 DEF CallsAreGlobal
<1> QED BY <1>2, ScopesInvAlways, RefInvAlways, PTL

-----------------------------------------------------------------------------
(* Unused names are reported in the last step, and in no other.            *)
Reported(n) == \E w \in warnings : w.what = "unused" /\ w.name = n

UnusedInv ==
  /\ ~Done => \A w \in warnings : w.what # "unused"
  /\ Done => \A n : Reported(n) <=> /\ script.wall /\ n \notin used
                                    /\ n \in GlobalNames \cup (FunctionNames \ Private)

LEMMA UnusedAtEnd ==
  ASSUME ScopesInv, TopInv, UnusedInv, ReportUnused
  PROVE  UnusedInv'
<1>1. /\ phase = "unused" /\ phase' = "done" /\ UNCHANGED <<script, used>>
      /\ warnings' = warnings \cup {Faulty("unused", name) : name \in IF script.wall THEN Unused ELSE {}}
  BY DEF ReportUnused, Begin
<1>2. GlobalNames' = GlobalNames /\ FunctionNames' = FunctionNames
  BY <1>1 DEF GlobalNames, FunctionNames
<1>3. \A n : Faulty("unused", n).what = "unused" /\ Faulty("unused", n).name = n
  BY DEF Faulty
<1>4. \A n : n \in DOMAIN env[1] <=> n \in GlobalNames \cup FunctionNames \cup StateNames
  BY <1>1, TopMembers
<1>5. \A n \in DOMAIN env[1] : env[1][n] = TopKind(n)
  BY TopMembers
<1>6. \A n : n \in Unused <=> n \notin used /\ n \in GlobalNames \cup (FunctionNames \ Private)
  BY <1>4, <1>5 DEF Unused, TopKind, FunctionNames
<1>7. \A w \in warnings : w.what # "unused"
  BY <1>1 DEF UnusedInv, Done
<1>8. ASSUME NEW n
      PROVE  Reported(n)' <=> script.wall /\ n \in Unused
  <2>1. ASSUME Reported(n)'
        PROVE  script.wall /\ n \in Unused
    <3>1. PICK w \in warnings' : w.what = "unused" /\ w.name = n
      BY <2>1 DEF Reported
    <3>2. w \notin warnings
      BY <1>7, <3>1
    <3>3. PICK name \in IF script.wall THEN Unused ELSE {} : w = Faulty("unused", name)
      BY <1>1, <3>1, <3>2
    <3> QED BY <1>3, <3>1, <3>3
  <2>2. ASSUME script.wall, n \in Unused
        PROVE  Reported(n)'
    <3>1. PICK w : w = Faulty("unused", n)
      OBVIOUS
    <3>2. w \in warnings'
      BY <1>1, <2>2, <3>1
    <3> QED BY <1>3, <3>1, <3>2 DEF Reported
  <2> QED BY <2>1, <2>2
<1>9. ~Done' => \A w \in warnings' : w.what # "unused"
  BY <1>1 DEF Done
<1>10. Done' => \A n : Reported(n)' <=> /\ script'.wall /\ n \notin used'
                                        /\ n \in GlobalNames' \cup (FunctionNames' \ Private)
  BY <1>1, <1>2, <1>6, <1>8
<1> QED BY <1>9, <1>10 DEF UnusedInv

(* The walk has steps left only before its end, and only that one ends it. *)
LEMMA NotYetDone ==
  ASSUME PlainSteps \/ RefSteps \/ LeaveUnit
  PROVE  ~Done /\ ~Done'
BY DEF PlainSteps, RefSteps, Done, DeclareGlobal, StartInitialisers, CheckInitialiser, StartFunctions,
       DeclareFunction, StartStates, DeclareState, StartUnits, EnterUnit, DeclareParam, StartBody,
       OpenBlock, CloseBlock, Expression, DeclareLocal, CheckValue, Jump, Label, ChangeState,
       Return, LeaveUnit, Begin, Forward, NextUnit, InBody

LEMMA UnusedInvStep == ScopesInv /\ TopInv /\ UnusedInv /\ [Next]_vars => UnusedInv'
<1> SUFFICES ASSUME ScopesInv, TopInv, UnusedInv, [Next]_vars PROVE UnusedInv'
  OBVIOUS
<1>1. CASE PlainSteps \/ RefSteps \/ LeaveUnit
  <2>1. ~Done /\ ~Done'
    BY <1>1, NotYetDone
  <2>2. \A w \in warnings : w.what # "unused"
    BY <2>1 DEF UnusedInv
  <2>3. \A w \in warnings' : w \in warnings \/ w.what # "unused"
    <3>1. CASE PlainSteps
      <4>1. \A e \in warnings' : e \in warnings \/ e.what \in {"hides builtin", "shadows", "shadows builtin"}
        BY <3>1, PlainReports
      <4> QED BY <4>1
    <3>2. CASE RefSteps
      <4>1. PICK refs, others : CheckRefs(refs, others) /\ \A e \in others : e.what = "return"
        BY <3>2, RefStepsCheck
      <4>2. \A e \in warnings' : e \in warnings \/ e.what = "unknown ll"
        BY <4>1, RefReports
      <4> QED BY <4>2
    <3>3. CASE LeaveUnit
      BY <3>3, LeaveReports
    <3> QED BY <1>1, <3>1, <3>2, <3>3
  <2> QED BY <2>1, <2>2, <2>3 DEF UnusedInv
<1>2. CASE ReportUnused
  BY <1>2, UnusedAtEnd
<1>3. CASE UNCHANGED vars
  BY <1>3 DEF vars, UnusedInv, Done, Reported, GlobalNames, FunctionNames
<1> QED BY <1>1, <1>2, <1>3 DEF Next, RefSteps, PlainSteps

LEMMA UnusedInvAlways == Spec => []UnusedInv
<1>1. Init => UnusedInv
  BY DEF Init, UnusedInv, Done
<1>2. ScopesInv /\ TopInv /\ UnusedInv /\ [Next]_vars => UnusedInv'
  BY UnusedInvStep
<1> QED BY <1>1, <1>2, ScopesInvAlways, TopInvAlways, PTL DEF Spec

(* At the end, the marked names are those that a site refers to.           *)
LEMMA MarksAre ==
  ASSUME ScopesInv, RefInv, phase \in {"unused", "done"}, NEW n
  PROVE  n \in used <=> \E s \in AllSites : s.ref.name = n /\ RefersTo(s)
<1>1. n \in used <=> \E u, i : Seen(u, i) /\ Referred(n, u, i)
  BY DEF RefInv, RefMarks
<1>2. ASSUME n \in used
      PROVE  \E s \in AllSites : s.ref.name = n /\ RefersTo(s)
  <2>1. PICK u, i : Seen(u, i) /\ Referred(n, u, i)
    BY <1>1, <1>2
  <2>2. PICK r \in PlaceRefs(u, i) : r.name = n /\ RefersTo(SiteOf(u, i, r))
    BY <2>1 DEF Referred
  <2>3. SiteOf(u, i, r) \in AllSites
    BY <2>1, <2>2, AllSeen
  <2>4. SiteOf(u, i, r).ref = r
    BY DEF SiteOf
  <2> QED BY <2>2, <2>3, <2>4
<1>3. ASSUME NEW s \in AllSites, s.ref.name = n, RefersTo(s)
      PROVE  n \in used
  <2>1. PICK u, i, r : u = s.unit /\ i = s.at /\ r = s.ref
    OBVIOUS
  <2>2. s = SiteOf(u, i, r) /\ Seen(u, i) /\ r \in PlaceRefs(u, i)
    BY <2>1, SiteSeen
  <2>3. Referred(n, u, i)
    BY <1>3, <2>1, <2>2 DEF Referred
  <2> QED BY <1>1, <2>2, <2>3
<1> QED BY <1>2, <1>3

(* What is reported as unused is what nothing in the text refers to        *)
(* (sem.c:969-981).                                                        *)
THEOREM UnusedUnused == Spec => []UnusedAreUnused
<1>1. ASSUME ScopesInv, RefInv, UnusedInv, Done
      PROVE  LET refersTo(name, s) ==
                   IF s.ref.op = "use" THEN s.unit = 0 \/ ~Local(s.unit, s.at, name)
                                       ELSE name \in FunctionNames
                 sites == Sites("use") \cup Sites("call") \cup InitSites("use")
             IN  {w.name : w \in {w \in warnings : w.what = "unused"}} =
                   {name \in GlobalNames \cup (FunctionNames \ Private) :
                      /\ script.wall
                      /\ \A s \in sites : s.ref.name = name =>
                            ~refersTo(name, s) \/ (s.unit = 0 /\ name \notin GlobalNames)}
  <2> DEFINE refersTo(name, s) ==
               IF s.ref.op = "use" THEN s.unit = 0 \/ ~Local(s.unit, s.at, name)
                                   ELSE name \in FunctionNames
             sites == Sites("use") \cup Sites("call") \cup InitSites("use")
             counts(name, s) == refersTo(name, s) /\ ~(s.unit = 0 /\ name \notin GlobalNames)
  <2>1. phase \in {"unused", "done"}
    BY <1>1 DEF Done
  <2>2. ASSUME NEW name \in GlobalNames \cup FunctionNames, NEW s \in sites, s.ref.name = name
        PROVE  RefersTo(s) <=> counts(name, s)
    <3>1. CASE s \in Sites("use")
      <4>1. s.ref.op = "use" /\ s.unit # 0
        BY <1>1, <3>1, SiteFacts
      <4> QED BY <2>2, <4>1 DEF RefersTo
    <3>2. CASE s \in Sites("call")
      <4>1. s.ref.op = "call" /\ s.unit # 0
        BY <1>1, <3>2, SiteFacts
      <4> QED BY <2>2, <4>1 DEF RefersTo
    <3>3. CASE s \in InitSites("use")
      <4>1. s.ref.op = "use" /\ s.unit = 0
        BY <1>1, <3>3, SiteFacts
      <4> QED BY <2>2, <4>1 DEF RefersTo
    <3> QED BY <3>1, <3>2, <3>3
  <2>3. \A s \in InitSites("call") : ~RefersTo(s)
    BY <1>1, SiteFacts DEF RefersTo
  <2>4. AllSites = sites \cup InitSites("call")
    BY DEF AllSites
  <2> HIDE DEF sites, refersTo
  <2>5. ASSUME NEW name \in GlobalNames \cup FunctionNames
        PROVE  name \in used <=> \E s \in sites : s.ref.name = name /\ counts(name, s)
    <3>1. name \in used <=> \E s \in AllSites : s.ref.name = name /\ RefersTo(s)
      BY <1>1, <2>1, MarksAre
    <3> HIDE DEF counts
    <3> QED BY <2>2, <2>3, <2>4, <2>5, <3>1
  <2>6. ASSUME NEW n
        PROVE  n \in {w.name : w \in {w \in warnings : w.what = "unused"}} <=> Reported(n)
    BY DEF Reported
  <2>7. ASSUME NEW n
        PROVE  Reported(n) <=> /\ n \in GlobalNames \cup (FunctionNames \ Private)
                               /\ script.wall
                               /\ \A s \in sites : s.ref.name = n =>
                                     ~refersTo(n, s) \/ (s.unit = 0 /\ n \notin GlobalNames)
    <3>1. Reported(n) <=> /\ script.wall /\ n \notin used
                          /\ n \in GlobalNames \cup (FunctionNames \ Private)
      BY <1>1 DEF UnusedInv
    <3>2. n \in GlobalNames \cup (FunctionNames \ Private) => n \in GlobalNames \cup FunctionNames
      OBVIOUS
    <3> QED BY <2>5, <3>1, <3>2
  <2>8. {w.name : w \in {w \in warnings : w.what = "unused"}} =
          {name \in GlobalNames \cup (FunctionNames \ Private) :
             /\ script.wall
             /\ \A s \in sites : s.ref.name = name =>
                   ~refersTo(name, s) \/ (s.unit = 0 /\ name \notin GlobalNames)}
    BY <2>6, <2>7
  <2> QED BY <2>8 DEF sites, refersTo
<1>2. ScopesInv /\ RefInv /\ UnusedInv => UnusedAreUnused
  BY <1>1 DEF UnusedAreUnused
<1> QED BY <1>2, ScopesInvAlways, RefInvAlways, UnusedInvAlways, PTL

-----------------------------------------------------------------------------
(* The list of the labels of a body, or of its jumps, before a place: all  *)
(* of them, the last one first.                                            *)
Marked == [name : Names, at : Nat]

Lists(body, list, op, k) ==
  /\ list \in Seq(Marked)
  /\ \A m \in DOMAIN list : /\ list[m].at \in 1 .. k - 1
                           /\ body[list[m].at].op = op /\ body[list[m].at].name = list[m].name
  /\ \A i \in 1 .. k - 1 : body[i].op = op => \E m \in DOMAIN list : list[m].at = i
  /\ \A l, m \in DOMAIN list : l < m => list[l].at > list[m].at

LEMMA ListsNothing ==
  ASSUME NEW body, NEW op
  PROVE  Lists(body, <<>>, op, 1)
<1>1. <<>> \in Seq(Marked) /\ DOMAIN <<>> = {} /\ 1 .. 1 - 1 = {}
  OBVIOUS
<1> QED BY <1>1 DEF Lists

LEMMA ListsSkip ==
  ASSUME NEW body, NEW list, NEW op, NEW k \in Nat \ {0}, Lists(body, list, op, k), body[k].op # op
  PROVE  Lists(body, list, op, k + 1)
<1>1. \A i : i \in 1 .. (k + 1) - 1 <=> i \in 1 .. k - 1 \/ i = k
  OBVIOUS
<1> QED BY <1>1 DEF Lists

LEMMA ListsAdd ==
  ASSUME NEW body, NEW list, NEW op, NEW k \in Nat \ {0}, Lists(body, list, op, k),
         body[k].op = op, body[k].name \in Names
  PROVE  Lists(body, <<[name |-> body[k].name, at |-> k]>> \o list, op, k + 1)
<1> DEFINE x == [name |-> body[k].name, at |-> k]
           new == <<x>> \o list
<1>1. \A i : i \in 1 .. (k + 1) - 1 <=> i \in 1 .. k - 1 \/ i = k
  OBVIOUS
<1>2. x \in Marked /\ x.name = body[k].name /\ x.at = k
  BY DEF Marked
<1>3. list \in Seq(Marked) /\ Len(list) \in Nat /\ DOMAIN list = 1 .. Len(list)
  BY DEF Lists
<1> HIDE DEF x
<1>4. /\ new \in Seq(Marked) /\ DOMAIN new = 1 .. Len(list) + 1
      /\ new[1] = x /\ \A m \in 1 .. Len(list) : new[m + 1] = list[m]
  BY ONLY <1>2, <1>3
<1> HIDE DEF new
<1>5. \A m \in DOMAIN new : \/ m = 1 /\ new[m] = x
                            \/ m > 1 /\ m - 1 \in DOMAIN list /\ new[m] = list[m - 1]
  <2> SUFFICES ASSUME NEW m \in DOMAIN new, m # 1
               PROVE  m > 1 /\ m - 1 \in DOMAIN list /\ new[m] = list[m - 1]
    BY <1>4
  <2>1. m > 1 /\ m - 1 \in 1 .. Len(list) /\ (m - 1) + 1 = m
    BY ONLY <1>3, <1>4, m \in DOMAIN new, m # 1
  <2> QED BY <1>3, <1>4, <2>1
<1>6. \A m \in DOMAIN new : /\ new[m].at \in 1 .. (k + 1) - 1
                            /\ body[new[m].at].op = op /\ body[new[m].at].name = new[m].name
  BY <1>1, <1>2, <1>5 DEF Lists
<1>7. ASSUME NEW i \in 1 .. (k + 1) - 1, body[i].op = op
      PROVE  \E m \in DOMAIN new : new[m].at = i
  <2>1. CASE i = k
    BY <1>2, <1>3, <1>4, <2>1
  <2>2. CASE i \in 1 .. k - 1
    <3>1. PICK m \in DOMAIN list : list[m].at = i
      BY <1>7, <2>2 DEF Lists
    <3>2. m + 1 \in DOMAIN new /\ new[m + 1] = list[m]
      BY <1>3, <1>4
    <3> QED BY <3>1, <3>2
  <2> QED BY <1>1, <2>1, <2>2
<1>8. ASSUME NEW l \in DOMAIN new, NEW m \in DOMAIN new, l < m
      PROVE  new[l].at > new[m].at
  <2>1. m > 1 /\ m - 1 \in DOMAIN list /\ new[m] = list[m - 1]
    BY <1>3, <1>4, <1>5, <1>8
  <2>2. CASE l = 1
    <3>1. list[m - 1].at \in 1 .. k - 1
      BY <2>1 DEF Lists
    <3>2. new[l].at = k
      BY <1>2, <1>4, <2>2
    <3> QED BY <2>1, <3>1, <3>2
  <2>3. CASE l # 1
    <3>1. l - 1 \in DOMAIN list /\ new[l] = list[l - 1]
      BY <1>5, <2>3
    <3>2. l - 1 < m - 1
      BY <1>3, <1>8, <1>4
    <3> QED BY <2>1, <3>1, <3>2 DEF Lists
  <2> QED BY <2>2, <2>3
<1> QED BY <1>4, <1>6, <1>7, <1>8 DEF Lists, new, x

LabelInv ==
  /\ phase = "params" => labels = <<>> /\ jumps = <<>>
  /\ phase \in BodyPhases => /\ Lists(Unit.body, labels, "label", at)
                             /\ Lists(Unit.body, jumps, "jump", at)

LEMMA LabelInvStep == ScopesInv /\ LabelInv /\ [Next]_vars => LabelInv'
<1> SUFFICES ASSUME ScopesInv, LabelInv, [Next]_vars PROVE LabelInv'
  OBVIOUS
<1>1. CASE \/ Expression \/ CheckValue \/ Return \/ OpenBlock \/ CloseBlock \/ ChangeState
           \/ Jump \/ Label
  <2>1. phase = "value" => at <= Len(Unit.body) /\ Item.op = "decl"
    BY DEF ScopesInv, PlaceInv
  <2>2. /\ phase \in BodyPhases /\ at <= Len(Unit.body) /\ phase' = "body" /\ at' = at + 1
        /\ UNCHANGED <<script, unit>>
    BY <1>1, <2>1 DEF OpenBlock, CloseBlock, Expression, CheckValue, Jump, Label, ChangeState,
                      Return, Forward, InBody, BodyPhases
  <2>3. Unit' = Unit /\ at \in Nat \ {0} /\ Item = Unit.body[at] /\ Item \in Items
    BY <2>2, SameUnit, BodyContext DEF ScopesInv, PlaceInv
  <2>4. Lists(Unit.body, labels, "label", at) /\ Lists(Unit.body, jumps, "jump", at)
    BY <2>2 DEF LabelInv
  <2>5. CASE ~Jump /\ ~Label
    <3>1. Item.op \notin {"label", "jump"} /\ UNCHANGED <<labels, jumps>>
      BY <1>1, <2>1, <2>5 DEF OpenBlock, CloseBlock, Expression, CheckValue, ChangeState, Return, InBody
    <3>2. Lists(Unit.body, labels, "label", at + 1) /\ Lists(Unit.body, jumps, "jump", at + 1)
      BY <2>3, <2>4, <3>1, ListsSkip
    <3> QED BY <2>2, <2>3, <3>1, <3>2 DEF LabelInv
  <2>6. CASE Label
    <3>1. /\ Item.op = "label" /\ UNCHANGED jumps
          /\ labels' = <<[name |-> Item.name, at |-> at]>> \o labels
      BY <2>6 DEF Label, InBody
    <3>2. Item.name \in Names
      BY <2>3, <3>1 DEF Items
    <3>3. Lists(Unit.body, labels', "label", at + 1)
      BY <2>3, <2>4, <3>1, <3>2, ListsAdd
    <3>4. Lists(Unit.body, jumps, "jump", at + 1)
      BY <2>3, <2>4, <3>1, ListsSkip
    <3> QED BY <2>2, <2>3, <3>1, <3>3, <3>4 DEF LabelInv
  <2>7. CASE Jump
    <3>1. /\ Item.op = "jump" /\ UNCHANGED labels
          /\ jumps' = <<[name |-> Item.name, at |-> at]>> \o jumps
      BY <2>7 DEF Jump, InBody
    <3>2. Item.name \in Names
      BY <2>3, <3>1 DEF Items
    <3>3. Lists(Unit.body, jumps', "jump", at + 1)
      BY <2>3, <2>4, <3>1, <3>2, ListsAdd
    <3>4. Lists(Unit.body, labels, "label", at + 1)
      BY <2>3, <2>4, <3>1, ListsSkip
    <3> QED BY <2>2, <2>3, <3>1, <3>3, <3>4 DEF LabelInv
  <2> QED BY <2>5, <2>6, <2>7
<1>2. CASE DeclareLocal
  <2>1. /\ UNCHANGED <<script, unit, at, labels, jumps>>
        /\ phase = "body" /\ phase' = "value"
    BY <1>2 DEF DeclareLocal, InBody
  <2>2. Unit' = Unit
    BY <2>1, SameUnit
  <2> QED BY <2>1, <2>2 DEF LabelInv, BodyPhases
<1>3. CASE EnterUnit
  <2>1. phase' = "params" /\ labels' = <<>> /\ jumps' = <<>>
    BY <1>3 DEF EnterUnit, Begin
  <2> QED BY <2>1 DEF LabelInv, BodyPhases
<1>4. CASE DeclareParam
  <2>1. phase = "params" /\ phase' = "params" /\ UNCHANGED <<labels, jumps>>
    BY <1>4 DEF DeclareParam, Forward
  <2> QED BY <2>1 DEF LabelInv, BodyPhases
<1>5. CASE StartBody
  <2>1. phase = "params" /\ phase' = "body" /\ at' = 1 /\ UNCHANGED <<labels, jumps>>
    BY <1>5 DEF StartBody, Begin
  <2>2. labels' = <<>> /\ jumps' = <<>>
    BY <2>1 DEF LabelInv
  <2> QED BY <2>1, <2>2, ListsNothing DEF LabelInv
<1>6. CASE UNCHANGED vars
  <2>1. UNCHANGED <<script, phase, unit, at, labels, jumps>>
    BY <1>6 DEF vars
  <2>2. Unit' = Unit
    BY <2>1, SameUnit
  <2> QED BY <2>1, <2>2 DEF LabelInv
<1>7. CASE \/ DeclareGlobal \/ StartInitialisers \/ CheckInitialiser \/ StartFunctions
           \/ DeclareFunction \/ StartStates \/ DeclareState \/ StartUnits
           \/ LeaveUnit \/ ReportUnused
  <2>1. phase' \in TopPhases \cup {"enter"}
    BY <1>7 DEF DeclareGlobal, StartInitialisers, CheckInitialiser, StartFunctions, DeclareFunction,
                StartStates, DeclareState, StartUnits, LeaveUnit, ReportUnused, Forward, Begin,
                NextUnit, TopPhases
  <2> QED BY <2>1 DEF LabelInv, TopPhases, BodyPhases
<1> QED BY <1>1, <1>2, <1>3, <1>4, <1>5, <1>6, <1>7 DEF Next

LEMMA LabelInvAlways == Spec => []LabelInv
<1>1. Init => LabelInv
  BY DEF Init, LabelInv, BodyPhases
<1>2. ScopesInv /\ LabelInv /\ [Next]_vars => LabelInv'
  BY LabelInvStep
<1> QED BY <1>1, <1>2, ScopesInvAlways, PTL DEF Spec

-----------------------------------------------------------------------------
(* The functions and events that have been left, and the jumps and labels  *)
(* in a body that the text says are wrong.                                 *)
Left(u) == u \in DOMAIN Units /\ (Ended \/ u < unit)

Target(u, i, j) == Units[u].body[j].op = "label" /\ Units[u].body[j].name = Units[u].body[i].name
Lost(u, i)  == Units[u].body[i].op = "jump" /\ \A j \in DOMAIN Units[u].body : ~Target(u, i, j)
Again(u, i) == Units[u].body[i].op = "label" /\ \E j \in DOMAIN Units[u].body : Target(u, i, j) /\ j > i

LostAt(n, u, i)  == i \in DOMAIN Units[u].body /\ Lost(u, i) /\ n = Units[u].body[i].name
AgainAt(n, u, i) == i \in DOMAIN Units[u].body /\ Again(u, i) /\ n = Units[u].body[i].name

JumpInv ==
  \A n, u, i : /\ ErrorAt("no label", n, u, i) <=> Left(u) /\ LostAt(n, u, i)
               /\ ErrorAt("duplicate label", n, u, i) <=> Left(u) /\ AgainAt(n, u, i)

LEMMA LeftStays ==
  ASSUME ScopesInv, [Next]_vars, ~LeaveUnit, NEW u
  PROVE  Left(u)' <=> Left(u)
<1>1. /\ Len(Units) \in Nat /\ DOMAIN Units = 1 .. Len(Units) /\ unit \in 0 .. Len(Units)
      /\ phase \in UnitPhases <=> unit # 0
  BY UnitsAre DEF ScopesInv, PlaceInv
<1>2. Units' = Units
  BY ErrorsGrow DEF Units
<1>3. CASE StartUnits
  <2>1. unit = 0 /\ ~Ended /\ NextUnit
    BY <1>1, <1>3 DEF StartUnits, Ended, UnitPhases, BodyPhases
  <2>2. ~Left(u)
    BY <1>1, <2>1 DEF Left
  <2>3. CASE unit < Len(Units)
    <3>1. unit' = 1 /\ ~Ended'
      BY <2>1, <2>3 DEF NextUnit, Begin, Ended
    <3> QED BY <1>1, <1>2, <2>2, <3>1 DEF Left
  <2>4. CASE ~(unit < Len(Units))
    BY <1>1, <1>2, <2>1, <2>2, <2>4 DEF Left
  <2> QED BY <2>3, <2>4
<1>4. CASE ReportUnused
  <2>1. Ended /\ Ended'
    BY <1>4 DEF ReportUnused, Begin, Ended
  <2> QED BY <1>2, <2>1 DEF Left
<1>5. CASE ~StartUnits /\ ~ReportUnused
  <2>1. unit' = unit /\ (Ended' <=> Ended)
    <3>1. CASE PlainSteps \/ RefSteps
      BY <1>1, <1>5, <3>1
         DEF PlainSteps, RefSteps, Ended, DeclareGlobal, StartInitialisers, CheckInitialiser, StartFunctions,
             DeclareFunction, StartStates, DeclareState, EnterUnit, DeclareParam, StartBody,
             OpenBlock, CloseBlock, Expression, DeclareLocal, CheckValue, Jump, Label, ChangeState,
             Return, Begin, Forward, InBody, UnitPhases, BodyPhases
    <3>2. CASE UNCHANGED vars
      BY <3>2 DEF vars, Ended
    <3> QED BY <1>5, <3>1, <3>2 DEF Next, PlainSteps, RefSteps
  <2> QED BY <1>2, <2>1 DEF Left
<1> QED BY <1>3, <1>4, <1>5

LEMMA LeftGrows ==
  ASSUME ScopesInv, LeaveUnit, NEW u
  PROVE  /\ Left(u)' <=> Left(u) \/ u = unit
         /\ unit \in DOMAIN Units /\ at = Len(Unit.body) + 1
<1>1. /\ Len(Units) \in Nat /\ DOMAIN Units = 1 .. Len(Units) /\ unit \in 0 .. Len(Units)
      /\ phase \in UnitPhases <=> unit # 0
      /\ phase \in BodyPhases => at <= Len(Unit.body) + 1
      /\ at \in Nat
  BY UnitsAre DEF ScopesInv, PlaceInv
<1>2. Units' = Units /\ NextUnit /\ phase = "body" /\ at > Len(Unit.body)
  BY DEF Units, LeaveUnit
<1>3. unit \in DOMAIN Units /\ ~Ended
  BY <1>1, <1>2 DEF UnitPhases, BodyPhases, Ended
<1>4. at = Len(Unit.body) + 1
  <2>1. Len(Unit.body) \in Nat
    BY <1>3, UnitsAre DEF Unit
  <2> QED BY <1>1, <1>2, <2>1 DEF BodyPhases
<1>5. CASE unit < Len(Units)
  <2>1. unit' = unit + 1 /\ ~Ended'
    BY <1>2, <1>5 DEF NextUnit, Begin, Ended
  <2>2. u \in DOMAIN Units => (u < unit + 1 <=> u < unit \/ u = unit)
    BY <1>1
  <2> QED BY <1>2, <1>3, <1>4, <2>1, <2>2 DEF Left
<1>6. CASE ~(unit < Len(Units))
  <2>1. Ended'
    BY <1>2, <1>6 DEF NextUnit, Begin, Ended
  <2>2. u \in DOMAIN Units => u < unit \/ u = unit
    BY <1>1, <1>6
  <2> QED BY <1>2, <1>3, <1>4, <2>1, <2>2 DEF Left
<1> QED BY <1>5, <1>6

(* At the end of a body the lists say which jumps are lost and which       *)
(* labels come again.                                                      *)
LEMMA ListsDecide ==
  ASSUME ScopesInv, LabelInv, LeaveUnit, NEW n, NEW i
  PROVE  /\ (\E j \in LostJumps : j.name = n /\ j.at = i) <=> LostAt(n, unit, i)
         /\ (\E l \in DuplicateLabels : l.name = n /\ l.at = i) <=> AgainAt(n, unit, i)
<1> DEFINE body == Units[unit].body
<1>1. unit \in DOMAIN Units /\ at = Len(Unit.body) + 1 /\ phase = "body"
  BY LeftGrows DEF LeaveUnit
<1>2. /\ Unit.body = body /\ DOMAIN body = 1 .. Len(body) /\ Len(body) \in Nat
      /\ 1 .. at - 1 = 1 .. Len(body)
  <2>1. Unit.body = body /\ DOMAIN body = 1 .. Len(body) /\ Len(body) \in Nat
    BY <1>1, UnitsAre DEF Unit
  <2> QED BY <1>1, <2>1
<1>3. Lists(body, labels, "label", at) /\ Lists(body, jumps, "jump", at)
  BY <1>1, <1>2 DEF LabelInv, BodyPhases
<1>4. \A j : Target(unit, i, j) <=> body[j].op = "label" /\ body[j].name = body[i].name
  BY DEF Target
<1>5. /\ LostAt(n, unit, i) <=> /\ i \in DOMAIN body /\ body[i].op = "jump" /\ n = body[i].name
                                /\ \A j \in DOMAIN body : ~(body[j].op = "label" /\ body[j].name = n)
      /\ AgainAt(n, unit, i) <=> /\ i \in DOMAIN body /\ body[i].op = "label" /\ n = body[i].name
                                 /\ \E j \in DOMAIN body : body[j].op = "label" /\ body[j].name = n /\ j > i
  BY <1>4 DEF LostAt, Lost, AgainAt, Again
<1> HIDE DEF body
<1>6. /\ \A m \in DOMAIN labels : /\ labels[m].at \in DOMAIN body
                                  /\ body[labels[m].at].op = "label" /\ body[labels[m].at].name = labels[m].name
      /\ \A j \in DOMAIN body : body[j].op = "label" => \E m \in DOMAIN labels : labels[m].at = j
      /\ \A m \in DOMAIN jumps : /\ jumps[m].at \in DOMAIN body
                                 /\ body[jumps[m].at].op = "jump" /\ body[jumps[m].at].name = jumps[m].name
      /\ \A j \in DOMAIN body : body[j].op = "jump" => \E m \in DOMAIN jumps : jumps[m].at = j
  BY <1>2, <1>3 DEF Lists
<1>7. /\ labels \in Seq(Marked) /\ DOMAIN labels = 1 .. Len(labels) /\ Len(labels) \in Nat
      /\ \A l, m \in DOMAIN labels : l < m => labels[l].at > labels[m].at
  BY <1>3 DEF Lists
<1>8. ASSUME NEW j \in LostJumps, j.name = n, j.at = i
      PROVE  LostAt(n, unit, i)
  <2>1. PICK m \in DOMAIN jumps : j = jumps[m]
    BY <1>8 DEF LostJumps
  <2>2. \A l \in DOMAIN labels : labels[l].name # n
    BY <1>8 DEF LostJumps
  <2>3. \A k \in DOMAIN body : ~(body[k].op = "label" /\ body[k].name = n)
    BY <1>6, <2>2
  <2> QED BY <1>5, <1>6, <1>8, <2>1, <2>3
<1>9. ASSUME LostAt(n, unit, i)
      PROVE  \E j \in LostJumps : j.name = n /\ j.at = i
  <2>1. PICK m \in DOMAIN jumps : jumps[m].at = i
    BY <1>5, <1>6, <1>9
  <2>2. jumps[m].name = n
    BY <1>5, <1>6, <1>9, <2>1
  <2>3. \A l \in DOMAIN labels : labels[l].name # n
    BY <1>5, <1>6, <1>9
  <2>4. jumps[m] \in LostJumps
    BY <2>2, <2>3 DEF LostJumps
  <2> QED BY <2>1, <2>2, <2>4
<1>10. ASSUME NEW l \in DuplicateLabels, l.name = n, l.at = i
       PROVE  AgainAt(n, unit, i)
  <2>1. PICK m \in DOMAIN labels : l = labels[m] /\ \E k \in 1 .. m - 1 : labels[k].name = labels[m].name
    BY <1>10 DEF DuplicateLabels
  <2>2. PICK k \in 1 .. m - 1 : labels[k].name = labels[m].name
    BY <2>1
  <2>3. k \in DOMAIN labels /\ k < m
    BY <1>7
  <2>4. labels[k].at > labels[m].at
    BY <1>7, <2>3
  <2> QED BY <1>5, <1>6, <1>10, <2>1, <2>2, <2>3, <2>4
<1>11. ASSUME AgainAt(n, unit, i)
       PROVE  \E l \in DuplicateLabels : l.name = n /\ l.at = i
  <2>1. PICK j \in DOMAIN body : body[j].op = "label" /\ body[j].name = n /\ j > i
    BY <1>5, <1>11
  <2>2. PICK k \in DOMAIN labels : labels[k].at = j
    BY <1>6, <2>1
  <2>3. i \in DOMAIN body /\ body[i].op = "label" /\ body[i].name = n
    BY <1>5, <1>11
  <2>4. PICK m \in DOMAIN labels : labels[m].at = i
    BY <1>6, <2>3
  <2>5. labels[k].name = n /\ labels[m].name = n
    BY <1>6, <2>1, <2>2, <2>3, <2>4
  <2>6. k \in Nat /\ m \in Nat /\ i \in Nat /\ j \in Nat
    BY <1>2, <1>7, <2>3
  <2>7. ~(m < k) /\ m # k
    <3>1. m < k => i > j
      BY <1>7, <2>2, <2>4
    <3> QED BY <2>1, <2>2, <2>4, <2>6, <3>1
  <2>8. k \in 1 .. m - 1
    BY <1>7, <2>6, <2>7
  <2>9. labels[m] \in DuplicateLabels
    BY <2>5, <2>8 DEF DuplicateLabels
  <2> QED BY <2>4, <2>5, <2>9
<1> QED BY <1>8, <1>9, <1>10, <1>11

LEMMA JumpText ==
  ASSUME UNCHANGED script, NEW n, NEW u, NEW i
  PROVE  /\ LostAt(n, u, i)' <=> LostAt(n, u, i)
         /\ AgainAt(n, u, i)' <=> AgainAt(n, u, i)
<1>1. Units' = Units
  BY DEF Units
<1> QED BY <1>1 DEF LostAt, AgainAt, Lost, Again, Target

LEMMA JumpsLeft ==
  ASSUME ScopesInv, LabelInv, JumpInv, LeaveUnit
  PROVE  JumpInv'
<1> SUFFICES ASSUME NEW n, NEW u, NEW i
             PROVE  /\ ErrorAt("no label", n, u, i)' <=> Left(u)' /\ LostAt(n, u, i)'
                    /\ ErrorAt("duplicate label", n, u, i)' <=> Left(u)' /\ AgainAt(n, u, i)'
  BY DEF JumpInv
<1> DEFINE blame(w, x) == [Faulty(w, x.name) EXCEPT !.at = x.at]
<1>1. /\ UNCHANGED script
      /\ errors' = errors \cup {blame("duplicate label", l) : l \in DuplicateLabels}
                          \cup {blame("no label", j) : j \in LostJumps}
  BY DEF LeaveUnit
<1>2. ASSUME NEW w, NEW x
      PROVE  /\ blame(w, x).what = w /\ blame(w, x).name = x.name
             /\ blame(w, x).unit = unit /\ blame(w, x).at = x.at
  BY DEF Faulty
<1> HIDE DEF blame
<1>3. /\ ErrorAt("no label", n, u, i)' <=> ErrorAt("no label", n, u, i)
            \/ (u = unit /\ \E j \in LostJumps : j.name = n /\ j.at = i)
      /\ ErrorAt("duplicate label", n, u, i)' <=> ErrorAt("duplicate label", n, u, i)
            \/ (u = unit /\ \E l \in DuplicateLabels : l.name = n /\ l.at = i)
  <2>1. ASSUME ErrorAt("no label", n, u, i)', ~ErrorAt("no label", n, u, i)
        PROVE  u = unit /\ \E j \in LostJumps : j.name = n /\ j.at = i
    <3>1. PICK e \in errors' : e.what = "no label" /\ e.name = n /\ e.unit = u /\ e.at = i
      BY <2>1 DEF ErrorAt
    <3>2. e \notin errors
      BY <2>1, <3>1 DEF ErrorAt
    <3>3. ASSUME NEW l \in DuplicateLabels
          PROVE  e # blame("duplicate label", l)
      <4>1. blame("duplicate label", l).what = "duplicate label"
        BY <1>2
      <4> QED BY ONLY <3>1, <4>1
    <3>4. PICK j \in LostJumps : e = blame("no label", j)
      BY <1>1, <3>2, <3>3
    <3> QED BY <1>2, <3>1, <3>4
  <2>2. ASSUME ErrorAt("duplicate label", n, u, i)', ~ErrorAt("duplicate label", n, u, i)
        PROVE  u = unit /\ \E l \in DuplicateLabels : l.name = n /\ l.at = i
    <3>1. PICK e \in errors' : e.what = "duplicate label" /\ e.name = n /\ e.unit = u /\ e.at = i
      BY <2>2 DEF ErrorAt
    <3>2. e \notin errors
      BY <2>2, <3>1 DEF ErrorAt
    <3>3. ASSUME NEW j \in LostJumps
          PROVE  e # blame("no label", j)
      <4>1. blame("no label", j).what = "no label"
        BY <1>2
      <4> QED BY ONLY <3>1, <4>1
    <3>4. PICK l \in DuplicateLabels : e = blame("duplicate label", l)
      BY <1>1, <3>2, <3>3
    <3> QED BY <1>2, <3>1, <3>4
  <2>3. ASSUME NEW w, ErrorAt(w, n, u, i)
        PROVE  ErrorAt(w, n, u, i)'
    BY <1>1, <2>3 DEF ErrorAt
  <2>4. ASSUME u = unit, NEW j \in LostJumps, j.name = n, j.at = i
        PROVE  ErrorAt("no label", n, u, i)'
    <3>1. PICK e : e = blame("no label", j)
      OBVIOUS
    <3>2. e \in errors'
      BY <1>1, <3>1
    <3>3. e.what = "no label" /\ e.name = n /\ e.unit = u /\ e.at = i
      BY <1>2, <2>4, <3>1
    <3> QED BY <3>2, <3>3 DEF ErrorAt
  <2>5. ASSUME u = unit, NEW l \in DuplicateLabels, l.name = n, l.at = i
        PROVE  ErrorAt("duplicate label", n, u, i)'
    <3>1. PICK e : e = blame("duplicate label", l)
      OBVIOUS
    <3>2. e \in errors'
      BY <1>1, <3>1
    <3>3. e.what = "duplicate label" /\ e.name = n /\ e.unit = u /\ e.at = i
      BY <1>2, <2>5, <3>1
    <3> QED BY <3>2, <3>3 DEF ErrorAt
  <2> QED BY <2>1, <2>2, <2>3, <2>4, <2>5
<1>4. Left(u)' <=> Left(u) \/ u = unit
  BY LeftGrows
<1>5. /\ LostAt(n, u, i)' <=> LostAt(n, u, i)
      /\ AgainAt(n, u, i)' <=> AgainAt(n, u, i)
  BY <1>1, JumpText
<1>6. u = unit => /\ (\E j \in LostJumps : j.name = n /\ j.at = i) <=> LostAt(n, u, i)
                  /\ (\E l \in DuplicateLabels : l.name = n /\ l.at = i) <=> AgainAt(n, u, i)
  BY ListsDecide
<1>7. /\ ErrorAt("no label", n, u, i) <=> Left(u) /\ LostAt(n, u, i)
      /\ ErrorAt("duplicate label", n, u, i) <=> Left(u) /\ AgainAt(n, u, i)
  BY DEF JumpInv
<1>8. CASE u = unit
  BY ONLY <1>3, <1>4, <1>5, <1>6, <1>7, <1>8
<1>9. CASE u # unit
  BY ONLY <1>3, <1>4, <1>5, <1>7, <1>9
<1> QED BY <1>8, <1>9

LEMMA JumpInvStep == ScopesInv /\ LabelInv /\ JumpInv /\ [Next]_vars => JumpInv'
<1> SUFFICES ASSUME ScopesInv, LabelInv, JumpInv, [Next]_vars PROVE JumpInv'
  OBVIOUS
<1>1. CASE LeaveUnit
  BY <1>1, JumpsLeft
<1>2. CASE ~LeaveUnit
  <2>1. \A e \in errors' : e \in errors \/ e.what \notin JumpWhats
    <3>1. CASE PlainSteps
      <4>1. \A e \in errors' : e \in errors \/ e.what \in OtherWhats
        BY <3>1, PlainReports
      <4> QED BY <4>1 DEF OtherWhats, JumpWhats
    <3>2. CASE RefSteps
      <4>1. PICK refs, others : CheckRefs(refs, others) /\ \A e \in others : e.what = "return"
        BY <3>2, RefStepsCheck
      <4>2. \A e \in errors' : e \in errors \/ e.what \in RefWhats \cup {"return"}
        BY <4>1, RefReports
      <4> QED BY <4>2 DEF RefWhats, JumpWhats
    <3>3. CASE ReportUnused \/ UNCHANGED vars
      BY <3>3 DEF ReportUnused, vars
    <3> QED BY <1>2, <3>1, <3>2, <3>3 DEF Next, PlainSteps, RefSteps
  <2>2. errors \subseteq errors' /\ UNCHANGED script
    BY ErrorsGrow
  <2>3. \A w \in JumpWhats : \A n, u, i : ErrorAt(w, n, u, i)' <=> ErrorAt(w, n, u, i)
    BY <2>1, <2>2 DEF ErrorAt
  <2>4. \A u : Left(u)' <=> Left(u)
    BY <1>2, LeftStays
  <2>5. \A n, u, i : /\ LostAt(n, u, i)' <=> LostAt(n, u, i)
                     /\ AgainAt(n, u, i)' <=> AgainAt(n, u, i)
    BY <2>2, JumpText
  <2>6. "no label" \in JumpWhats /\ "duplicate label" \in JumpWhats
    BY DEF JumpWhats
  <2> QED BY <2>3, <2>4, <2>5, <2>6 DEF JumpInv
<1> QED BY <1>1, <1>2

LEMMA JumpInvAlways == Spec => []JumpInv
<1>1. Init => JumpInv
  <2> SUFFICES ASSUME Init PROVE JumpInv
    OBVIOUS
  <2>1. /\ errors = {} /\ unit = 0 /\ ~Ended
        /\ DOMAIN Units = 1 .. Len(Units) /\ Len(Units) \in Nat
    BY ScopesInvInit, UnitsAre DEF Init, Ended
  <2>2. \A u \in DOMAIN Units : ~(u < unit)
    BY <2>1
  <2> QED BY <2>1, <2>2 DEF JumpInv, ErrorAt, Left
<1>2. ScopesInv /\ LabelInv /\ JumpInv /\ [Next]_vars => JumpInv'
  BY JumpInvStep
<1> QED BY <1>1, <1>2, ScopesInvAlways, LabelInvAlways, PTL DEF Spec

(* A jump reaches the labels of its own function or event, before or after *)
(* it, and no others; of labels of one name all but the last are blamed    *)
(* (sem.c:702-733).                                                        *)
THEOREM JumpsInside == Spec => []JumpsStayInside
<1>1. ASSUME ScopesInv, JumpInv, Done
      PROVE  LET target(p, q) == /\ ItemAt(q).op = "label" /\ p[1] = q[1] /\ ItemAt(q).name = ItemAt(p).name
                 complaint(what, p) == [what |-> what, unit |-> p[1], at |-> p[2], name |-> ItemAt(p).name]
             IN  Complaints(errors, {"no label", "duplicate label"}) =
                   {complaint("no label", p) :
                      p \in {p \in Places : ItemAt(p).op = "jump" /\ \A q \in Places : ~target(p, q)}}
                   \cup {complaint("duplicate label", p) :
                      p \in {p \in Places : /\ ItemAt(p).op = "label"
                                            /\ \E q \in Places : target(p, q) /\ q[2] > p[2]}}
  <2> DEFINE target(p, q) == /\ ItemAt(q).op = "label" /\ p[1] = q[1] /\ ItemAt(q).name = ItemAt(p).name
             complaint(what, p) == [what |-> what, unit |-> p[1], at |-> p[2], name |-> ItemAt(p).name]
             lost(p) == ItemAt(p).op = "jump" /\ \A q \in Places : ~target(p, q)
             again(p) == ItemAt(p).op = "label" /\ \E q \in Places : target(p, q) /\ q[2] > p[2]
             hit(what, p) == (what = "no label" /\ lost(p)) \/ (what = "duplicate label" /\ again(p))
  <2>1. \A p : p \in Places <=> \E u \in DOMAIN Units : \E i \in DOMAIN Units[u].body : p = <<u, i>>
    BY DEF Places
  <2>2. \A u : Left(u) <=> u \in DOMAIN Units
    BY <1>1 DEF Left, Ended, Done
  <2>3. ASSUME NEW p \in Places
        PROVE  /\ p[1] \in DOMAIN Units /\ p[2] \in DOMAIN Units[p[1]].body
               /\ lost(p) <=> Lost(p[1], p[2])
               /\ again(p) <=> Again(p[1], p[2])
    <3>1. PICK u \in DOMAIN Units : \E i \in DOMAIN Units[u].body : p = <<u, i>>
      BY <2>1
    <3>2. PICK i \in DOMAIN Units[u].body : p = <<u, i>>
      BY <3>1
    <3>3. ASSUME NEW q \in Places, target(p, q)
          PROVE  q[2] \in DOMAIN Units[u].body /\ Target(u, i, q[2])
      <4>1. PICK v \in DOMAIN Units : \E j \in DOMAIN Units[v].body : q = <<v, j>>
        BY <2>1
      <4>2. PICK j \in DOMAIN Units[v].body : q = <<v, j>>
        BY <4>1
      <4> QED BY <3>2, <3>3, <4>2 DEF Target, ItemAt
    <3>4. ASSUME NEW j \in DOMAIN Units[u].body, Target(u, i, j)
          PROVE  \E q \in Places : target(p, q) /\ q[2] = j
      <4>1. PICK q : q = <<u, j>>
        OBVIOUS
      <4>2. q \in Places
        BY <2>1, <4>1
      <4>3. target(p, q) /\ q[2] = j
        BY <3>2, <3>4, <4>1 DEF Target, ItemAt
      <4> QED BY <4>2, <4>3
    <3>5. ItemAt(p) = Units[u].body[i] /\ p[1] = u /\ p[2] = i
      BY <3>2 DEF ItemAt
    <3>6. lost(p) <=> Lost(u, i)
      <4> HIDE DEF target
      <4> QED BY <3>3, <3>4, <3>5 DEF Lost
    <3>7. again(p) <=> Again(u, i)
      <4> HIDE DEF target
      <4> QED BY <3>3, <3>4, <3>5 DEF Again
    <3> HIDE DEF lost, again
    <3> QED BY <3>2, <3>5, <3>6, <3>7
  <2>4. ASSUME NEW u \in DOMAIN Units, NEW i \in DOMAIN Units[u].body
        PROVE  \E p \in Places : p[1] = u /\ p[2] = i
    <3>1. PICK p : p = <<u, i>>
      OBVIOUS
    <3> QED BY <2>1, <3>1
  <2>5. ASSUME NEW p \in Places
        PROVE  ItemAt(p) = Units[p[1]].body[p[2]]
    BY DEF ItemAt
  <2> HIDE DEF lost, again
  <2>6. ASSUME NEW c \in Complaints(errors, {"no label", "duplicate label"})
        PROVE  \/ \E p \in Places : lost(p) /\ c = complaint("no label", p)
               \/ \E p \in Places : again(p) /\ c = complaint("duplicate label", p)
    <3>1. PICK e \in errors : /\ e.what \in {"no label", "duplicate label"}
                              /\ c = [what |-> e.what, unit |-> e.unit, at |-> e.at, name |-> e.name]
      BY <2>6 DEF Complaints
    <3>2. PICK w, n, u, i : w = e.what /\ n = e.name /\ u = e.unit /\ i = e.at
      OBVIOUS
    <3>3. ErrorAt(w, n, u, i)
      BY <3>2 DEF ErrorAt
    <3>4. \/ w = "no label" /\ Left(u) /\ LostAt(n, u, i)
          \/ w = "duplicate label" /\ Left(u) /\ AgainAt(n, u, i)
      BY <1>1, <3>1, <3>2, <3>3 DEF JumpInv
    <3>5. u \in DOMAIN Units /\ i \in DOMAIN Units[u].body /\ n = Units[u].body[i].name
      BY <2>2, <3>4 DEF LostAt, AgainAt
    <3>6. PICK p \in Places : p[1] = u /\ p[2] = i
      BY <2>4, <3>5
    <3>7. ItemAt(p).name = n
      BY <2>5, <3>5, <3>6
    <3>8. c = complaint(w, p)
      BY <3>1, <3>2, <3>6, <3>7
    <3>9. \/ w = "no label" /\ lost(p)
          \/ w = "duplicate label" /\ again(p)
      BY <2>3, <3>4, <3>6 DEF LostAt, AgainAt
    <3> HIDE DEF complaint
    <3> QED BY <3>8, <3>9
  <2>7. ASSUME NEW p \in Places, NEW w, hit(w, p)
        PROVE  complaint(w, p) \in Complaints(errors, {"no label", "duplicate label"})
    <3>1. PICK u, i, n : u = p[1] /\ i = p[2] /\ n = ItemAt(p).name
      OBVIOUS
    <3>2. u \in DOMAIN Units /\ i \in DOMAIN Units[u].body /\ n = Units[u].body[i].name
      BY <2>3, <2>5, <3>1
    <3>3. \/ w = "no label" /\ LostAt(n, u, i)
          \/ w = "duplicate label" /\ AgainAt(n, u, i)
      BY <2>3, <2>7, <3>1, <3>2 DEF LostAt, AgainAt
    <3>4. ErrorAt(w, n, u, i)
      BY <1>1, <2>2, <3>2, <3>3 DEF JumpInv
    <3>5. PICK e \in errors : e.what = w /\ e.name = n /\ e.unit = u /\ e.at = i
      BY <3>4 DEF ErrorAt
    <3>6. complaint(w, p) = [what |-> e.what, unit |-> e.unit, at |-> e.at, name |-> e.name]
      BY <3>1, <3>5
    <3> QED BY <2>7, <3>5, <3>6 DEF Complaints
  <2> HIDE DEF complaint, hit
  <2>8. Complaints(errors, {"no label", "duplicate label"}) =
          {complaint("no label", p) : p \in {p \in Places : lost(p)}}
            \cup {complaint("duplicate label", p) : p \in {p \in Places : again(p)}}
    <3>1. ASSUME NEW c
          PROVE  c \in Complaints(errors, {"no label", "duplicate label"}) <=>
                   c \in {complaint("no label", p) : p \in {p \in Places : lost(p)}}
                           \cup {complaint("duplicate label", p) : p \in {p \in Places : again(p)}}
      <4>1. ASSUME c \in Complaints(errors, {"no label", "duplicate label"})
            PROVE  c \in {complaint("no label", p) : p \in {p \in Places : lost(p)}}
                           \cup {complaint("duplicate label", p) : p \in {p \in Places : again(p)}}
        <5>0. \/ \E p \in Places : lost(p) /\ c = complaint("no label", p)
              \/ \E p \in Places : again(p) /\ c = complaint("duplicate label", p)
          BY ONLY <2>6, <4>1
        <5>1. CASE \E p \in Places : lost(p) /\ c = complaint("no label", p)
          BY ONLY <5>1
        <5>2. CASE \E p \in Places : again(p) /\ c = complaint("duplicate label", p)
          BY ONLY <5>2
        <5> QED BY ONLY <5>0, <5>1, <5>2
      <4>2. ASSUME NEW p \in Places, lost(p), c = complaint("no label", p)
            PROVE  c \in Complaints(errors, {"no label", "duplicate label"})
        <5>1. PICK w : w = "no label"
          OBVIOUS
        <5>2. hit(w, p)
          BY ONLY <4>2, <5>1 DEF hit
        <5>3. complaint(w, p) \in Complaints(errors, {"no label", "duplicate label"})
          BY ONLY <2>7, <5>2
        <5> QED BY ONLY <4>2, <5>1, <5>3
      <4>3. ASSUME NEW p \in Places, again(p), c = complaint("duplicate label", p)
            PROVE  c \in Complaints(errors, {"no label", "duplicate label"})
        <5>1. PICK w : w = "duplicate label"
          OBVIOUS
        <5>2. hit(w, p)
          BY ONLY <4>3, <5>1 DEF hit
        <5>3. complaint(w, p) \in Complaints(errors, {"no label", "duplicate label"})
          BY ONLY <2>7, <5>2
        <5> QED BY ONLY <4>3, <5>1, <5>3
      <4> QED BY ONLY <4>1, <4>2, <4>3
    <3> QED BY <3>1
  <2> QED BY <2>8 DEF lost, again, complaint
<1>2. ScopesInv /\ JumpInv => JumpsStayInside
  BY <1>1 DEF JumpsStayInside
<1> QED BY <1>2, ScopesInvAlways, JumpInvAlways, PTL

-----------------------------------------------------------------------------
(* What holds of a script of which nothing has been reported so far.       *)
SameEvent(d, e) == Units[d].state = Units[e].state /\ Units[d].name = Units[e].name

EventGood(u) ==
  u > NF => HasSignature(Units[u]) /\ \A e \in NF + 1 .. u - 1 : ~SameEvent(e, u)

ParamsApart(k) ==
  \A p, q \in DOMAIN Unit.params : p < k /\ q < k /\ Unit.params[p] = Unit.params[q] => p = q

HeadInv ==
  errors = {} =>
    /\ phase \in UnitPhases \cup {"unused", "done"} => KnownState("default")
    /\ \A u : Left(u) => EventGood(u) /\ Distinct(Units[u].params)
    /\ phase \in {"params"} \cup BodyPhases => EventGood(unit)
    /\ phase \in BodyPhases => Distinct(Unit.params)
    /\ phase = "params" => ParamsApart(at)

(* A signature is found faulty unless it is one of the event's.            *)
LEMMA SignatureFound ==
  ASSUME NEW n, NEW types \in Seq(STRING), SignatureFaults(n, types) = {}
  PROVE  /\ n \in DOMAIN BuiltinEvents
         /\ \E i \in DOMAIN BuiltinEvents[n] :
              LET signature == BuiltinEvents[n][i]
              IN  /\ DOMAIN signature = DOMAIN types
                  /\ \A k \in DOMAIN signature : signature[k] \in {"void", types[k]}
<1> DEFINE table   == BuiltinEvents[n]
           fitting == {i \in DOMAIN table : Len(table[i]) = Len(types)}
           best    == CHOOSE i \in fitting : \A j \in fitting : i <= j
<1>1. n \in DOMAIN BuiltinEvents
  BY DEF SignatureFaults
<1>2. fitting # {}
  BY <1>1 DEF SignatureFaults
<1>3. \A i \in DOMAIN table[best] : table[best][i] \in {"void", types[i]}
  BY <1>1, <1>2 DEF SignatureFaults
<1>4. table \in Seq(Seq(STRING))
  BY <1>1, BuiltinsAssumption
<1> HIDE DEF table
<1>5. fitting \subseteq Nat /\ fitting \subseteq DOMAIN table
  BY <1>4
<1>6. best \in fitting
  <2> HIDE DEF fitting
  <2>1. \E i \in fitting : \A j \in fitting : i <= j
    BY <1>2, <1>5, LeastExists
  <2> QED BY <2>1
<1> HIDE DEF best
<1>7. best \in DOMAIN table /\ Len(table[best]) = Len(types)
  BY <1>6
<1>8. table[best] \in Seq(STRING)
  BY <1>4, <1>7
<1>9. DOMAIN table[best] = DOMAIN types
  BY <1>7, <1>8
<1> QED BY <1>1, <1>3, <1>7, <1>9 DEF table

LEMMA HeadText ==
  ASSUME UNCHANGED script
  PROVE  /\ NF' = NF /\ Units' = Units
         /\ KnownState("default")' <=> KnownState("default")
         /\ \A u : EventGood(u)' <=> EventGood(u)
         /\ \A u : Distinct(Units[u].params)' <=> Distinct(Units[u].params)
<1>1. NF' = NF /\ Units' = Units
  BY DEF NF, Units
<1>2. KnownState("default")' <=> KnownState("default")
  BY DEF KnownState
<1>3. \A u : EventGood(u)' <=> EventGood(u)
  BY <1>1 DEF EventGood, SameEvent, HasSignature
<1>4. \A u : Distinct(Units[u].params)' <=> Distinct(Units[u].params)
  BY <1>1 DEF Distinct
<1> QED BY <1>1, <1>2, <1>3, <1>4

LEMMA HeadEnter ==
  ASSUME ScopesInv, HeadInv, EnterUnit, errors' = {}
  PROVE  HeadInv'
<1>1. /\ errors = {} /\ UNCHANGED <<script, unit>> /\ phase = "enter" /\ phase' = "params" /\ at' = 1
      /\ {Faulty("duplicate event", Unit.name) :
            e \in {e \in Len(script.funcs) + 1 .. unit - 1 :
                     InEvent /\ Units[e].state = Unit.state /\ Units[e].name = Unit.name}} = {}
      /\ {Faulty(what, Unit.name) : what \in IF InEvent THEN SignatureFaults(Unit.name, Unit.types) ELSE {}} = {}
  BY DEF EnterUnit, Begin
<1>2. /\ unit \in DOMAIN Units /\ DOMAIN Units = 1 .. Len(Units) /\ Len(Units) \in Nat
      /\ unit \in Nat /\ NF \in Nat /\ Unit = Units[unit]
      /\ Unit.params \in Seq(Names)
  <2>1. script \in Script /\ unit # 0
    BY <1>1 DEF ScopesInv, PlaceInv, UnitPhases
  <2>2. NF \in Nat
    BY <2>1, TopNamesAre
  <2>3. /\ unit \in DOMAIN Units /\ DOMAIN Units = 1 .. Len(Units) /\ Len(Units) \in Nat
        /\ \A u \in DOMAIN Units : Units[u].params \in Seq(Names)
    BY <2>1, UnitsAre
  <2> QED BY <2>2, <2>3 DEF Unit
<1>3. EventGood(unit)
  <2> SUFFICES ASSUME unit > NF
               PROVE  HasSignature(Unit) /\ \A e \in NF + 1 .. unit - 1 : ~SameEvent(e, unit)
    BY <1>2 DEF EventGood
  <2>1. InEvent
    BY DEF InEvent, NF
  <2>2. \A e \in NF + 1 .. unit - 1 : ~SameEvent(e, unit)
    BY <1>1, <1>2, <2>1 DEF SameEvent, NF
  <2>3. SignatureFaults(Unit.name, Unit.types) = {}
    BY <1>1, <2>1
  <2>4. Unit \in Handler
    <3>1. script.funcs \in Seq(Function) /\ script.events \in Seq(Handler)
      BY DEF ScopesInv, PlaceInv, Script
    <3>2. Units = script.funcs \o script.events
      BY DEF Units
    <3>3. \A u \in DOMAIN Units : u > NF => Units[u] \in Handler
      <4> DEFINE F == script.funcs
                 E == script.events
      <4>1. F \in Seq(Function) /\ E \in Seq(Handler) /\ NF = Len(F) /\ Units = F \o E
        BY <3>1, <3>2 DEF NF
      <4> HIDE DEF F, E
      <4> QED BY ONLY <4>1
    <3> QED BY <1>2, <3>3
  <2>5. Unit.types \in Seq(STRING)
    BY <2>4 DEF Handler
  <2>6. HasSignature(Unit)
    BY <2>3, <2>5, SignatureFound DEF HasSignature
  <2> QED BY <2>2, <2>6
<1>4. \A u : Left(u)' <=> Left(u)
  BY LeftStays, <1>1 DEF Next, LeaveUnit
<1>5. ParamsApart(at)'
  <2>1. Unit' = Unit
    BY <1>1, SameUnit
  <2>2. \A p \in DOMAIN Unit.params : ~(p < 1)
    BY <1>2
  <2> QED BY <1>1, <2>1, <2>2 DEF ParamsApart
<1>6. KnownState("default") /\ \A u : Left(u) => EventGood(u) /\ Distinct(Units[u].params)
  BY <1>1 DEF HeadInv, UnitPhases
<1>7. EventGood(unit)'
  BY <1>1, <1>3, HeadText DEF EventGood, SameEvent, HasSignature
<1>8. \A u : Left(u)' => EventGood(u)' /\ Distinct(Units[u].params)'
  BY <1>1, <1>4, <1>6, HeadText
<1>9. KnownState("default")'
  BY <1>1, <1>6, HeadText
<1> QED BY <1>1, <1>5, <1>7, <1>8, <1>9 DEF HeadInv, BodyPhases

LEMMA HeadParams ==
  ASSUME ScopesInv, InnerInv, HeadInv, DeclareParam \/ StartBody, errors' = {}
  PROVE  HeadInv'
<1>1. /\ errors = {} /\ UNCHANGED <<script, unit>> /\ phase = "params"
      /\ phase' \in {"params", "body"} /\ ~LeaveUnit
  <2>1. errors \subseteq errors'
    BY ErrorsGrow DEF Next
  <2> QED BY <2>1 DEF DeclareParam, StartBody, Forward, Begin, LeaveUnit
<1>2. at \in Nat \ {0} /\ Unit.params \in Seq(Names) /\ Unit' = Unit /\ env \in Seq(Maps) /\ Len(env) = 2
  <2>1. unit # 0 /\ at \in Nat \ {0} /\ env \in Seq(Maps) /\ Len(env) = 2
    BY <1>1 DEF ScopesInv, PlaceInv, EnvInv, ScopesMatchBlocks, UnitPhases
  <2> QED BY <1>1, <2>1, InUnit, SameUnit DEF ScopesInv
<1>3. /\ KnownState("default") /\ EventGood(unit) /\ ParamsApart(at)
      /\ \A u : Left(u) => EventGood(u) /\ Distinct(Units[u].params)
  BY <1>1 DEF HeadInv, UnitPhases
<1>4. \A u : Left(u)' <=> Left(u)
  BY LeftStays, <1>1 DEF Next
<1>5. KnownState("default")' /\ \A u : Left(u)' => EventGood(u)' /\ Distinct(Units[u].params)'
  BY <1>1, <1>3, <1>4, HeadText
<1>6. EventGood(unit)'
  BY <1>1, <1>3, HeadText DEF EventGood, SameEvent, HasSignature
<1>7. CASE DeclareParam
  <2>1. /\ Declare(Unit.params[at], "param") /\ phase' = "params" /\ at' = at + 1
        /\ at <= Len(Unit.params)
    BY <1>7 DEF DeclareParam, Forward
  <2>2. at \in DOMAIN Unit.params /\ Unit.params[at] \in Names
    BY <1>2, <2>1
  <2>3. Unit.params[at] \notin DOMAIN env[2]
    BY <1>1, <1>2, <2>1 DEF Declare, Taken
  <2>4. \A p \in DOMAIN Unit.params : p < at => Unit.params[p] # Unit.params[at]
    BY <1>1, <2>3 DEF InnerInv
  <2>5. \A p \in DOMAIN Unit.params : p < at + 1 <=> p < at \/ p = at
    BY <1>2
  <2>6. ParamsApart(at + 1)
    BY <1>3, <2>4, <2>5 DEF ParamsApart
  <2>7. ParamsApart(at)'
    BY <1>2, <2>1, <2>6 DEF ParamsApart
  <2> QED BY <1>5, <1>6, <2>1, <2>7 DEF HeadInv, BodyPhases
<1>8. CASE StartBody
  <2>1. phase' = "body" /\ at > Len(Unit.params)
    BY <1>8 DEF StartBody, Begin
  <2>2. \A p \in DOMAIN Unit.params : p < at
    BY <1>2, <2>1
  <2>3. Distinct(Unit.params)
    BY <1>3, <2>2 DEF ParamsApart, Distinct
  <2>4. Distinct(Unit.params)'
    BY <1>2, <2>3 DEF Distinct
  <2> QED BY <1>5, <1>6, <2>1, <2>4 DEF HeadInv, BodyPhases
<1> QED BY <1>7, <1>8

LEMMA HeadBody ==
  ASSUME ScopesInv, HeadInv, errors' = {},
         \/ OpenBlock \/ CloseBlock \/ Expression \/ DeclareLocal \/ CheckValue
         \/ Jump \/ Label \/ ChangeState \/ Return
  PROVE  HeadInv'
<1>1. /\ errors = {} /\ UNCHANGED <<script, unit>> /\ phase \in BodyPhases /\ phase' \in BodyPhases
  <2>1. errors \subseteq errors'
    BY ErrorsGrow DEF Next
  <2> QED BY <2>1 DEF OpenBlock, CloseBlock, Expression, DeclareLocal, CheckValue, Jump, Label,
                      ChangeState, Return, Forward, InBody, BodyPhases
<1>2. phase \in UnitPhases /\ phase # "params" /\ phase' \in UnitPhases /\ phase' # "params"
  BY <1>1 DEF UnitPhases, BodyPhases
<1>3. /\ KnownState("default") /\ EventGood(unit) /\ Distinct(Unit.params)
      /\ \A u : Left(u) => EventGood(u) /\ Distinct(Units[u].params)
  BY <1>1, <1>2 DEF HeadInv
<1>4. \A u : Left(u)' <=> Left(u)
  <2>1. Ended' <=> Ended
    BY <1>1 DEF Ended, BodyPhases
  <2> QED BY <1>1, <2>1, SameUnit DEF Left
<1>5. KnownState("default")' /\ \A u : Left(u)' => EventGood(u)' /\ Distinct(Units[u].params)'
  BY <1>1, <1>3, <1>4, HeadText
<1>6. EventGood(unit)'
  BY <1>1, <1>3, HeadText DEF EventGood, SameEvent, HasSignature
<1>7. Distinct(Unit.params)'
  BY <1>1, <1>3, SameUnit DEF Distinct
<1> QED BY <1>1, <1>2, <1>5, <1>6, <1>7 DEF HeadInv

LEMMA HeadLeave ==
  ASSUME ScopesInv, HeadInv, LeaveUnit, errors' = {}
  PROVE  HeadInv'
<1>1. /\ errors = {} /\ UNCHANGED script /\ phase = "body" /\ phase' \in {"enter", "unused"}
  <2>1. errors \subseteq errors'
    BY ErrorsGrow DEF Next
  <2> QED BY <2>1 DEF LeaveUnit, NextUnit, Begin
<1>2. /\ KnownState("default") /\ EventGood(unit) /\ Distinct(Unit.params)
      /\ \A u : Left(u) => EventGood(u) /\ Distinct(Units[u].params)
  BY <1>1 DEF HeadInv, UnitPhases, BodyPhases
<1>3. \A u : Left(u)' <=> Left(u) \/ u = unit
  BY LeftGrows
<1>4. \A u : Left(u)' => EventGood(u) /\ Distinct(Units[u].params)
  BY <1>2, <1>3 DEF Unit
<1>5. KnownState("default")' /\ \A u : Left(u)' => EventGood(u)' /\ Distinct(Units[u].params)'
  BY <1>1, <1>2, <1>4, HeadText
<1> QED BY <1>1, <1>5 DEF HeadInv, BodyPhases

LEMMA HeadStart ==
  ASSUME ScopesInv, TopInv, HeadInv, StartUnits, errors' = {}
  PROVE  HeadInv'
<1>1. /\ errors = {} /\ UNCHANGED <<script, env>> /\ phase = "states" /\ phase' \in {"enter", "unused"}
      /\ "default" \in DOMAIN env[1] /\ env[1]["default"] = "state"
  <2>1. /\ errors' = errors \cup (IF "default" \in DOMAIN env[1] /\ env[1]["default"] = "state"
                                    THEN {} ELSE {Faulty("no default state", "default")})
        /\ UNCHANGED <<script, env>> /\ phase = "states" /\ phase' \in {"enter", "unused"}
    BY DEF StartUnits, NextUnit, Begin
  <2> QED BY <2>1
<1>2. KnownState("default")
  <2>1. /\ "default" \notin GlobalNames /\ "default" \notin FunctionNames
        /\ \E i \in 1 .. Told : TopNames[i] = "default"
    BY <1>1 DEF TopInv, TopScope, TopKind
  <2>2. /\ NG \in Nat /\ NF \in Nat /\ NS \in Nat /\ script.globals \in Seq(Global)
        /\ script.funcs \in Seq(Function) /\ script.states \in Seq(Names)
        /\ \A i \in 1 .. NG : TopNames[i] = script.globals[i].name
        /\ \A i \in 1 .. NF : TopNames[NG + i] = script.funcs[i].name
        /\ \A i \in 1 .. NS : TopNames[NG + NF + i] = script.states[i]
    BY TopNamesAre DEF ScopesInv, PlaceInv
  <2>3. Told = NG + NF + at - 1 /\ at <= NS + 1 /\ at \in Nat
    BY <1>1 DEF Told, TopInv, TopPlace, ScopesInv, PlaceInv
  <2>4. PICK i \in 1 .. Told : TopNames[i] = "default"
    BY <2>1
  <2>5. CASE i \in 1 .. NG
    <3>1. i \in DOMAIN script.globals /\ script.globals[i].name = "default"
      BY <2>2, <2>4, <2>5 DEF NG
    <3> QED BY <2>1, <3>1 DEF GlobalNames, Named
  <2>6. CASE i - NG \in 1 .. NF
    <3>1. NG + (i - NG) = i
      BY <2>2
    <3>2. i - NG \in DOMAIN script.funcs /\ script.funcs[i - NG].name = "default"
      BY <2>2, <2>4, <2>6, <3>1 DEF NF
    <3> QED BY <2>1, <3>2 DEF FunctionNames, Named
  <2>7. CASE i - (NG + NF) \in 1 .. NS
    <3>1. NG + NF + (i - (NG + NF)) = i
      BY <2>2
    <3>2. i - (NG + NF) \in DOMAIN script.states /\ script.states[i - (NG + NF)] = "default"
      BY <2>2, <2>4, <2>7, <3>1 DEF NS
    <3> QED BY <3>2 DEF KnownState
  <2>8. \/ i \in 1 .. NG \/ i - NG \in 1 .. NF \/ i - (NG + NF) \in 1 .. NS
    BY ONLY <2>2, <2>3, i \in 1 .. Told
  <2> QED BY <2>5, <2>6, <2>7, <2>8
<1>3. KnownState("default")'
  BY <1>1, <1>2, HeadText
<1>4. \A u : Left(u) => EventGood(u) /\ Distinct(Units[u].params)
  BY <1>1 DEF HeadInv
<1>5. \A u : Left(u)' <=> Left(u)
  BY LeftStays, <1>1 DEF Next, LeaveUnit
<1>6. \A u : Left(u)' => EventGood(u)' /\ Distinct(Units[u].params)'
  BY <1>1, <1>4, <1>5, HeadText
<1> QED BY <1>1, <1>3, <1>6 DEF HeadInv, BodyPhases

LEMMA HeadTop ==
  ASSUME ScopesInv, HeadInv, errors' = {},
         \/ DeclareGlobal \/ StartInitialisers \/ CheckInitialiser \/ StartFunctions
         \/ DeclareFunction \/ StartStates \/ DeclareState \/ ReportUnused
  PROVE  HeadInv'
<1>1. /\ errors = {} /\ UNCHANGED script /\ ~LeaveUnit
      /\ \/ {phase, phase'} \subseteq {"globals", "inits", "funcs", "states"}
         \/ phase = "unused" /\ phase' = "done"
  <2>1. errors \subseteq errors' /\ UNCHANGED script
    BY ErrorsGrow DEF Next
  <2> QED BY <2>1 DEF DeclareGlobal, StartInitialisers, CheckInitialiser, StartFunctions, DeclareFunction,
                      StartStates, DeclareState, ReportUnused, LeaveUnit, Forward, Begin
<1>2. /\ phase = "unused" => KnownState("default")
      /\ \A u : Left(u) => EventGood(u) /\ Distinct(Units[u].params)
  BY <1>1 DEF HeadInv
<1>3. \A u : Left(u)' <=> Left(u)
  BY LeftStays, <1>1 DEF Next
<1>4. /\ phase = "unused" => KnownState("default")'
      /\ \A u : Left(u)' => EventGood(u)' /\ Distinct(Units[u].params)'
  BY <1>1, <1>2, <1>3, HeadText
<1> QED BY <1>1, <1>4 DEF HeadInv, UnitPhases, BodyPhases

LEMMA HeadInvStep ==
  ScopesInv /\ TopInv /\ InnerInv /\ HeadInv /\ [Next]_vars => HeadInv'
<1> SUFFICES ASSUME ScopesInv, TopInv, InnerInv, HeadInv, [Next]_vars PROVE HeadInv'
  OBVIOUS
<1>1. CASE errors' # {}
  BY <1>1 DEF HeadInv
<1>2. CASE errors' = {}
  <2>1. CASE EnterUnit
    BY <1>2, <2>1, HeadEnter
  <2>2. CASE DeclareParam \/ StartBody
    BY <1>2, <2>2, HeadParams
  <2>3. CASE \/ OpenBlock \/ CloseBlock \/ Expression \/ DeclareLocal \/ CheckValue
             \/ Jump \/ Label \/ ChangeState \/ Return
    BY <1>2, <2>3, HeadBody
  <2>4. CASE LeaveUnit
    BY <1>2, <2>4, HeadLeave
  <2>5. CASE StartUnits
    BY <1>2, <2>5, HeadStart
  <2>6. CASE \/ DeclareGlobal \/ StartInitialisers \/ CheckInitialiser \/ StartFunctions
             \/ DeclareFunction \/ StartStates \/ DeclareState \/ ReportUnused
    BY <1>2, <2>6, HeadTop
  <2>7. CASE UNCHANGED vars
    <3>1. UNCHANGED <<script, phase, unit, at, errors>>
      BY <2>7 DEF vars
    <3>2. \A u : Left(u)' <=> Left(u)
      BY <3>1, SameUnit DEF Left, Ended
    <3>3. /\ KnownState("default")' <=> KnownState("default")
          /\ \A u : EventGood(u)' <=> EventGood(u)
          /\ \A u : Distinct(Units[u].params)' <=> Distinct(Units[u].params)
      BY <3>1, HeadText
    <3>4. Unit' = Unit
      BY <3>1, SameUnit
    <3>5. EventGood(unit)' <=> EventGood(unit)
      BY <3>1, HeadText DEF EventGood, SameEvent, HasSignature
    <3>6. (Distinct(Unit.params)' <=> Distinct(Unit.params)) /\ (ParamsApart(at)' <=> ParamsApart(at))
      BY <3>1, <3>4 DEF Distinct, ParamsApart
    <3> QED BY <3>1, <3>2, <3>3, <3>5, <3>6 DEF HeadInv
  <2> QED BY <2>1, <2>2, <2>3, <2>4, <2>5, <2>6, <2>7 DEF Next
<1> QED BY <1>1, <1>2

LEMMA HeadInvAlways == Spec => []HeadInv
<1>1. Init => HeadInv
  <2> SUFFICES ASSUME Init PROVE HeadInv
    OBVIOUS
  <2>1. /\ phase = "globals" /\ unit = 0 /\ ~Ended
        /\ DOMAIN Units = 1 .. Len(Units) /\ Len(Units) \in Nat
    BY ScopesInvInit, UnitsAre DEF Init, Ended
  <2>2. \A u : ~Left(u)
    BY <2>1 DEF Left
  <2> QED BY <2>1, <2>2 DEF HeadInv, UnitPhases, BodyPhases
<1>2. ScopesInv /\ TopInv /\ InnerInv /\ HeadInv /\ [Next]_vars => HeadInv'
  BY HeadInvStep
<1> QED BY <1>1, <1>2, ScopesInvAlways, TopInvAlways, InnerInvAlways, PTL DEF Spec

(* The items of a body: a local is new in its block, and the state is      *)
(* changed from events, to states there are.                               *)
ItemGood(u, i) ==
  LET body == Units[u].body
      item == body[i]
  IN  /\ item.op = "decl" => ~Held(body, Depth(body, i), item.name, i - 1)
      /\ item.op = "state" => u > NF /\ KnownState(item.name)

ItemInv ==
  errors = {} => /\ \A u, i : SeenIn(u, i) => ItemGood(u, i)
                 /\ phase = "value" => ItemGood(unit, at)

LEMMA ItemText ==
  ASSUME UNCHANGED script
  PROVE  \A u, i : ItemGood(u, i)' <=> ItemGood(u, i)
<1>1. NF' = NF /\ Units' = Units
  BY DEF NF, Units
<1>2. \A n : KnownState(n)' <=> KnownState(n)
  BY DEF KnownState
<1> QED BY <1>1, <1>2 DEF ItemGood, Held

LEMMA SeenInIs ==
  ASSUME ScopesInv, NEW u, NEW i
  PROVE  SeenIn(u, i) <=> Seen(u, i) /\ u # 0
<1>1. \A v \in DOMAIN Units : v # 0
  BY UnitsAre
<1> QED BY <1>1 DEF Seen, SeenIn

LEMMA ItemLocal ==
  ASSUME ScopesInv, InnerInv, DeclareLocal, errors' = {}
  PROVE  ItemGood(unit, at)
<1>1. /\ phase = "body" /\ at <= Len(Unit.body) /\ Item.op = "decl"
      /\ Item.name \notin DOMAIN env[Len(env)]
  BY DEF DeclareLocal, InBody, Declare, Taken
<1>2. /\ unit # 0 /\ Unit.body \in Seq(Items) /\ at \in 1 .. Len(Unit.body)
      /\ Item = Unit.body[at]
      /\ Depth(Unit.body, at) \in Nat
      /\ Len(env) = 2 + Depth(Unit.body, at)
  BY <1>1, BodyContext DEF BodyPhases
<1>3. ~InScope(Len(env), Item.name, at - 1)
  <2>1. Len(env) \in 2 .. Len(env)
    BY <1>2
  <2>2. Reached = at - 1
    BY <1>1 DEF Reached
  <2>3. \A d \in 2 .. Len(env) : \A n : n \in DOMAIN env[d] <=> InScope(d, n, Reached)
    BY <1>1 DEF InnerInv, BodyPhases
  <2>4. Item.name \in DOMAIN env[Len(env)] <=> InScope(Len(env), Item.name, Reached)
    BY ONLY <2>1, <2>3
  <2> QED BY ONLY <1>1, <2>2, <2>4
<1>4. Len(env) - 2 = Depth(Unit.body, at)
  BY ONLY <1>2
<1>5. ~Held(Unit.body, Depth(Unit.body, at), Item.name, at - 1)
  BY <1>3, <1>4 DEF InScope
<1> QED BY <1>1, <1>2, <1>5 DEF ItemGood, Unit

LEMMA ItemInvStep == ScopesInv /\ ScopesInv' /\ TopInv /\ InnerInv /\ ItemInv /\ [Next]_vars => ItemInv'
<1> SUFFICES ASSUME ScopesInv, ScopesInv', TopInv, InnerInv, ItemInv, [Next]_vars, errors' = {}
             PROVE  /\ \A u, i : SeenIn(u, i)' => ItemGood(u, i)'
                    /\ phase' = "value" => ItemGood(unit, at)'
  BY DEF ItemInv
<1>1. errors = {} /\ UNCHANGED script
  BY ErrorsGrow
<1>2. /\ \A u, i : SeenIn(u, i) => ItemGood(u, i)
      /\ phase = "value" => ItemGood(unit, at)
  BY <1>1 DEF ItemInv
<1>3. /\ \A u, i : ItemGood(u, i)' <=> ItemGood(u, i)
      /\ \A u \in DOMAIN Units : u # 0
      /\ Units' = Units
  <2>1. \A u, i : ItemGood(u, i)' <=> ItemGood(u, i)
    BY <1>1, ItemText
  <2>2. \A u \in DOMAIN Units : u # 0
    BY UnitsAre
  <2>3. Units' = Units
    BY <1>1 DEF Units
  <2> QED BY <2>1, <2>2, <2>3
<1>4. \A u, i : SeenIn(u, i) <=> Seen(u, i) /\ u # 0
  BY SeenInIs
<1>5. ASSUME NEW u, NEW i
      PROVE  SeenIn(u, i)' <=> Seen(u, i)' /\ u # 0
  BY <1>3 DEF Seen, SeenIn
<1>6. CASE \/ DeclareGlobal \/ StartInitialisers \/ StartFunctions \/ DeclareFunction \/ StartStates
           \/ DeclareState \/ StartUnits \/ EnterUnit \/ DeclareParam \/ StartBody \/ DeclareLocal
           \/ LeaveUnit \/ ReportUnused
  <2>1. ASSUME NEW u, NEW i
        PROVE  SeenIn(u, i)' => ItemGood(u, i)'
    <3>1. Seen(u, i)' <=> Seen(u, i)
      BY <1>6, SeenStays
    <3> QED BY <1>2, <1>3, <1>4, <1>5, <3>1
  <2>2. CASE DeclareLocal
    <3>1. ItemGood(unit, at) /\ UNCHANGED <<script, unit, at>>
      BY <2>2, ItemLocal DEF DeclareLocal
    <3>2. ItemGood(unit, at)'
      <4>1. NF' = NF /\ Units' = Units
        BY <3>1 DEF NF, Units
      <4> QED BY <3>1, <4>1 DEF ItemGood, Held, KnownState
    <3> QED BY <2>1, <3>2
  <2>3. CASE ~DeclareLocal
    <3>1. phase' # "value"
      BY <1>6, <2>3 DEF DeclareGlobal, StartInitialisers, StartFunctions, DeclareFunction, StartStates,
           DeclareState, StartUnits, EnterUnit, DeclareParam, StartBody, LeaveUnit, ReportUnused,
           Forward, Begin, NextUnit
    <3> QED BY <2>1, <3>1
  <2> QED BY <2>2, <2>3
<1>7. CASE CheckInitialiser \/ ItemSteps
  <2>1. phase' # "value"
    BY <1>7 DEF CheckInitialiser, ItemSteps, OpenBlock, CloseBlock, Expression, CheckValue, Jump, Label,
                ChangeState, Return, Forward, InBody
  <2>2. unit # 0 => ItemGood(unit, at)
    <3> SUFFICES ASSUME unit # 0 PROVE ItemGood(unit, at)
      OBVIOUS
    <3>1. phase \in UnitPhases
      BY DEF ScopesInv, PlaceInv
    <3>2. CASE CheckValue
      BY <1>2, <3>2 DEF CheckValue
    <3>3. CASE ChangeState
      <4>1. errors' = errors \cup
              (IF ~InEvent                    THEN {Faulty("state change in function", Item.name)}
               ELSE IF KnownState(Item.name)  THEN {}
               ELSE                                {Faulty("unknown state", Item.name)})
        BY <3>3 DEF ChangeState
      <4>2. InEvent /\ KnownState(Item.name) /\ Item.op = "state"
        BY <3>3, <4>1 DEF ChangeState, InBody
      <4> QED BY <4>2 DEF ItemGood, Item, Unit, InEvent, NF
    <3>4. CASE OpenBlock \/ CloseBlock \/ Expression \/ Jump \/ Label \/ Return
      <4>1. Item.op \notin {"decl", "state"}
        BY <3>4 DEF OpenBlock, CloseBlock, Expression, Jump, Label, Return, InBody
      <4> QED BY <4>1 DEF ItemGood, Item, Unit
    <3>5. ~CheckInitialiser
      BY <3>1 DEF CheckInitialiser, UnitPhases, BodyPhases
    <3> QED BY <1>7, <3>2, <3>3, <3>4, <3>5 DEF ItemSteps
  <2>3. ASSUME NEW u, NEW i
        PROVE  SeenIn(u, i)' => ItemGood(u, i)'
    <3>1. Seen(u, i)' <=> Seen(u, i) \/ (u = unit /\ i = at)
      BY <1>7, SeenGrows
    <3>2. SeenIn(u, i)' => SeenIn(u, i) \/ (u = unit /\ i = at /\ unit # 0)
      BY <1>4, <1>5, <3>1
    <3>3. SeenIn(u, i)' => ItemGood(u, i)
      BY <1>2, <2>2, <3>2
    <3> QED BY <1>3, <3>3
  <2> QED BY <2>1, <2>3
<1>8. CASE UNCHANGED vars
  <2>1. UNCHANGED <<script, phase, unit, at>>
    BY <1>8 DEF vars
  <2>2. \A u, i : SeenIn(u, i)' <=> SeenIn(u, i)
    BY <1>3, <2>1 DEF SeenIn, Ended
  <2>3. ItemGood(unit, at)' <=> ItemGood(unit, at)
    <3>1. NF' = NF /\ Units' = Units
      BY <2>1 DEF NF, Units
    <3> QED BY <2>1, <3>1 DEF ItemGood, Held, KnownState
  <2> QED BY <1>2, <1>3, <2>1, <2>2, <2>3
<1> QED BY <1>6, <1>7, <1>8 DEF Next, ItemSteps

LEMMA ItemInvAlways == Spec => []ItemInv
<1>1. Init => ItemInv
  <2> SUFFICES ASSUME Init PROVE ItemInv
    OBVIOUS
  <2>1. /\ phase = "globals" /\ unit = 0
        /\ DOMAIN Units = 1 .. Len(Units) /\ Len(Units) \in Nat
    BY ScopesInvInit, UnitsAre DEF Init
  <2>2. \A u, i : ~SeenIn(u, i)
    <3>1. \A u \in DOMAIN Units : ~(u < 0) /\ u # 0
      BY <2>1
    <3> QED BY <2>1, <3>1 DEF SeenIn, Ended
  <2> QED BY <2>1, <2>2 DEF ItemInv
<1>2. ScopesInv /\ ScopesInv' /\ TopInv /\ InnerInv /\ ItemInv /\ [Next]_vars => ItemInv'
  BY ItemInvStep
<1> QED BY <1>1, <1>2, ScopesInvAlways, TopInvAlways, InnerInvAlways, PTL DEF Spec

LEMMA EventsAre ==
  ASSUME ScopesInv, NEW e \in DOMAIN script.events
  PROVE  /\ e \in Nat \ {0} /\ NF + e \in DOMAIN Units /\ Units[NF + e] = script.events[e]
<1> DEFINE F == script.funcs
           E == script.events
<1>1. F \in Seq(Function) /\ E \in Seq(Handler) /\ NF = Len(F) /\ Units = F \o E
  BY DEF ScopesInv, PlaceInv, Script, Units, NF
<1> HIDE DEF F, E
<1>2. ASSUME NEW d \in DOMAIN E
      PROVE  d \in Nat \ {0} /\ NF + d \in DOMAIN (F \o E) /\ (F \o E)[NF + d] = E[d]
  BY ONLY <1>1, <1>2
<1>3. e \in DOMAIN E
  BY DEF E
<1>4. e \in Nat \ {0} /\ NF + e \in DOMAIN (F \o E) /\ (F \o E)[NF + e] = E[e]
  BY ONLY <1>2, <1>3
<1> QED BY <1>1, <1>4 DEF E

(* A script without errors is well-formed: nothing declared twice in one   *)
(* place, a default state, every event once in a state with a signature it *)
(* can have, state changes only from events to states there are            *)
(* (sem.c:679-698, 741-946).                                               *)
THEOREM AcceptedWellFormed == Spec => []AcceptedIsWellFormed
<1>1. ASSUME ScopesInv, TopInv, HeadInv, ItemInv, Done, errors = {}
      PROVE  /\ Distinct(TopNames)
             /\ \E i \in DOMAIN script.states : script.states[i] = "default"
             /\ Distinct([e \in DOMAIN script.events |-> <<script.events[e].state, script.events[e].name>>])
             /\ \A e \in DOMAIN script.events : HasSignature(script.events[e])
             /\ \A u \in DOMAIN Units : Distinct(Units[u].params)
             /\ \A p, q \in Places :
                  /\ ItemAt(p).op = "decl" /\ ItemAt(q).op = "decl"
                  /\ ItemAt(p).name = ItemAt(q).name /\ p[1] = q[1] /\ p[2] < q[2]
                  => \E i \in p[2] .. q[2] :
                       Depth(Units[p[1]].body, i) # Depth(Units[p[1]].body, p[2])
             /\ \A p \in Places : ItemAt(p).op = "state" =>
                  /\ p[1] > Len(script.funcs)
                  /\ \E i \in DOMAIN script.states : script.states[i] = ItemAt(p).name
  <2>1. /\ script \in Script /\ phase = "done" /\ Ended
        /\ \A u \in DOMAIN Units : Left(u) /\ u \in Nat
        /\ \A u \in DOMAIN Units : \A i \in DOMAIN Units[u].body : SeenIn(u, i)
    <3>1. script \in Script /\ phase = "done" /\ Ended
      BY <1>1 DEF ScopesInv, PlaceInv, Done, Ended
    <3>2. DOMAIN Units = 1 .. Len(Units)
      BY <1>1, UnitsAre
    <3> QED BY <3>1, <3>2 DEF Left, SeenIn
  <2>2. Distinct(TopNames)
    <3>1. Told = Len(TopNames)
      BY <2>1 DEF Told
    <3>2. DOMAIN TopNames = 1 .. Len(TopNames)
      <4>1. script.globals \in Seq(Global) /\ script.funcs \in Seq(Function) /\ script.states \in Seq(Names)
        BY <2>1, TopNamesAre
      <4>2. TopNames \in Seq(UNION {{script.globals[i].name : i \in DOMAIN script.globals},
                                    {script.funcs[i].name : i \in DOMAIN script.funcs}, Names})
        <5> DEFINE S == UNION {{script.globals[i].name : i \in DOMAIN script.globals},
                               {script.funcs[i].name : i \in DOMAIN script.funcs}, Names}
                   a == [i \in DOMAIN script.globals |-> script.globals[i].name]
                   b == [i \in DOMAIN script.funcs |-> script.funcs[i].name]
        <5>1. a \in Seq(S)
          BY <4>1
        <5>2. b \in Seq(S)
          BY <4>1
        <5>3. script.states \in Seq(S)
          BY <4>1
        <5>4. TopNames = a \o b \o script.states
          BY DEF TopNames
        <5> HIDE DEF a, b, S
        <5>5. TopNames \in Seq(S)
          BY <5>1, <5>2, <5>3, <5>4, TwoParts
        <5> QED BY <5>5 DEF S
      <4> QED BY <4>2
    <3> QED BY <1>1, <3>1, <3>2 DEF TopInv, TopApart, Distinct
  <2>3. KnownState("default") /\ \A u \in DOMAIN Units : EventGood(u) /\ Distinct(Units[u].params)
    BY <1>1, <2>1 DEF HeadInv
  <2>4. \A u \in DOMAIN Units : \A i \in DOMAIN Units[u].body : ItemGood(u, i)
    BY <1>1, <2>1 DEF ItemInv
  <2>5. NF \in Nat
    BY <2>1, TopNamesAre
  <2>6. \A e \in DOMAIN script.events :
          e \in Nat \ {0} /\ NF + e \in DOMAIN Units /\ Units[NF + e] = script.events[e]
    BY <1>1, EventsAre
  <2>7. ASSUME NEW e \in DOMAIN script.events
        PROVE  /\ HasSignature(script.events[e])
               /\ \A d \in DOMAIN script.events : d < e => ~SameEvent(NF + d, NF + e)
    <3>1. EventGood(NF + e) /\ NF + e > NF
      BY <2>3, <2>5, <2>6
    <3>2. ASSUME NEW d \in DOMAIN script.events, d < e
          PROVE  ~SameEvent(NF + d, NF + e)
      <4>1. d \in Nat \ {0} /\ e \in Nat \ {0}
        BY <2>6
      <4>2. NF + d \in NF + 1 .. (NF + e) - 1
        BY ONLY <2>5, <3>2, <4>1
      <4> QED BY <3>1, <4>2 DEF EventGood
    <3>3. HasSignature(script.events[e])
      BY <2>6, <3>1 DEF EventGood
    <3> QED BY <3>2, <3>3
  <2>8. Distinct([e \in DOMAIN script.events |-> <<script.events[e].state, script.events[e].name>>])
    <3> SUFFICES ASSUME NEW d \in DOMAIN script.events, NEW e \in DOMAIN script.events,
                        <<script.events[d].state, script.events[d].name>> =
                          <<script.events[e].state, script.events[e].name>>
                 PROVE  d = e
      BY DEF Distinct
    <3>1. SameEvent(NF + d, NF + e) /\ SameEvent(NF + e, NF + d)
      BY <2>6 DEF SameEvent
    <3>2. ~(d < e) /\ ~(e < d)
      BY <2>7, <3>1
    <3>3. d \in Nat /\ e \in Nat
      BY <2>6
    <3> QED BY ONLY <3>2, <3>3
  <2>9. ASSUME NEW p \in Places
        PROVE  /\ p[1] \in DOMAIN Units /\ p[2] \in DOMAIN Units[p[1]].body
               /\ ItemAt(p) = Units[p[1]].body[p[2]]
    BY DEF Places, ItemAt
  <2>10. ASSUME NEW p \in Places, NEW q \in Places,
                ItemAt(p).op = "decl", ItemAt(q).op = "decl",
                ItemAt(p).name = ItemAt(q).name, p[1] = q[1], p[2] < q[2]
         PROVE  \E i \in p[2] .. q[2] : Depth(Units[p[1]].body, i) # Depth(Units[p[1]].body, p[2])
    <3> SUFFICES ASSUME \A i \in p[2] .. q[2] : Depth(Units[p[1]].body, i) = Depth(Units[p[1]].body, p[2])
                 PROVE  FALSE
      OBVIOUS
    <3>1. PICK u, i, j : u = p[1] /\ i = p[2] /\ j = q[2]
      OBVIOUS
    <3>2. PICK body : body = Units[u].body
      OBVIOUS
    <3>3. u \in DOMAIN Units /\ i \in DOMAIN body /\ j \in DOMAIN body
      BY <2>9, <2>10, <3>1, <3>2
    <3>4. body \in Seq(Items) /\ i \in Nat /\ j \in Nat /\ i < j /\ i \in 1 .. Len(body) /\ j \in 1 .. Len(body)
      BY <1>1, <2>10, <3>1, <3>2, <3>3, UnitsAre
    <3>5. body[i] = ItemAt(p) /\ body[j] = ItemAt(q)
      BY <2>9, <2>10, <3>1, <3>2
    <3>6. ~Held(body, Depth(body, j), body[j].name, j - 1)
      BY <2>4, <2>10, <3>2, <3>3, <3>5 DEF ItemGood
    <3>7. \A k \in i .. j : Depth(body, k) = Depth(body, i)
      BY <3>1, <3>2
    <3>8. Depth(body, j) = Depth(body, i) /\ Depth(body, i) \in Int
      BY <3>4, <3>7, DepthInt
    <3>9. i \in 1 .. j - 1 /\ \A k \in i .. j - 1 : k \in i .. j
      BY <3>4
    <3>10. \A k \in i .. j - 1 : Depth(body, k) >= Depth(body, j)
      BY <3>7, <3>8, <3>9
    <3>11. body[i].op = "decl" /\ body[i].name = body[j].name
      BY <2>10, <3>5
    <3>12. Held(body, Depth(body, j), body[j].name, j - 1)
      BY <3>8, <3>9, <3>10, <3>11 DEF Held
    <3> QED BY <3>6, <3>12
  <2>11. ASSUME NEW p \in Places, ItemAt(p).op = "state"
         PROVE  /\ p[1] > Len(script.funcs)
                /\ \E i \in DOMAIN script.states : script.states[i] = ItemAt(p).name
    <3>1. ItemGood(p[1], p[2])
      BY <2>4, <2>9
    <3>2. p[1] > NF /\ KnownState(ItemAt(p).name)
      BY <2>9, <2>11, <3>1 DEF ItemGood
    <3> QED BY <3>2 DEF KnownState, NF
  <2> QED BY <2>2, <2>3, <2>7, <2>8, <2>10, <2>11 DEF KnownState
<1>2. ScopesInv /\ TopInv /\ HeadInv /\ ItemInv => AcceptedIsWellFormed
  BY <1>1 DEF AcceptedIsWellFormed
<1> QED BY <1>2, ScopesInvAlways, TopInvAlways, HeadInvAlways, ItemInvAlways, PTL
=============================================================================
