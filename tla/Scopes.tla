------------------------------- MODULE Scopes --------------------------------
(***************************************************************************)
(* The walk of the checker over a script (sem_check): what it declares,    *)
(* which declaration a name means where it is used, which labels a jump    *)
(* can reach, where the state may be changed, and what is never used.      *)
(*                                                                         *)
(* A body is the sequence of what check_stmt meets: blocks are a pair of   *)
(* "open" and "close", the conditions and branches of other statements     *)
(* simply follow each other.  An expression is the sequence of the         *)
(* references in it, each the use of a name or a call.                     *)
(***************************************************************************)
EXTENDS Integers, Sequences, FiniteSets

CONSTANTS
  Names,
  BuiltinConsts,      \* the names of the builtin constants
  BuiltinFns,         \* the builtin functions, each with its overloads, [params, mono]
  BuiltinEvents,      \* the events, each with the signatures it can have, sequences of types
  LlNames,            \* the names that start with "ll"
  Private,            \* the names that start with "_"
  Families            \* the scripts checked, a set of sets

Scripts == UNION Families

Kinds == {"global", "func", "state", "local", "param"}

(* How many blocks of a body are open after its first i items.             *)
Count(body, op, i) == Cardinality({k \in 1 .. i : body[k].op = op})
Depth(body, i) == Count(body, "open", i) - Count(body, "close", i)

Refs == Seq([op : {"use"}, name : Names] \cup [op : {"call"}, name : Names, args : Nat])

Items ==
  [op : {"open", "close"}] \cup [op : {"expr"}, refs : Refs]
    \cup [op : {"decl"}, name : Names, refs : Refs]
    \cup [op : {"jump", "label", "state"}, name : Names]
    \cup [op : {"return"}, value : BOOLEAN, refs : Refs]

Body == {b \in Seq(Items) : /\ \A i \in 1 .. Len(b) : Depth(b, i) >= 0
                           /\ Depth(b, Len(b)) = 0}

Global   == [name : Names, refs : Refs]
Function == [name : Names, params : Seq(Names), value : BOOLEAN, body : Body]
Handler  == [state : Nat, name : Names, params : Seq(Names), types : Seq(STRING), body : Body]

Script ==
  [globals : Seq(Global),
   funcs   : Seq(Function),
   events  : Seq(Handler),
   states  : Seq(Names),
   wall    : BOOLEAN,
   lso     : BOOLEAN]          \* the target is LSO

(* What the parser builds: blocks that match.                              *)
ASSUME ScriptsAssumption == \A family \in Families : \A s \in family : s \in Script

(* The tables of builtins: every event has its signatures, every function  *)
(* at least one overload.                                                  *)
ASSUME BuiltinsAssumption ==
  /\ \A event \in DOMAIN BuiltinEvents : BuiltinEvents[event] \in Seq(Seq(STRING))
  /\ \A fn \in DOMAIN BuiltinFns :
       BuiltinFns[fn] \in Seq([params : Nat, mono : BOOLEAN]) \ {<<>>}

VARIABLES
  script,
  phase,              \* where sem_check is
  unit,               \* the function or event that is checked
  at,                 \* the next declaration, parameter or item in it
  env,                \* the symbol table
  arity,              \* Sym.n_params of the functions declared
  used,               \* the names of the global scope whose symbol is marked used
  labels, jumps,      \* of this function or event, the last one first
  errors, warnings    \* sets of [what, name, phase, unit, at]

vars == <<script, phase, unit, at, env, arity, used, labels, jumps, errors, warnings>>

(* The symbol table is the stack of maps that SymTab implements.           *)
Table == INSTANCE ScopedMap

(* Functions first, then the events of all states.                         *)
Units == script.funcs \o script.events

Unit == Units[unit]
Item == Unit.body[at]

InEvent == unit > Len(script.funcs)

-----------------------------------------------------------------------------
(* References.                                                             *)
Meaning(name) == Table!Meaning(env, name)

UseFaults(name) ==
  CASE Meaning(name) \in {"func", "state"} -> {"not a value"}
    [] Meaning(name) = Table!Undefined /\ name \notin BuiltinConsts -> {"undeclared"}
    [] OTHER -> {}

IsFunctionAnywhere(name) == Meaning(name) = "func"    \* a faulty variant
IsFunction(name) == name \in DOMAIN env[1] /\ env[1][name] = "func"

Known(name) == IsFunction(name) \/ name \in DOMAIN BuiltinFns

(* The first overload with as many parameters as there are arguments, else *)
(* the first of the name (bi_lookup_fn_arity, bi_lookup_fn).               *)
Overload(name, args) ==
  LET table   == BuiltinFns[name]
      fitting == {i \in DOMAIN table : table[i].params = args}
  IN  IF fitting = {} THEN table[1] ELSE table[CHOOSE i \in fitting : \A j \in fitting : i <= j]

BuiltinFaults(fn, args) ==
  (IF fn.mono /\ script.lso THEN {"mono only"} ELSE {})
    \cup (IF fn.params # args THEN {"arity"} ELSE {})

(* A call looks for its function in the global scope only, then among the  *)
(* builtins.  An unknown one whose name starts with "ll" is let through    *)
(* with a warning.                                                         *)
CallFaults(name, args) ==
  IF IsFunction(name) THEN IF arity[name] = args THEN {} ELSE {"arity"}
  ELSE IF name \in DOMAIN BuiltinFns THEN BuiltinFaults(Overload(name, args), args)
  ELSE IF name \in LlNames THEN {} ELSE {"undeclared function"}

Faults(ref) == IF ref.op = "use" THEN UseFaults(ref.name) ELSE CallFaults(ref.name, ref.args)

(* The reference marks a symbol of the global scope.  In the faulty        *)
(* variant it does so when another scope has the name, too.                *)
MarksByName(ref) == ref.name \in DOMAIN env[1]

Marks(ref) ==
  IF ref.op = "use" THEN Table!DefinedIn(env, ref.name) = {1} ELSE IsFunction(ref.name)

RefsOf(refs) == {refs[i] : i \in DOMAIN refs}

Faulty(what, name) ==
  [what |-> what, name |-> name, phase |-> phase, unit |-> unit, at |-> at]

CheckRefs(refs, others) ==
  /\ errors' = errors \cup others
                 \cup UNION {{Faulty(what, ref.name) : what \in Faults(ref)} : ref \in RefsOf(refs)}
  /\ used' = used \cup {ref.name : ref \in {r \in RefsOf(refs) : Marks(r)}}
  /\ warnings' = warnings
       \cup {Faulty("unknown ll", ref.name) :
               ref \in {r \in RefsOf(refs) : r.op = "call" /\ ~Known(r.name) /\ r.name \in LlNames}}

-----------------------------------------------------------------------------
Init ==
  /\ \E family \in Families : script \in family
  /\ phase = "globals" /\ unit = 0 /\ at = 1
  /\ Table!Init
  /\ arity = [f \in {} |-> 0]
  /\ used = {}
  /\ labels = <<>> /\ jumps = <<>>
  /\ errors = {} /\ warnings = {}

Begin(p, u) == phase' = p /\ unit' = u /\ at' = 1

Forward == at' = at + 1 /\ UNCHANGED <<phase, unit>>

Taken(name) == name \in DOMAIN env[Len(env)]

(* A symbol, unless the scope has one of that name.  The faulty variant    *)
(* does not look.                                                          *)
DeclareOverwriting(name, kind) ==
  /\ env' = [env EXCEPT ![Len(env)] = Table!Bind(@, name, kind)]
  /\ UNCHANGED errors

Declare(name, kind) ==
  IF Taken(name)
    THEN errors' = errors \cup {Faulty("redeclaration", name)} /\ UNCHANGED env
    ELSE Table!Define(name, kind) /\ UNCHANGED errors

(* A global or function that is declared hides the builtin of its name.    *)
WarnHiding(name, builtins) ==
  warnings' = warnings \cup IF name \in builtins /\ ~Taken(name) THEN {Faulty("hides builtin", name)} ELSE {}

DeclareGlobal ==
  /\ phase = "globals" /\ at <= Len(script.globals)
  /\ Declare(script.globals[at].name, "global")
  /\ WarnHiding(script.globals[at].name, BuiltinConsts \cup DOMAIN BuiltinFns)
  /\ Forward
  /\ UNCHANGED <<script, arity, used, labels, jumps>>

StartInitialisers ==
  /\ phase = "globals" /\ at > Len(script.globals)
  /\ Begin("inits", 0)
  /\ UNCHANGED <<script, env, arity, used, labels, jumps, errors, warnings>>

(* All globals are declared, but no function is.                           *)
CheckInitialiser ==
  /\ phase = "inits" /\ at <= Len(script.globals)
  /\ CheckRefs(script.globals[at].refs, {})
  /\ Forward
  /\ UNCHANGED <<script, env, arity, labels, jumps>>

StartFunctions ==
  /\ phase = "inits" /\ at > Len(script.globals)
  /\ Begin("funcs", 0)
  /\ UNCHANGED <<script, env, arity, used, labels, jumps, errors, warnings>>

DeclareFunction ==
  /\ phase = "funcs" /\ at <= Len(script.funcs)
  /\ LET f == script.funcs[at]
     IN  /\ Declare(f.name, "func")
         /\ arity' = IF Taken(f.name) THEN arity
                     ELSE [n \in DOMAIN arity \cup {f.name} |->
                             IF n = f.name THEN Len(f.params) ELSE arity[n]]
         /\ WarnHiding(f.name, DOMAIN BuiltinFns)
  /\ Forward
  /\ UNCHANGED <<script, used, labels, jumps>>

StartStates ==
  /\ phase = "funcs" /\ at > Len(script.funcs)
  /\ Begin("states", 0)
  /\ UNCHANGED <<script, env, arity, used, labels, jumps, errors, warnings>>

DeclareState ==
  /\ phase = "states" /\ at <= Len(script.states)
  /\ Declare(script.states[at], "state")
  /\ Forward
  /\ UNCHANGED <<script, arity, used, labels, jumps, warnings>>

NextUnit == IF unit < Len(Units) THEN Begin("enter", unit + 1) ELSE Begin("unused", 0)

StartUnits ==
  /\ phase = "states" /\ at > Len(script.states)
  /\ errors' = errors \cup (IF "default" \in DOMAIN env[1] /\ env[1]["default"] = "state"
                              THEN {} ELSE {Faulty("no default state", "default")})
  /\ NextUnit
  /\ UNCHANGED <<script, env, arity, used, labels, jumps, warnings>>

-----------------------------------------------------------------------------
(* The event must be one of the table.  Its types are compared with the    *)
(* first signature of as many parameters; void there stands for any type.  *)
SignatureFaults(name, types) ==
  LET table   == BuiltinEvents[name]
      fitting == {i \in DOMAIN table : Len(table[i]) = Len(types)}
      first   == table[CHOOSE i \in fitting : \A j \in fitting : i <= j]
  IN  IF name \notin DOMAIN BuiltinEvents THEN {"unknown event"}
      ELSE IF fitting = {} THEN {"event arity"}
      ELSE IF \E i \in DOMAIN first : first[i] \notin {"void", types[i]} THEN {"event type"}
      ELSE {}

(* A function or event: a scope for the parameters, then the body.  The    *)
(* code compares all events of a state before it enters the first.         *)
EnterUnit ==
  /\ phase = "enter"
  /\ Table!Push
  /\ labels' = <<>> /\ jumps' = <<>>
  /\ errors' = errors \cup
       {Faulty("duplicate event", Unit.name) :
          e \in {e \in Len(script.funcs) + 1 .. unit - 1 :
                   InEvent /\ Units[e].state = Unit.state /\ Units[e].name = Unit.name}}
       \cup {Faulty(what, Unit.name) : what \in IF InEvent THEN SignatureFaults(Unit.name, Unit.types) ELSE {}}
  /\ Begin("params", unit)
  /\ UNCHANGED <<script, arity, used, warnings>>

DeclareParam ==
  /\ phase = "params" /\ at <= Len(Unit.params)
  /\ Declare(Unit.params[at], "param")
  /\ Forward
  /\ UNCHANGED <<script, arity, used, labels, jumps, warnings>>

StartBody ==
  /\ phase = "params" /\ at > Len(Unit.params)
  /\ Begin("body", unit)
  /\ UNCHANGED <<script, env, arity, used, labels, jumps, errors, warnings>>

InBody(op) == phase = "body" /\ at <= Len(Unit.body) /\ Item.op = op

OpenBlock ==
  /\ InBody("open")
  /\ Table!Push
  /\ Forward
  /\ UNCHANGED <<script, arity, used, labels, jumps, errors, warnings>>

CloseBlockLeaving ==     \* a faulty variant
  /\ InBody("close")
  /\ Forward
  /\ UNCHANGED <<script, env, arity, used, labels, jumps, errors, warnings>>

CloseBlock ==
  /\ InBody("close")
  /\ Table!Pop
  /\ Forward
  /\ UNCHANGED <<script, arity, used, labels, jumps, errors, warnings>>

Expression ==
  /\ InBody("expr")
  /\ CheckRefs(Item.refs, {})
  /\ Forward
  /\ UNCHANGED <<script, env, arity, labels, jumps>>

(* The local is declared, then its initialiser is checked.                 *)
Shadowed(name) ==
  (IF Meaning(name) \in {"global", "param"} /\ script.wall THEN {"shadows"} ELSE {})
    \cup (IF name \in BuiltinConsts THEN {"shadows builtin"} ELSE {})

DeclareLocal ==
  /\ InBody("decl")
  /\ phase' = "value" /\ UNCHANGED <<unit, at>>
  /\ Declare(Item.name, "local")
  /\ warnings' = warnings \cup
       {Faulty(what, Item.name) : what \in IF Taken(Item.name) THEN {} ELSE Shadowed(Item.name)}
  /\ UNCHANGED <<script, arity, used, labels, jumps>>

CheckValue ==
  /\ phase = "value"
  /\ CheckRefs(Item.refs, {})
  /\ phase' = "body" /\ at' = at + 1 /\ UNCHANGED unit
  /\ UNCHANGED <<script, env, arity, labels, jumps>>

Jump ==
  /\ InBody("jump")
  /\ jumps' = <<[name |-> Item.name, at |-> at]>> \o jumps
  /\ Forward
  /\ UNCHANGED <<script, env, arity, used, labels, errors, warnings>>

Label ==
  /\ InBody("label")
  /\ labels' = <<[name |-> Item.name, at |-> at]>> \o labels
  /\ Forward
  /\ UNCHANGED <<script, env, arity, used, jumps, errors, warnings>>

KnownStateBySymbol(name) == Meaning(name) # Table!Undefined    \* a faulty variant
KnownState(name) == \E i \in DOMAIN script.states : script.states[i] = name

ChangeState ==
  /\ InBody("state")
  /\ errors' = errors \cup
       (IF ~InEvent                    THEN {Faulty("state change in function", Item.name)}
        ELSE IF KnownState(Item.name)  THEN {}
        ELSE                                {Faulty("unknown state", Item.name)})
  /\ Forward
  /\ UNCHANGED <<script, env, arity, used, labels, jumps, warnings>>

(* The value of a return in an event is not looked at.                     *)
Return ==
  /\ InBody("return")
  /\ LET wrong == IF InEvent THEN Item.value ELSE Item.value # Unit.value
     IN  CheckRefs(IF InEvent THEN <<>> ELSE Item.refs,
                   IF wrong THEN {Faulty("return", Unit.name)} ELSE {})
  /\ Forward
  /\ UNCHANGED <<script, env, arity, labels, jumps>>

(* The end of the body: resolve_labels_and_jumps, then the scope of the    *)
(* parameters goes.  Of two labels of one name the earlier one is blamed,  *)
(* because the list starts with the last one.                              *)
DuplicateLabels ==
  {labels[j] : j \in {j \in DOMAIN labels : \E i \in 1 .. j - 1 : labels[i].name = labels[j].name}}

LostForwardJumps ==      \* a faulty variant of LostJumps
  {j \in {jumps[i] : i \in DOMAIN jumps} :
     \A i \in DOMAIN labels : labels[i].name # j.name \/ labels[i].at > j.at}

LostJumps ==
  {j \in {jumps[i] : i \in DOMAIN jumps} : \A i \in DOMAIN labels : labels[i].name # j.name}

LeaveUnitOpen ==         \* a faulty variant: out before the scope is closed
  /\ phase = "body" /\ at > Len(Unit.body)
  /\ labels' = <<>> /\ jumps' = <<>>
  /\ NextUnit
  /\ UNCHANGED <<script, env, arity, used, errors, warnings>>

LeaveUnit ==
  /\ phase = "body" /\ at > Len(Unit.body)
  /\ errors' = errors
       \cup {[Faulty("duplicate label", l.name) EXCEPT !.at = l.at] : l \in DuplicateLabels}
       \cup {[Faulty("no label", j.name) EXCEPT !.at = j.at] : j \in LostJumps}
  /\ labels' = <<>> /\ jumps' = <<>>
  /\ Table!Pop
  /\ NextUnit
  /\ UNCHANGED <<script, arity, used, warnings>>

Unused ==
  {name \in DOMAIN env[1] \ used :
     \/ env[1][name] = "global"
     \/ env[1][name] = "func" /\ name \notin Private}

ReportUnused ==
  /\ phase = "unused"
  /\ warnings' = warnings \cup {Faulty("unused", name) : name \in IF script.wall THEN Unused ELSE {}}
  /\ Begin("done", 0)
  /\ UNCHANGED <<script, env, arity, used, labels, jumps, errors>>

Next ==
  \/ DeclareGlobal \/ StartInitialisers \/ CheckInitialiser \/ StartFunctions
  \/ DeclareFunction \/ StartStates \/ DeclareState \/ StartUnits
  \/ EnterUnit \/ DeclareParam \/ StartBody
  \/ OpenBlock \/ CloseBlock \/ Expression \/ DeclareLocal \/ CheckValue
  \/ Jump \/ Label \/ ChangeState \/ Return
  \/ LeaveUnit \/ ReportUnused

Spec == Init /\ [][Next]_vars

-----------------------------------------------------------------------------
(* The walk stays within the script, is in a function or event exactly     *)
(* while it has one to check, and only names of the script are declared.   *)
TypeOK ==
  /\ script \in Scripts
  /\ phase \in {"globals", "inits", "funcs", "states", "enter", "params", "body", "value",
                "unused", "done"}
  /\ unit \in 0 .. Len(Units)
  /\ at \in Nat \ {0}
  /\ phase \in {"enter", "params", "body", "value"} <=> unit # 0
  /\ DOMAIN env[1] \subseteq Names /\ used \subseteq Names

(* The scopes that are open are those of the blocks around the place that  *)
(* is checked, those of the parameters, and the global one: no error and   *)
(* no early return leaves one open or closes one too many (sem.c:550-554). *)
ScopesMatchBlocks ==
  Len(env) = CASE phase \in {"body", "value"} -> 2 + Depth(Unit.body, at - 1)
               [] phase = "params"            -> 2
               [] OTHER                       -> 1

(* The symbol table is used as the table allows: the walk pushes, pops and *)
(* defines one thing at a time, and never pops the global scope.           *)
DrivesTable == Table!Spec

-----------------------------------------------------------------------------
(* What the language says of names, without a symbol table: a local means  *)
(* its name from its declaration to the end of its block, and of the       *)
(* globals, functions and states of one name the first one counts.         *)
Named(seq) == {seq[i].name : i \in DOMAIN seq}

GlobalNames   == Named(script.globals)
FunctionNames == Named(script.funcs) \ GlobalNames
StateNames    == {script.states[i] : i \in DOMAIN script.states} \ (GlobalNames \cup FunctionNames)

Local(u, i, name) ==
  LET body == Units[u].body
  IN  \/ \E p \in DOMAIN Units[u].params : Units[u].params[p] = name
      \/ \E j \in 1 .. i : /\ body[j].op = "decl" /\ body[j].name = name
                          /\ \A k \in j .. i : Depth(body, k) >= Depth(body, j)

(* The references of the script that are looked at, each with its place.   *)
Places == UNION {{u} \X DOMAIN Units[u].body : u \in DOMAIN Units}

ItemAt(place) == Units[place[1]].body[place[2]]

Skipped(place) == ItemAt(place).op = "return" /\ place[1] > Len(script.funcs)

RefsAt(place) ==
  IF ItemAt(place).op \in {"expr", "decl", "return"} /\ ~Skipped(place)
    THEN RefsOf(ItemAt(place).refs) ELSE {}

Sites(op) ==
  UNION {{[unit |-> p[1], at |-> p[2], ref |-> r] : r \in {r \in RefsAt(p) : r.op = op}} : p \in Places}

InitSites(op) ==
  UNION {{[unit |-> 0, at |-> i, ref |-> r] : r \in {r \in RefsOf(script.globals[i].refs) : r.op = op}} :
           i \in DOMAIN script.globals}

Complaint(what, site) == [what |-> what, unit |-> site.unit, at |-> site.at, name |-> site.ref.name]

Complaints(set, whats) ==
  {[what |-> e.what, unit |-> e.unit, at |-> e.at, name |-> e.name] :
     e \in {e \in set : e.what \in whats}}

Done == phase = "done"

(* A name used in an expression is complained about exactly where the text *)
(* gives it no meaning that has a value: no local in sight, no global, no  *)
(* builtin constant.  A global may be used in every initialiser, a         *)
(* function or state is unknown there (sem.c:334-369, 741-765).            *)
NamesAreLexical ==
  Done =>
    LET free == {s \in Sites("use") : ~Local(s.unit, s.at, s.ref.name) /\ s.ref.name \notin GlobalNames}
        early == {s \in InitSites("use") : s.ref.name \notin GlobalNames}
        top   == FunctionNames \cup StateNames
    IN  Complaints(errors, {"undeclared", "not a value"}) =
          {Complaint("not a value", s) : s \in {s \in free : s.ref.name \in top}}
            \cup {Complaint("undeclared", s) :
                    s \in {s \in free : s.ref.name \notin top \cup BuiltinConsts}
                            \cup {s \in early : s.ref.name \notin BuiltinConsts}}

(* A call means the function of the script of that name, wherever it is    *)
(* declared and whatever locals have its name, else the builtin one; but   *)
(* no function of the script is known in an initialiser.  Any overload of  *)
(* a builtin will do for the number of arguments, and for LSO it must not  *)
(* be a Mono-only one (sem.c:216-295, DOCUMENTATION.md:144-145, 285).      *)
Declared(name) == script.funcs[CHOOSE i \in DOMAIN script.funcs :
                                 /\ script.funcs[i].name = name
                                 /\ \A j \in 1 .. i - 1 : script.funcs[j].name # name]

ByScript(site) == site.unit # 0 /\ site.ref.name \in FunctionNames

(* How many arguments the call may have; none if nothing has that name.    *)
Wanted(site) ==
  IF ByScript(site) THEN {Len(Declared(site.ref.name).params)}
  ELSE IF site.ref.name \in DOMAIN BuiltinFns
    THEN {BuiltinFns[site.ref.name][i].params : i \in DOMAIN BuiltinFns[site.ref.name]}
  ELSE {}

(* Of overloads with as many parameters the first counts; if none has as   *)
(* many as there are arguments, the first of all.                          *)
Barred(site) ==
  /\ script.lso
  /\ ~ByScript(site)
  /\ site.ref.name \in DOMAIN BuiltinFns
  /\ LET table == BuiltinFns[site.ref.name]
         args  == site.ref.args
     IN  \E i \in DOMAIN table :
           /\ table[i].mono
           /\ IF args \in Wanted(site)
                THEN table[i].params = args /\ \A j \in 1 .. i - 1 : table[j].params # args
                ELSE i = 1

CallsAreGlobal ==
  Done =>
    LET calls == Sites("call") \cup InitSites("call")
        lost  == {s \in calls : Wanted(s) = {}}
    IN  /\ Complaints(errors, {"arity", "undeclared function"}) =
             {Complaint("arity", s) : s \in {s \in calls \ lost : s.ref.args \notin Wanted(s)}}
               \cup {Complaint("undeclared function", s) : s \in {s \in lost : s.ref.name \notin LlNames}}
        /\ Complaints(errors, {"mono only"}) =
             {Complaint("mono only", s) : s \in {s \in calls : Barred(s)}}
        /\ Complaints(warnings, {"unknown ll"}) =
             {Complaint("unknown ll", s) : s \in {s \in lost : s.ref.name \in LlNames}}

(* A jump reaches the labels of its own function or event, in any block,   *)
(* before or after it, and no others; of labels of one name in it all but  *)
(* the last are blamed (sem.c:702-733).                                    *)
JumpsStayInside ==
  Done =>
    LET target(p, q) == /\ ItemAt(q).op = "label" /\ p[1] = q[1] /\ ItemAt(q).name = ItemAt(p).name
        complaint(what, p) == [what |-> what, unit |-> p[1], at |-> p[2], name |-> ItemAt(p).name]
    IN  Complaints(errors, {"no label", "duplicate label"}) =
          {complaint("no label", p) :
             p \in {p \in Places : ItemAt(p).op = "jump" /\ \A q \in Places : ~target(p, q)}}
          \cup {complaint("duplicate label", p) :
             p \in {p \in Places : /\ ItemAt(p).op = "label"
                                   /\ \E q \in Places : target(p, q) /\ q[2] > p[2]}}

(* Under -Wall the globals and functions that nothing refers to are        *)
(* reported, and only they: a local of the same name is no reference, a    *)
(* call in the function itself is one (sem.c:969-981).                     *)
UnusedAreUnused ==
  Done =>
    LET refersTo(name, s) ==
          IF s.ref.op = "use" THEN s.unit = 0 \/ ~Local(s.unit, s.at, name)
                              ELSE name \in FunctionNames
        sites == Sites("use") \cup Sites("call") \cup InitSites("use")
    IN  {w.name : w \in {w \in warnings : w.what = "unused"}} =
          {name \in GlobalNames \cup (FunctionNames \ Private) :
             /\ script.wall
             /\ \A s \in sites : s.ref.name = name =>
                   ~refersTo(name, s) \/ (s.unit = 0 /\ name \notin GlobalNames)}

(* A script without errors declares nothing twice in one place, has the    *)
(* default state, handles an event once in a state and with a signature of *)
(* the event, and changes only from events and only to states it has       *)
(* (sem.c:679-698, 741-946).                                               *)
Distinct(seq) == \A i, j \in DOMAIN seq : seq[i] = seq[j] => i = j

TopNames == [i \in DOMAIN script.globals |-> script.globals[i].name]
              \o [i \in DOMAIN script.funcs |-> script.funcs[i].name]
              \o script.states

HasSignature(event) ==
  /\ event.name \in DOMAIN BuiltinEvents
  /\ \E i \in DOMAIN BuiltinEvents[event.name] : LET signature == BuiltinEvents[event.name][i]
       IN  /\ DOMAIN signature = DOMAIN event.types
           /\ \A k \in DOMAIN signature : signature[k] \in {"void", event.types[k]}

AcceptedIsWellFormed ==
  Done /\ errors = {} =>
    /\ Distinct(TopNames)
    /\ \E i \in DOMAIN script.states : script.states[i] = "default"
    /\ Distinct([e \in DOMAIN script.events |-> <<script.events[e].state, script.events[e].name>>])
    /\ \A e \in DOMAIN script.events : HasSignature(script.events[e])
    /\ \A u \in DOMAIN Units : Distinct(Units[u].params)
    /\ \A p, q \in Places :
         /\ ItemAt(p).op = "decl" /\ ItemAt(q).op = "decl"
         /\ ItemAt(p).name = ItemAt(q).name /\ p[1] = q[1] /\ p[2] < q[2]
         => \E i \in p[2] .. q[2] :
              Depth(Units[p[1]].body, i) # Depth(Units[p[1]].body, p[2])
    /\ \A p \in Places : ItemAt(p).op = "state" =>
         /\ p[1] > Len(script.funcs)
         /\ \E i \in DOMAIN script.states : script.states[i] = ItemAt(p).name
=============================================================================
