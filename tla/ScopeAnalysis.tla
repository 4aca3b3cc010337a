---------------------------- MODULE ScopeAnalysis ----------------------------
(***************************************************************************)
(* scope-manager: one walk over a program that opens scopes, defines       *)
(* variables in them, collects references and, when a scope is closed,     *)
(* resolves what it can and hands the rest to the scope above.  A name may *)
(* be referenced before it is defined, so nothing is resolved earlier; a   *)
(* variable is one for both of TypeScript's namespaces, so what it may be  *)
(* referenced as depends on all its definitions.                           *)
(*                                                                         *)
(* The program walked over is not fixed: at each point the walk meets any  *)
(* construct that may stand there.  Scopes that differ in nothing but their*)
(* name share a kind: a block also stands for a catch clause, a for loop   *)
(* and a switch.                                                           *)
(***************************************************************************)
EXTENDS Integers, Sequences, FiniteSets

CONSTANTS Names,           \* identifiers of the program
          Pragma,          \* jsxPragma
          LibTypes,        \* names that TypeScript's libraries define as types
          LibValues,       \* and as values
          Kinds,           \* the kinds of scopes the program has
          Directives,      \* whether scripts and functions may have 'use strict', or may not
          MaxSize,         \* bound: scopes, definitions and references together
          MaxScopes, MaxReferences  \* and of each

Arguments == "arguments"

ASSUME ScopeAssumption ==
    /\ Pragma \in Names /\ LibTypes \subseteq Names /\ LibValues \subseteq Names
    /\ Arguments \notin Names /\ Pragma \notin LibTypes \cup LibValues
    /\ Directives \subseteq BOOLEAN
    /\ MaxSize \in Nat /\ MaxScopes \in Nat /\ MaxReferences \in Nat

VARIABLES
    scopes,        \* in the order of their creation; the first is the global one
    current,       \* currentScope, 0 when there is none
    closing,       \* the node whose scopes are being closed, 0 for none
    definitions,   \* of all variables
    references,    \* in the order of their creation
    left,          \* leftToResolve of each scope
    through,       \* through of each scope
    implicit,      \* names of the implicit globals
    referencedJsx  \* hasReferencedJsxFactory

vars == <<scopes, current, closing, definitions, references, left, through, implicit, referencedJsx>>

----------------------------------------------------------------------------
FunctionKinds == {"function", "arrow"}
TypeKinds     == {"type", "conditionalType", "functionType", "mappedType"}
VariableKinds == {"global", "program", "module", "function", "arrow",
                  "tsModule", "fieldInitializer", "staticBlock"}
StrictKinds   == {"class", "module", "enum", "tsModule"} \cup TypeKinds
NestedKinds   == FunctionKinds \cup TypeKinds \cup
                 {"block", "with", "class", "enum", "tsModule", "fieldInitializer", "staticBlock"}
AllKinds      == NestedKinds \cup VariableKinds \cup {"functionName"}

(* A scope: the one it is in and all it is in, the scope it shares its AST *)
(* node with (itself, mostly), and, of a function, whether the walk is past*)
(* its parameters.                                                         *)
ScopeRecords ==
    [kind : AllKinds, upper : Nat, above : SUBSET Nat, node : Nat,
     strict : BOOLEAN, inBody : BOOLEAN]

Chain(s) == IF s = 0 THEN {} ELSE scopes[s].above \cup {s}

Open(s) == s \in Chain(current)

Innermost(S) == CHOOSE s \in S : \A t \in S : t <= s

VariableScope(s) == Innermost({u \in Chain(s) : scopes[u].kind \in VariableKinds})

(* A place where statements may stand.                                     *)
AtStatements ==
    \/ scopes[current].kind \in {"global", "program", "module", "block", "staticBlock", "tsModule"}
    \/ scopes[current].kind \in FunctionKinds /\ scopes[current].inBody

AmongTypes == scopes[current].kind \in TypeKinds

Expressions == {"function", "arrow", "class"}
Types       == {"conditionalType", "functionType", "mappedType"}

(* The scopes that may be opened in the current one.                       *)
Nestable ==
    CASE AmongTypes -> Types
      [] AtStatements ->
            {"block", "with", "enum", "tsModule", "type"} \cup Expressions \cup Types
      [] scopes[current].kind = "with" -> {"block", "with"} \cup Expressions
      [] scopes[current].kind = "class" ->
            {"fieldInitializer", "staticBlock"} \cup Expressions \cup Types
      [] OTHER -> Expressions \cup Types

(* What a definition in the current scope may define: a type, a value or   *)
(* both, as classes, enums, imports and namespaces are.                    *)
Definable ==
    CASE AtStatements -> {"type", "value", "both"}
      [] scopes[current].kind \in FunctionKinds \cup {"functionType"} /\ ~AtStatements ->
            {"type", "value"}
      [] scopes[current].kind \in {"class", "type", "mappedType"} -> {"type"}
      [] scopes[current].kind = "enum" -> {"both"}
      [] OTHER -> {}

----------------------------------------------------------------------------
(* Variables.  A definition of the libraries or of nothing the program says*)
(* has no identifier.                                                      *)
Definitions ==
    [scope : Nat, name : Names \cup {Arguments},
     def : {"type", "value", "both", "none"}, inBody : BOOLEAN]

Variable(s, n) == \E d \in definitions : d.scope = s /\ d.name = n

Defs(s, n) == {d \in definitions : d.scope = s /\ d.name = n /\ d.def # "none"}

(* An ImplicitLibVariable remains what the libraries say of it, whatever   *)
(* definitions the program adds to it.                                     *)
FromLib(s, n) == s = 1 /\ n \in LibTypes \cup LibValues

IsTypeVariable(s, n) ==
    IF FromLib(s, n) THEN n \in LibTypes
    ELSE Defs(s, n) = {} \/ \E d \in Defs(s, n) : d.def \in {"type", "both"}

IsValueVariable(s, n) ==
    IF FromLib(s, n) THEN n \in LibValues
    ELSE Defs(s, n) = {} \/ \E d \in Defs(s, n) : d.def \in {"value", "both"}

(* A function, if it has a body, refuses references of its parameters to   *)
(* what only its body defines.                                             *)
IsValidResolution(s, ref) ==
    s \in ref.early /\ scopes[s].inBody => \E d \in Defs(s, ref.name) : ~d.inBody

(* Whether scope s, when it is closed, resolves a reference.               *)
Accepts(s, ref) ==
    /\ scopes[s].kind # "with"
    /\ Variable(s, ref.name)
    /\ IsValidResolution(s, ref)
    /\ \/ ref.type /\ IsTypeVariable(s, ref.name)
       \/ ref.value /\ IsValueVariable(s, ref.name)

----------------------------------------------------------------------------
Scope(kind, upper, above, node, strict) ==
    [kind |-> kind, upper |-> upper, above |-> above, node |-> node, strict |-> strict,
     inBody |-> kind \notin FunctionKinds]

Definition(s, n, def) == [scope |-> s, name |-> n, def |-> def, inBody |-> scopes[s].inBody]

(* The function object's own variable, which has no definition.            *)
OwnArguments(s) == [scope |-> s, name |-> Arguments, def |-> "none", inBody |-> FALSE]

LibVariables ==
    {[scope |-> 1, name |-> n, def |-> "none", inBody |-> TRUE] : n \in LibTypes \cup LibValues}

(* Program: a script, a module or what may return from the top level, with *)
(* or without 'use strict'.                                                *)
Init ==
    /\ \E strict \in Directives :
          LET global == Scope("global", 0, {}, 1, strict) IN
          \/ /\ scopes = <<global>>
             /\ definitions = LibVariables
          \/ /\ scopes = <<[global EXCEPT !.strict = FALSE], Scope("program", 1, {1}, 1, strict)>>
             /\ definitions = LibVariables \cup {OwnArguments(2)}
          \/ /\ scopes = <<global, Scope("module", 1, {1}, 1, TRUE)>>
             /\ definitions = LibVariables
    /\ current = Len(scopes)
    /\ closing = 0
    /\ references = <<>>
    /\ left    = [s \in 1..Len(scopes) |-> {}]
    /\ through = [s \in 1..Len(scopes) |-> {}]
    /\ implicit = {}
    /\ referencedJsx = FALSE

Walking == current # 0 /\ closing = 0

(* What the program has of scopes, definitions of its own and references.  *)
Size == Len(scopes) + Len(references) + Cardinality({d \in definitions : d.def # "none"})

Nest(added) ==
    /\ Size + Len(added) <= MaxSize /\ Len(scopes) + Len(added) <= MaxScopes
    /\ scopes'  = scopes \o added
    /\ current' = Len(scopes) + Len(added)
    /\ left'    = left \o [k \in 1..Len(added) |-> {}]
    /\ through' = through \o [k \in 1..Len(added) |-> {}]
    /\ UNCHANGED <<closing, references, implicit, referencedJsx>>

(* Mutant: a scope is put beside the current one.                          *)
NestedBeside(kind, node, strict) ==
    Scope(kind, current, scopes[current].above, node, strict)

(* A scope in the current one.                                             *)
Nested(kind, node, strict) == Scope(kind, current, Chain(current), node, strict)

StrictIn(kind, directive) ==
    scopes[current].strict \/ kind \in StrictKinds \/ directive

NextId == Len(scopes) + 1

(* The value of a class field that is met as the whole of it shares its AST*)
(* node with the scope of the initializer.                                 *)
NodesFor(kind) ==
    {NextId} \cup
    IF /\ scopes[current].kind = "fieldInitializer" /\ current = Len(scopes)
       /\ kind \in Expressions
       /\ \A r \in DOMAIN references : references[r].from # current
    THEN {scopes[current].node} ELSE {}

NestScope(kind) ==
    /\ Walking
    /\ kind \in Nestable \cap (Kinds \ (FunctionKinds \cup {"class"}))
    /\ kind = "with" => ~scopes[current].strict
    /\ Nest(<<Nested(kind, NextId, StrictIn(kind, FALSE))>>)
    /\ UNCHANGED definitions

(* Arrow functions have no arguments object.                               *)
NestFunctionScope(kind) ==
    /\ Walking
    /\ kind \in Nestable \cap Kinds \cap FunctionKinds
    /\ \E directive \in Directives, node \in NodesFor(kind) :
          Nest(<<Nested(kind, node, StrictIn(kind, directive))>>)
    /\ definitions' = definitions \cup (IF kind = "function" THEN {OwnArguments(NextId)} ELSE {})

(* A named function expression: a scope for the name and one in it.        *)
NestNamedFunctionScope(n) ==
    /\ Walking
    /\ "function" \in Nestable /\ "functionName" \in Kinds
    /\ \E directive \in Directives, node \in NodesFor("function") :
          LET naming == Nested("functionName", node, scopes[current].strict)
          IN  Nest(<<naming,
                     Scope("function", NextId, Chain(current) \cup {NextId}, node,
                           StrictIn("function", directive))>>)
    /\ definitions' = definitions \cup
          {[scope |-> NextId, name |-> n, def |-> "value", inBody |-> TRUE], OwnArguments(NextId + 1)}

(* A class: its name, if it has one, and for a declaration the name around *)
(* it, too.                                                                *)
NestClassScope(n) ==
    LET own == {[scope |-> NextId, name |-> n, def |-> "both", inBody |-> TRUE]}
        declared == own \cup {Definition(current, n, "both")}
    IN  /\ Walking
        /\ "class" \in Nestable \cap Kinds
        /\ \E node \in NodesFor("class") : Nest(<<Nested("class", node, TRUE)>>)
        /\ \E names \in {{}, own} \cup (IF AtStatements THEN {declared} ELSE {}) :
              definitions' = definitions \cup names

(* The walk comes to the body of a function.                               *)
VisitBody ==
    /\ Walking
    /\ scopes[current].kind \in FunctionKinds /\ ~scopes[current].inBody
    /\ scopes' = [scopes EXCEPT ![current].inBody = TRUE]
    /\ UNCHANGED <<current, closing, definitions, references, left, through, implicit, referencedJsx>>

Define(s, n, def) ==
    /\ Size < MaxSize
    /\ definitions' = definitions \cup {Definition(s, n, def)}
    /\ definitions' # definitions
    /\ UNCHANGED <<scopes, current, closing, references, left, through, implicit, referencedJsx>>

DefineIdentifier(n) ==
    /\ Walking
    /\ \E def \in Definable : Define(current, n, def)

(* var is defined in the variable scope.                                   *)
DefineVar(n) ==
    /\ Walking
    /\ AtStatements \/ scopes[current].kind = "with"
    /\ Define(VariableScope(current), n, "value")

(* The conditional type around function and mapped types, if there is one. *)
InferScope ==
    LET out == {s \in Chain(current) : scopes[s].kind \notin {"functionType", "mappedType"}}
    IN  IF scopes[current].kind \in {"functionType", "mappedType"}
           /\ scopes[Innermost(out)].kind = "conditionalType"
        THEN Innermost(out) ELSE current

(* infer stands in a conditional type only.                                *)
DefineInferred(n) ==
    /\ Walking
    /\ AmongTypes
    /\ \E s \in Chain(current) : scopes[s].kind = "conditionalType"
    /\ Define(InferScope, n, "type")

----------------------------------------------------------------------------
(* The functions in whose parameters a scope is.                           *)
EarlyIn(S) == {u \in S : scopes[u].kind \in FunctionKinds /\ ~scopes[u].inBody}

Reference(s, n, type, value, sloppy, early) ==
    [name |-> n, from |-> s, type |-> type, value |-> value, maybeImplicitGlobal |-> sloppy,
     early |-> early, resolved |-> 0]

(* Mutant: the reference waits in the scope the walk is in.                *)
AddReferenceHere(s, ref) ==
    /\ Size < MaxSize /\ Len(references) < MaxReferences
    /\ references' = Append(references, ref)
    /\ left' = [left EXCEPT ![current] = @ \cup {Len(references) + 1}]
    /\ UNCHANGED <<scopes, current, closing, definitions, through, implicit>>

AddReference(s, ref) ==
    /\ Size < MaxSize /\ Len(references) < MaxReferences
    /\ references' = Append(references, ref)
    /\ left' = [left EXCEPT ![s] = @ \cup {Len(references) + 1}]
    /\ UNCHANGED <<scopes, current, closing, definitions, through, implicit>>

Refer(n, type, value, sloppy) ==
    /\ AddReference(current, Reference(current, n, type, value, sloppy, EarlyIn(Chain(current))))
    /\ UNCHANGED referencedJsx

(* An identifier of an expression, or of typeof in a type.                 *)
ReferenceValue(n) == Walking /\ Refer(n, FALSE, TRUE, FALSE)

ReferenceType(n) == Walking /\ n # Arguments /\ Refer(n, TRUE, FALSE, FALSE)

(* An export, which may be of either.                                      *)
ReferenceDualValueType(n) ==
    /\ Walking /\ n # Arguments
    /\ scopes[current].kind \in {"global", "module", "tsModule"}
    /\ Refer(n, TRUE, TRUE, FALSE)

(* An assignment, which outside strict code may make a global.             *)
AssignmentExpression(n) ==
    /\ Walking /\ ~AmongTypes
    /\ Refer(n, FALSE, TRUE, ~scopes[current].strict)

(* The scope a JSX element finds the pragma in, 0 for none so far.         *)
PragmaScope ==
    LET found == {s \in Chain(current) : Variable(s, Pragma)}
    IN  IF found = {} THEN 0 ELSE Innermost(found)

(* In whose parameters the variable's first identifier is.                 *)
PragmaEarly(s) ==
    EarlyIn(scopes[s].above) \cup
    IF \E d \in Defs(s, Pragma) : ~d.inBody THEN EarlyIn({s}) ELSE {}

(* Mutant: the pragma counts as referenced before there is a variable.     *)
JSXElementOnce ==
    /\ Walking /\ ~AmongTypes /\ ~referencedJsx
    /\ referencedJsx' = TRUE
    /\ IF PragmaScope = 0
       THEN UNCHANGED <<scopes, current, closing, definitions, references, left, through, implicit>>
       ELSE AddReference(PragmaScope,
                Reference(PragmaScope, Pragma, FALSE, TRUE, FALSE, PragmaEarly(PragmaScope)))

(* A JSX element: the innermost variable with the pragma's name that there *)
(* is so far is referenced, from its own scope and by its own identifier.  *)
(* Only one is, of all elements.                                           *)
JSXElement ==
    /\ Walking /\ ~AmongTypes /\ ~referencedJsx
    /\ PragmaScope # 0
    /\ referencedJsx' = TRUE
    /\ AddReference(PragmaScope,
           Reference(PragmaScope, Pragma, FALSE, TRUE, FALSE, PragmaEarly(PragmaScope)))

----------------------------------------------------------------------------
(* Mutant: a function resolves no reference of its parameters.             *)
RestWithParameters(s) ==
    {r \in left[s] : ~Accepts(s, references[r]) \/ s \in references[r].early}

(* What is left of a scope's references once it has been closed.           *)
Rest(s) == {r \in left[s] : ~Accepts(s, references[r])}

Resolved(R, s) == [r \in DOMAIN references |->
    IF r \in R THEN [references[r] EXCEPT !.resolved = s] ELSE references[r]]

(* Mutant: names that are declared are not left out.                       *)
AllSloppilyAssigned ==
    {references[r].name : r \in {q \in left[1] : references[q].maybeImplicitGlobal}}

(* Assignments to names nobody declares.                                   *)
ImplicitGlobals ==
    {references[r].name : r \in {q \in left[1] :
        references[q].maybeImplicitGlobal /\ ~Variable(1, references[q].name)}}

Closes(s) ==
    /\ references' = Resolved(left[s] \ Rest(s), s)
    /\ through' = [through EXCEPT ![s] = Rest(s)]
    /\ left' = [u \in DOMAIN left |->
          IF u = s THEN {} ELSE IF u = scopes[s].upper THEN left[u] \cup Rest(s) ELSE left[u]]
    /\ implicit' = IF s = 1 THEN ImplicitGlobals ELSE implicit
    /\ current' = scopes[s].upper

(* The node of the current scope has been visited: its scope is closed, and*)
(* then every scope of the same node that comes to be the current one.  A  *)
(* function need not have a body, if it is not part of an expression.      *)
Close ==
    /\ current # 0
    /\ scopes[current].kind = "arrow" \/ scopes[current].node # current => scopes[current].inBody
    /\ Closes(current)
    /\ closing' = IF scopes[current].upper # 0
                     /\ scopes[scopes[current].upper].node = scopes[current].node
                  THEN scopes[current].node ELSE 0
    /\ UNCHANGED <<scopes, definitions, referencedJsx>>

(* Mutant: every reference of the name is taken.                           *)
AllNamed(n) == {r \in DOMAIN references : references[r].name = n}

(* The references that a global of ESLint's resolves, of either namespace. *)
Unresolved(n) == {r \in through[1] : references[r].name = n}

(* Mutant: what has been resolved remains among what goes through.         *)
ThroughBefore(n) == through[1]

ThroughAfter(n) == through[1] \ Unresolved(n)

(* ESLint adds the globals of its configuration when the walk is over.     *)
AddGlobals(n) ==
    /\ current = 0
    /\ definitions' = IF Variable(1, n) THEN definitions ELSE
           definitions \cup {[scope |-> 1, name |-> n, def |-> "none", inBody |-> TRUE]}
    /\ references' = Resolved(Unresolved(n), 1)
    /\ through' = [through EXCEPT ![1] = ThroughAfter(n)]
    /\ implicit' = implicit \ {n}
    /\ UNCHANGED <<scopes, current, closing, left, referencedJsx>>

Next ==
    \/ \E kind \in NestedKinds : NestScope(kind) \/ NestFunctionScope(kind)
    \/ \E n \in Names :
          \/ NestNamedFunctionScope(n) \/ NestClassScope(n)
          \/ DefineIdentifier(n) \/ DefineVar(n) \/ DefineInferred(n)
    \/ \E n \in Names \cup {Arguments} :
          \/ ReferenceValue(n) \/ ReferenceType(n) \/ ReferenceDualValueType(n)
          \/ AssignmentExpression(n)
    \/ VisitBody \/ JSXElement \/ Close
    \/ \E n \in Names : AddGlobals(n)

Spec == Init /\ [][Next]_vars

----------------------------------------------------------------------------
(* What the scope manager, its scopes, variables and references are.       *)
TypeOK ==
    /\ scopes \in Seq(ScopeRecords) /\ Len(scopes) > 0
    /\ \A s \in DOMAIN scopes :
          /\ scopes[s].upper \in 0..(s - 1)
          /\ scopes[s].above = Chain(scopes[s].upper)
    /\ current \in 0..Len(scopes) /\ closing \in 0..Len(scopes)
    /\ definitions \subseteq Definitions
    /\ \A d \in definitions : d.scope \in DOMAIN scopes
    /\ DOMAIN left = DOMAIN scopes /\ DOMAIN through = DOMAIN scopes
    /\ \A s \in DOMAIN scopes : left[s] \cup through[s] \subseteq DOMAIN references
    /\ implicit \subseteq Names \cup {Arguments}
    /\ referencedJsx \in BOOLEAN

(* Every resolved reference belongs to the nearest scope around it that has*)
(* a variable it may mean, taking into account every definition made since,*)
(* wherever it stands (ScopeBase.ts:224-255, 296-307).                     *)
ResolvesToNearest ==
    \A r \in DOMAIN references :
        LET ref == references[r] IN
        ref.resolved # 0 =>
            /\ ref.resolved \in Chain(ref.from) \ Chain(current)
            /\ current # 0 => Accepts(ref.resolved, ref)
            /\ \A t \in Chain(ref.from) : t > ref.resolved => ~Accepts(t, ref)

(* A reference not resolved yet waits in the innermost scope around it that*)
(* is still open, and nowhere else; all closed ones have let it through,   *)
(* and none of them could resolve it by now (ScopeBase.ts:252, 346-349,    *)
(* WithScope.ts:23-31).                                                    *)
NothingIsLost ==
    \A r \in DOMAIN references :
        LET ref == references[r]
            waiting == Chain(ref.from) \cap Chain(current)
        IN  ref.resolved = 0 =>
                /\ \A s \in DOMAIN scopes :
                      r \in left[s] <=> (waiting # {} /\ s = Innermost(waiting))
                /\ \A s \in Chain(ref.from) \ waiting : ~Accepts(s, ref)

(* The references that go through a closed scope are those that come from  *)
(* it or from within and are resolved further out or not at all, also when *)
(* ESLint has added globals (ScopeBase.ts:348, GlobalScope.ts:65-67).      *)
ThroughIsOutside ==
    \A s \in DOMAIN scopes \ Chain(current) :
        through[s] = {r \in DOMAIN references :
            s \in Chain(references[r].from) /\ references[r].resolved < s}

(* The implicit globals are the names that sloppy code assigns to and that *)
(* nobody declares, neither the program nor, later, ESLint's configuration *)
(* (GlobalScope.ts:44-101).                                                *)
ImplicitIsUndeclared ==
    current = 0 =>
        implicit = {references[r].name : r \in {q \in DOMAIN references :
            /\ references[q].maybeImplicitGlobal
            /\ references[q].resolved = 0
            /\ ~Variable(1, references[q].name)}}

(* Once resolved, a reference stays so, and no scope that was closed gets  *)
(* another definition, but for the global one from ESLint.                 *)
SettledForGood ==
    [][/\ \A r \in DOMAIN references :
             references[r].resolved # 0 => references'[r].resolved = references[r].resolved
       /\ \A d \in definitions' \ definitions :
             Open(d.scope) \/ d.scope > Len(scopes) \/ current = 0]_vars

(* What a JSX element references is the variable found, if it may be one of*)
(* a value (Referencer.ts:134-172).                                        *)
PragmaIsUsed ==
    referencedJsx /\ current = 0 /\ (\A d \in definitions : d.name = Pragma => d.def # "type") =>
        \E r \in DOMAIN references : references[r].name = Pragma /\ references[r].resolved # 0

(* No reference in the parameters of a function is resolved to a variable  *)
(* of the function that nothing outside the body defines as what it is     *)
(* referenced as (FunctionScope.ts:44-67).                                 *)
BodyIsHidden ==
    \A r \in DOMAIN references :
        LET ref == references[r] IN
        ref.resolved \in ref.early /\ scopes[ref.resolved].inBody =>
            \E d \in Defs(ref.resolved, ref.name) :
                ~d.inBody /\ (d.def = "both" \/ (ref.type /\ d.def = "type") \/ (ref.value /\ d.def = "value"))
=============================================================================
