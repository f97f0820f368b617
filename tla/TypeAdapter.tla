---------------------------- MODULE TypeAdapter ----------------------------
(***************************************************************************)
(* The type adapter pass of ts2abc (src/ts2panda/ts2abc/type_adapter.cpp). *)
(*                                                                         *)
(* For every function of the program it looks up the first annotation      *)
(* _ESTypeAnnotation and, in it, the first element _TypeOfInstruction,     *)
(* reads the flat array [vreg, type, vreg, type, ...] into vreg_type_map,  *)
(* walks the instruction list once and rewrites the element into a flat    *)
(* array [order, type, ...] where an argument is keyed by a negative       *)
(* ordinal and a local by the order of the sta.dyn that fills it.          *)
(*                                                                         *)
(* One step of the model is one iteration of a loop of the code.  Indices  *)
(* kept in variables (annoIdx, eleIdx, i) are the code's 0-based indices.  *)
(***************************************************************************)
EXTENDS Integers, Sequences, SequencesExt, FiniteSets, TLC

CONSTANTS
  Funcs    \* the function table: a set of sequences of functions, each
           \* [params |-> Nat, regsNum |-> Nat, ins |-> Seq(Ins),
           \*  annos |-> Seq(Annotation)]

TSTYPE_ANNO_RECORD_NAME  == "_ESTypeAnnotation"
TSTYPE_ANNO_ELEMENT_NAME == "_TypeOfInstruction"

VARIABLES
  funcs,        \* the function table, in iteration order
  annos,        \* annos[f]: the annotation list of function f (mutated)
  inputAnnos,   \* history: the annotation lists before the pass
  fi,           \* AdaptTypeForProgram: index of the function being adapted
  pc,           \* "locate": AdaptTypeForFunction, "handle": its loops
  annoIdx, eleIdx, vregTypeMap,       \* AdaptTypeForFunction locals
  i, order, orderTypeMap, finished    \* HandleTypeForFunction locals

vars == <<funcs, annos, inputAnnos, fi, pc, annoIdx, eleIdx, vregTypeMap,
          i, order, orderTypeMap, finished>>

Fn == funcs[fi]
NoMap == [v \in {} |-> 0]

(***************************************************************************)
(* Helpers: the element lookup of AdaptTypeForFunction and the emplace of  *)
(* std::unordered_map (an existing key keeps its value).                   *)
(***************************************************************************)
Emplace(m, k, v) == IF k \in DOMAIN m THEN m ELSE m @@ (k :> v)

\* 0-based index of the first annotation named _ESTypeAnnotation, or Len.
FirstTypeAnno(as) ==
  LET k == SelectInSeq(as, LAMBDA a : a.name = TSTYPE_ANNO_RECORD_NAME)
  IN IF k = 0 THEN Len(as) ELSE k - 1

\* 0-based index of the first element _TypeOfInstruction in annotation a,
\* or the number of its elements.
FirstTypeElement(a) ==
  LET k == SelectInSeq(a.elems, LAMBDA e : e.name = TSTYPE_ANNO_ELEMENT_NAME)
  IN IF k = 0 THEN Len(a.elems) ELSE k - 1

\* The pairs read from a flat array [x0, y0, x1, y1, ...].
Pairs(vals) == [k \in 1..(Len(vals) \div 2) |-> <<vals[2*k-1], vals[2*k]>>]

\* vreg_type_map as the code builds it: first occurrence of a vreg wins.
ReadVregTypeMap(vals) ==
  FoldLeft(LAMBDA m, p : Emplace(m, p[1], p[2]), NoMap, Pairs(vals))

\* The map AdaptTypeForFunction builds from an annotation list.
VregTypeMapOf(as) ==
  LET a == FirstTypeAnno(as)
  IN IF a = Len(as) \/ FirstTypeElement(as[a+1]) = Len(as[a+1].elems)
     THEN NoMap
     ELSE ReadVregTypeMap(as[a+1].elems[FirstTypeElement(as[a+1]) + 1].value)

\* MaybeArg: an instruction inside the parameter window that is a mov.dyn.
MaybeArg(f, idx) == idx < f.params /\ f.ins[idx+1].op = "MOV_DYN"

(***************************************************************************)
(* Actions                                                                 *)
(***************************************************************************)

\* AdaptTypeForFunction: locate the element and read vreg_type_map; an
\* empty map leaves the function untouched.
AdaptTypeForFunction ==
  /\ pc = "locate"
  /\ fi <= Len(funcs)
  /\ LET as == annos[fi]
         a  == FirstTypeAnno(as)
         m  == VregTypeMapOf(as)
     IN /\ annoIdx' = a
        /\ eleIdx' = IF a = Len(as) THEN 0 ELSE FirstTypeElement(as[a+1])
        /\ vregTypeMap' = m
        /\ IF m = NoMap
           THEN fi' = fi + 1 /\ UNCHANGED pc
           ELSE pc' = "handle" /\ UNCHANGED fi
        \* the locals of HandleTypeForFunction start afresh
        /\ i' = 0 /\ order' = 0
        /\ orderTypeMap' = NoMap /\ finished' = {}
  /\ UNCHANGED <<funcs, annos, inputAnnos>>

\* Loop body of HandleTypeForFunction for an invalid (label) instruction.
SkipInvalid ==
  /\ pc = "handle" /\ i < Len(Fn.ins)
  /\ Fn.ins[i+1].op = "INVALID"
  /\ i' = i + 1
  /\ UNCHANGED <<funcs, annos, inputAnnos, fi, pc, annoIdx, eleIdx,
                 vregTypeMap, order, orderTypeMap, finished>>

\* Loop body for a mov.dyn inside the parameter window: bind an argument.
\* The code only ASSERTs that the vreg is not finished yet.
BindArg ==
  /\ pc = "handle" /\ i < Len(Fn.ins)
  /\ MaybeArg(Fn, i)
  /\ LET vreg == Fn.ins[i+1].regs[1]
         arg  == Fn.ins[i+1].regs[2]
     IN IF vreg >= Fn.params \/ arg < Fn.regsNum \/ vreg \notin DOMAIN vregTypeMap
        THEN UNCHANGED <<orderTypeMap, finished>>
        ELSE /\ orderTypeMap' = Emplace(orderTypeMap, Fn.regsNum - arg - 1,
                                        vregTypeMap[vreg])
             /\ finished' = finished \cup {vreg}
  /\ order' = order + 1 /\ i' = i + 1
  /\ UNCHANGED <<funcs, annos, inputAnnos, fi, pc, annoIdx, eleIdx, vregTypeMap>>

\* Mutant: the finished check dropped, a second sta.dyn rebinds the vreg.
BindLocalRebind ==
  /\ pc = "handle" /\ i < Len(Fn.ins)
  /\ Fn.ins[i+1].op = "STA_DYN"
  /\ ~MaybeArg(Fn, i)
  /\ LET vreg == Fn.ins[i+1].regs[1]
     IN IF vreg \in DOMAIN vregTypeMap
        THEN /\ orderTypeMap' = Emplace(orderTypeMap, order, vregTypeMap[vreg])
             /\ finished' = finished \cup {vreg}
        ELSE UNCHANGED <<orderTypeMap, finished>>
  /\ order' = order + 1 /\ i' = i + 1
  /\ UNCHANGED <<funcs, annos, inputAnnos, fi, pc, annoIdx, eleIdx, vregTypeMap>>

\* Loop body for a sta.dyn outside the window: bind a local to its order.
BindLocal ==
  /\ pc = "handle" /\ i < Len(Fn.ins)
  /\ Fn.ins[i+1].op = "STA_DYN"
  /\ ~MaybeArg(Fn, i)
  /\ LET vreg == Fn.ins[i+1].regs[1]
     IN IF vreg \in DOMAIN vregTypeMap /\ vreg \notin finished
        THEN /\ orderTypeMap' = Emplace(orderTypeMap, order, vregTypeMap[vreg])
             /\ finished' = finished \cup {vreg}
        ELSE UNCHANGED <<orderTypeMap, finished>>
  /\ order' = order + 1 /\ i' = i + 1
  /\ UNCHANGED <<funcs, annos, inputAnnos, fi, pc, annoIdx, eleIdx, vregTypeMap>>

\* Loop body for any other valid instruction: only the order advances.
SkipOther ==
  /\ pc = "handle" /\ i < Len(Fn.ins)
  /\ Fn.ins[i+1].op \notin {"INVALID", "STA_DYN"}
  /\ ~MaybeArg(Fn, i)
  /\ order' = order + 1 /\ i' = i + 1
  /\ UNCHANGED <<funcs, annos, inputAnnos, fi, pc, annoIdx, eleIdx,
                 vregTypeMap, orderTypeMap, finished>>

\* UpdateTypeAnnotation: write [order, type, ...] in the iteration order of
\* the unordered_map, which the code leaves unspecified.
UpdateTypeAnnotation ==
  /\ pc = "handle" /\ i = Len(Fn.ins)
  /\ \E keys \in SetToSeqs(DOMAIN orderTypeMap) :
       LET as   == annos[fi]
           as1  == IF annoIdx = Len(as)
                   THEN Append(as, [name |-> TSTYPE_ANNO_RECORD_NAME, elems |-> <<>>])
                   ELSE as
           e    == IF annoIdx = Len(as) THEN 0 ELSE eleIdx
           ele  == [name |-> TSTYPE_ANNO_ELEMENT_NAME,
                    value |-> FlattenSeq([k \in 1..Len(keys) |->
                                          <<keys[k], orderTypeMap[keys[k]]>>])]
           old  == as1[annoIdx+1].elems
           new  == IF e = Len(old) THEN Append(old, ele)
                   ELSE [old EXCEPT ![e+1] = ele]
       IN annos' = [annos EXCEPT ![fi] = [as1 EXCEPT ![annoIdx+1].elems = new]]
  /\ pc' = "locate" /\ fi' = fi + 1
  /\ UNCHANGED <<funcs, inputAnnos, annoIdx, eleIdx, vregTypeMap, i, order,
                 orderTypeMap, finished>>

Done ==
  /\ fi > Len(funcs)
  /\ UNCHANGED vars

Init ==
  /\ funcs \in Funcs
  /\ annos = [f \in 1..Len(funcs) |-> funcs[f].annos]
  /\ inputAnnos = annos
  /\ fi = 1 /\ pc = "locate"
  /\ annoIdx = 0 /\ eleIdx = 0 /\ vregTypeMap = NoMap
  /\ i = 0 /\ order = 0 /\ orderTypeMap = NoMap /\ finished = {}

Next ==
  \/ AdaptTypeForFunction
  \/ SkipInvalid \/ BindArg \/ BindLocal \/ SkipOther
  \/ UpdateTypeAnnotation
  \/ Done

Spec == Init /\ [][Next]_vars

-----------------------------------------------------------------------------
(***************************************************************************)
(* Reference definition of the rewritten annotation (spec section 4.9),    *)
(* stated over the whole instruction list instead of as a loop.  For the   *)
(* 1-based position p of an instruction of function f with map m:          *)
(***************************************************************************)
\* The order of a valid instruction: valid instructions before it.
OrderOf(f, p) == Cardinality({q \in 1..p - 1 : f.ins[q].op # "INVALID"})

\* The first Len(params) instructions, counted with the invalid ones.
InParamWindow(f, p) == p <= f.params /\ f.ins[p].op = "MOV_DYN"

\* A mov.dyn of the window that binds a typed parameter vreg to an argument.
ArgBinding(f, m, p) ==
  /\ InParamWindow(f, p)
  /\ f.ins[p].regs[1] < f.params /\ f.ins[p].regs[2] >= f.regsNum
  /\ f.ins[p].regs[1] \in DOMAIN m

\* A sta.dyn outside that window into a typed vreg.
LocalBinding(f, m, p) ==
  /\ f.ins[p].op = "STA_DYN" /\ ~InParamWindow(f, p)
  /\ f.ins[p].regs[1] \in DOMAIN m

Binding(f, m, p) == ArgBinding(f, m, p) \/ LocalBinding(f, m, p)

\* The key an entry gets: -1, -2, ... for an argument, the order for a local.
KeyOf(f, p) ==
  IF f.ins[p].op = "MOV_DYN" THEN f.regsNum - f.ins[p].regs[2] - 1
  ELSE OrderOf(f, p)

\* Each typed vreg is bound by its first binding instruction only, and of two
\* bindings with the same key the earlier one is kept.
RefTypeOfInstruction(f, m) ==
  LET First(p) == /\ Binding(f, m, p)
                  /\ \A q \in 1..p - 1 :
                       Binding(f, m, q) => f.ins[q].regs[1] # f.ins[p].regs[1]
      Kept == {p \in 1..Len(f.ins) :
                 First(p) /\ \A q \in 1..p - 1 : First(q) => KeyOf(f, q) # KeyOf(f, p)}
  IN {<<KeyOf(f, p), m[f.ins[p].regs[1]]>> : p \in Kept}

\* What the code ASSERTs of its input: an argument vreg is never bound
\* before its mov.dyn (type_adapter.cpp:93).
ArgsBoundFirst(f) ==
  LET m == VregTypeMapOf(f.annos)
  IN \A p \in 1..Len(f.ins) : ArgBinding(f, m, p) =>
       \A q \in 1..p - 1 : Binding(f, m, q) => f.ins[q].regs[1] # f.ins[p].regs[1]

\* The _TypeOfInstruction pairs of an annotation list after the pass.
AdaptedPairs(as) ==
  LET a == FirstTypeAnno(as)
      e == FirstTypeElement(as[a+1])
  IN Range(Pairs(as[a+1].elems[e+1].value))

-----------------------------------------------------------------------------
(***************************************************************************)
(* Properties                                                              *)
(***************************************************************************)
TypeOK ==
  /\ fi \in 1..Len(funcs) + 1
  /\ pc \in {"locate", "handle"}
  /\ i \in Nat /\ order \in 0..i
  /\ finished \subseteq DOMAIN vregTypeMap
  /\ \A o \in DOMAIN orderTypeMap : orderTypeMap[o] \in Range(vregTypeMap)

\* Once HandleTypeForFunction and UpdateTypeAnnotation have run for a
\* function, the _TypeOfInstruction element the next reader finds holds
\* exactly the pairs of the reference definition: arguments at -1, -2, ...
\* for their mov.dyn in the parameter window, each other typed vreg at the
\* order (invalid instructions not counted) of its first sta.dyn, and a
\* function without a map is left as it was.
AdaptMatchesReference ==
  \A f \in 1..fi - 1 :
    LET m == VregTypeMapOf(inputAnnos[f])
    IN IF m = NoMap THEN annos[f] = inputAnnos[f]
       ELSE AdaptedPairs(annos[f]) = RefTypeOfInstruction(funcs[f], m)

\* Spec 4.9: a used vreg is marked finished "to prevent double-binding", so
\* each typed vreg yields at most one (order, type) entry.
AtMostOneEntryPerVreg ==
  \A f \in 1..fi - 1 :
    LET m == VregTypeMapOf(inputAnnos[f])
    IN m # NoMap => Cardinality(AdaptedPairs(annos[f])) <= Cardinality(DOMAIN m)

=============================================================================
