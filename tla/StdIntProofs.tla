---------------------------- MODULE StdIntProofs ----------------------------
(***************************************************************************)
(* The cascades of stdint.h are right for every set of compilers: each     *)
(* macro follows, section by section, the narrowest of the types read so   *)
(* far, and what a section publishes is never touched by a later one.      *)
(***************************************************************************)
EXTENDS StdInt, TLAPS

-----------------------------------------------------------------------------
(* The inductive invariant. *)

\* The header is read from its types to its constants to its limits.
Parts == {"types", "constants", "limits"}

\* The parts that lie behind.
Passed ==
    IF part = "types" THEN {}
    ELSE IF part = "constants" THEN {"types"}
    ELSE IF part = "limits" THEN {"types", "constants"} ELSE Parts

\* The widths whose section of part p has been read.
Read(p) ==
    IF part = p THEN {v \in Widths : v > width}
    ELSE IF p \in Passed THEN Widths ELSE {}

\* What the section of types has defined so far.
TypesInv ==
    /\ \A n \in Standard : IsNarrowest(leastType[n], n, target.types \intersect Read("types"))
    /\ \A n \in Standard \intersect Read("types") : typedefs[n] = leastType[n]
    /\ \A n \in Other \intersect Read("types") :
          typedefs[n] = IF n \in target.types THEN n ELSE Undefined

\* The suffix that goes with a type.
SuffixOf(w) == IF w = Undefined THEN "plain" ELSE target.suffix[w]
\* The macro of a width: that of its type, where it has one.
ConstantOf(w) == IF w = Undefined THEN NoMacro ELSE target.suffix[w]

\* What the section of constants has defined so far.
ConstantsInv ==
    /\ \A n \in Standard : \E w \in Widths \union {Undefined} :
          /\ IsNarrowest(w, n, target.types \intersect Read("constants"))
          /\ leastSuffix[n] = SuffixOf(w)
    /\ \A n \in Read("constants") : constants[n] = ConstantOf(typedefs[n])

\* What the section of limits has defined so far.
LimitsInv ==
    /\ \A n \in Standard : IsNarrowest(leastLimit[n], n, target.types \intersect Read("limits"))
    /\ \A n \in Read("limits") : n \in limits <=> typedefs[n] # Undefined
    /\ limits \subseteq Read("limits")
    /\ target.c2x => \A n \in Standard :
          leastWidth[n] = IF n = 8 /\ leastLimit[8] = 64 THEN Undefined ELSE leastLimit[n]

\* The inductive invariant.
StdIntInv == StdIntTypeOK /\ TypesInv /\ ConstantsInv /\ LimitsInv

-----------------------------------------------------------------------------
(* Lemmas. *)

\* There is one narrowest width.
LEMMA NarrowestUnique ==
    ASSUME NEW S \in SUBSET Widths, NEW n \in Standard, NEW a, NEW b,
           IsNarrowest(a, n, S), IsNarrowest(b, n, S)
    PROVE  a = b
<1>1. \A v \in S : v \in Nat /\ v # Undefined
  BY DEF Widths, Standard, Other, Undefined
<1>2. n \in Nat
  BY DEF Standard
<1> QED BY <1>1, <1>2 DEF IsNarrowest

\* Reading the section of the next width below makes that width the narrowest
\* for the standard widths it reaches, if it exists, and changes nothing else.
LEMMA NarrowestStep ==
    ASSUME NEW T \in SUBSET Widths, NEW R \in SUBSET Widths, NEW w \in Widths,
           NEW n \in Standard, NEW a,
           R = {v \in Widths : v > w},
           IsNarrowest(a, n, T \intersect R)
    PROVE  IsNarrowest(IF w \in T /\ n <= w THEN w ELSE a, n, T \intersect (R \union {w}))
<1>1. \A v \in Widths : v \in Nat /\ v # Undefined
  BY DEF Widths, Standard, Other, Undefined
<1>2. n \in Nat
  BY DEF Standard
<1>3. CASE w \in T /\ n <= w
  BY <1>1, <1>2, <1>3 DEF IsNarrowest
<1>4. CASE ~ (w \in T /\ n <= w)
  BY <1>1, <1>2, <1>4 DEF IsNarrowest
<1> QED BY <1>3, <1>4

\* Only widths of at least n count.
LEMMA NarrowestAbove ==
    ASSUME NEW S \in SUBSET Widths, NEW T \in SUBSET Widths, NEW n \in Standard, NEW a,
           \A v \in Widths : n <= v => (v \in S <=> v \in T),
           IsNarrowest(a, n, S)
    PROVE  IsNarrowest(a, n, T)
<1>1. \A v \in Widths : v \in Nat /\ v # Undefined
  BY DEF Widths, Standard, Other, Undefined
<1>2. n \in Nat
  BY DEF Standard
<1> QED BY <1>1, <1>2 DEF IsNarrowest

\* A section of a part adds its width to what has been read of that part.
LEMMA ReadStep ==
    ASSUME StdIntTypeOK, part \in Parts, NextSection
    PROVE  /\ part' \in Parts \union {"end"} /\ width' \in Widths
           /\ width \in Widths \ Read(part)
           /\ Read(part) = {v \in Widths : v > width}
           /\ \A q \in Parts :
                  Read(q)' = IF q = part THEN Read(q) \union {width} ELSE Read(q)
<1>1. width \in Widths
  BY DEF StdIntTypeOK
<1>2. /\ part' \in Parts \union {"end"} /\ width' \in Widths
  BY <1>1 DEF NextSection, Parts, Widths, Standard, Other
<1>3. /\ Read(part) = {v \in Widths : v > width}
      /\ width \in Widths \ Read(part)
  BY <1>1 DEF Read, Widths, Standard, Other
<1>4. ASSUME NEW q \in Parts
      PROVE  Read(q)' = IF q = part THEN Read(q) \union {width} ELSE Read(q)
  <2>1. CASE width > 8
    <3>1. part' = part /\ width' = width - 8
      BY <2>1 DEF NextSection
    <3>2. {v \in Widths : v > width'} = {v \in Widths : v > width} \union {width}
      BY <1>1, <2>1, <3>1 DEF Widths, Standard, Other
    <3>3. Passed' = Passed
      BY <3>1 DEF Passed
    <3> QED BY <3>1, <3>2, <3>3 DEF Read
  <2>2. CASE ~ (width > 8)
    <3>1. width = 8
      BY <1>1, <2>2 DEF Widths, Standard, Other
    <3>2. {v \in Widths : v > width} \union {width} = Widths
      BY <3>1 DEF Widths, Standard, Other
    <3>3. {v \in Widths : v > width'} = {}
      BY <2>2 DEF NextSection, Widths, Standard, Other
    <3>4. part' = IF part = "types" THEN "constants"
                  ELSE IF part = "constants" THEN "limits" ELSE "end"
      BY <2>2 DEF NextSection
    <3> QED BY <3>2, <3>3, <3>4 DEF Read, Passed, Parts
  <2> QED BY <2>1, <2>2
<1> QED BY <1>2, <1>3, <1>4

-----------------------------------------------------------------------------
(* Types. *)

\* A section gives the header's names values of their types.
LEMMA TypesStep == StdIntTypeOK /\ [StdIntNext]_stdintVars => StdIntTypeOK'
<1> SUFFICES ASSUME StdIntTypeOK, [StdIntNext]_stdintVars
             PROVE  StdIntTypeOK'
  OBVIOUS
<1> USE DEF StdIntTypeOK
<1>1. /\ target.types \subseteq Widths /\ target.suffix \in [Widths -> Suffixes]
      /\ width \in Widths
  BY StdIntAssumption
<1>2. target.suffix[width] \in Suffixes
  BY <1>1
<1>3. NextSection => width' \in Widths /\ part' \in Parts \union {"end"} /\ target' = target
  BY DEF NextSection, Parts, Widths, Standard, Other
<1>4. RedefineTypes => leastType' \in [Standard -> Widths \union {Undefined}]
  BY <1>1 DEF RedefineTypes, Redefined
<1>5. RedefineSuffixes => leastSuffix' \in [Standard -> Suffixes]
  BY <1>2 DEF RedefineSuffixes, Redefined
<1>6. RedefineLimits => leastLimit' \in [Standard -> Widths \union {Undefined}]
  BY <1>1 DEF RedefineLimits, Redefined
<1>7. ASSUME NEW reach, RedefineWidths(reach)
      PROVE  leastWidth' \in [Standard -> Widths \union {Undefined}]
  BY <1>1, <1>7 DEF RedefineWidths, Redefined
<1>8. ASSUME NEW defined, Publish(defined)
      PROVE  limits' \subseteq Widths /\ UNCHANGED <<typeVars, constantVars>> /\ NextSection
  BY <1>1, <1>8 DEF Publish
<1>9. CASE StandardTypes
  <2>1. leastType'[width] \in Widths \union {Undefined}
    BY <1>4, <1>9 DEF StandardTypes
  <2> QED BY <1>1, <1>3, <1>4, <1>9, <2>1 DEF StandardTypes, constantVars, limitVars, Parts
<1>10. CASE OtherTypes
  BY <1>1, <1>3, <1>4, <1>10 DEF OtherTypes, constantVars, limitVars, Parts
<1>11. CASE StandardConstants
  <2>1. leastSuffix'[width] \in Suffixes
    BY <1>5, <1>11 DEF StandardConstants
  <2> QED BY <1>1, <1>3, <1>5, <1>11, <2>1 DEF StandardConstants, typeVars, limitVars, Parts
<1>12. CASE OtherConstants
  BY <1>2, <1>3, <1>5, <1>12 DEF OtherConstants, typeVars, limitVars, Parts
<1>13. CASE Limits64
  BY <1>3, <1>6, <1>7, <1>8, <1>13 DEF Limits64, typeVars, constantVars, Parts
<1>14. CASE OtherLimits
  BY <1>3, <1>6, <1>7, <1>8, <1>14 DEF OtherLimits, typeVars, constantVars, Parts
<1>15. CASE StandardLimits
  BY <1>3, <1>6, <1>7, <1>8, <1>15 DEF StandardLimits, typeVars, constantVars, Parts
<1>16. CASE UNCHANGED stdintVars
  BY <1>16 DEF stdintVars, typeVars, constantVars, limitVars
<1> QED BY <1>9, <1>10, <1>11, <1>12, <1>13, <1>14, <1>15, <1>16 DEF StdIntNext

\* A step of one part changes the part's own variables only.
LEMMA PartStep ==
    ASSUME StdIntTypeOK, StdIntNext
    PROVE  /\ part \in Parts /\ NextSection /\ target' = target
           /\ part = "types" => UNCHANGED <<constantVars, limitVars>>
           /\ part = "constants" => UNCHANGED <<typeVars, limitVars>>
           /\ part = "limits" => UNCHANGED <<typeVars, constantVars>>
  BY DEF StdIntNext, StandardTypes, OtherTypes, StandardConstants, OtherConstants,
         Limits64, OtherLimits, StandardLimits, Publish, NextSection, Parts

-----------------------------------------------------------------------------
(* The types. *)

\* What a cascade's macros follow before a section they follow after it.
LEMMA CascadeStep ==
    ASSUME StdIntTypeOK, part \in Parts, NextSection,
           NEW macro \in [Standard -> Widths \union {Undefined}],
           NEW next,
           next = IF Implemented THEN Redefined(macro, Reach, width) ELSE macro,
           \A n \in Standard : IsNarrowest(macro[n], n, target.types \intersect Read(part)),
           NEW n \in Standard
    PROVE  IsNarrowest(next[n], n, target.types \intersect (Read(part) \union {width}))
<1>1. target.types \in SUBSET Widths /\ width \in Widths
  BY StdIntAssumption DEF StdIntTypeOK
<1>2. Read(part) = {v \in Widths : v > width}
  BY ReadStep
<1>3. next[n] = IF width \in target.types /\ n <= width THEN width ELSE macro[n]
  BY DEF Implemented, Redefined, Reach
<1>4. IsNarrowest(macro[n], n, target.types \intersect Read(part))
  OBVIOUS
<1>5. Read(part) \in SUBSET Widths
  BY <1>2
<1>6. IsNarrowest(IF width \in target.types /\ n <= width THEN width ELSE macro[n], n,
                  target.types \intersect (Read(part) \union {width}))
  <2> DEFINE T == target.types
             R == Read(part)
             a == macro[n]
  <2>1. T \in SUBSET Widths /\ R \in SUBSET Widths /\ width \in Widths
        /\ R = {v \in Widths : v > width} /\ IsNarrowest(a, n, T \intersect R)
    BY <1>1, <1>2, <1>4, <1>5
  <2> HIDE DEF T, R, a
  <2>2. IsNarrowest(IF width \in T /\ n <= width THEN width ELSE a, n, T \intersect (R \union {width}))
    BY <2>1, NarrowestStep
  <2> QED BY <2>2 DEF T, R, a
<1> QED
  BY <1>3, <1>6

\* A section keeps the least types the narrowest of those read.
LEMMA TypesInvStep == StdIntInv /\ [StdIntNext]_stdintVars => TypesInv'
<1> SUFFICES ASSUME StdIntInv, [StdIntNext]_stdintVars
             PROVE  TypesInv'
  OBVIOUS
<1> USE DEF StdIntInv
<1>1. CASE UNCHANGED stdintVars
  BY <1>1 DEF stdintVars, typeVars, TypesInv, Read, Passed, IsNarrowest
<1>2. CASE StdIntNext
  <2>1. /\ part \in Parts /\ NextSection /\ target' = target
        /\ part # "types" => UNCHANGED <<leastType, typedefs>>
    BY <1>2, PartStep DEF Parts, typeVars
  <2>2. CASE part # "types"
    <3>1. Read("types")' = Read("types")
      BY <2>1, <2>2, ReadStep DEF Parts
    <3> QED BY <2>1, <2>2, <3>1 DEF TypesInv, IsNarrowest
  <2>3. CASE part = "types"
    <3>1. /\ RedefineTypes
          /\ typedefs' = [typedefs EXCEPT ![width] =
                IF width \in Standard THEN leastType'[width]
                ELSE IF Implemented THEN width ELSE Undefined]
      BY <1>2, <2>3 DEF StdIntNext, StandardTypes, OtherTypes, StandardConstants,
           OtherConstants, Limits64, OtherLimits, StandardLimits, Standard, Other
    <3>2. /\ Read("types")' = Read("types") \union {width}
          /\ width \in Widths \ Read("types")
          /\ Read("types") = {v \in Widths : v > width}
      BY <2>1, <2>3, ReadStep DEF Parts
    <3>3. ASSUME NEW n \in Standard
          PROVE  IsNarrowest(leastType[n], n, target.types \intersect Read("types"))'
      <4>1. IsNarrowest(leastType'[n], n, target.types \intersect (Read("types") \union {width}))
        BY <2>1, <2>3, <3>1, CascadeStep DEF RedefineTypes, TypesInv, StdIntTypeOK
      <4> QED BY <2>1, <3>2, <4>1 DEF IsNarrowest
    <3>4. ASSUME NEW n \in Standard, n \in Read("types")'
          PROVE  typedefs'[n] = leastType'[n]
      <4>1. CASE n = width
        BY <3>1, <3>2, <4>1 DEF StdIntTypeOK
      <4>2. CASE n # width
        <5>1. n > width /\ n \in Read("types")
          BY <3>2, <3>4, <4>2
        <5>2. leastType'[n] = leastType[n]
          BY <3>1, <3>2, <5>1 DEF RedefineTypes, Redefined, Reach, Standard, Widths, Other
        <5> QED BY <3>1, <4>2, <5>1, <5>2 DEF TypesInv, StdIntTypeOK, Widths
      <4> QED BY <4>1, <4>2
    <3>5. ASSUME NEW n \in Other, n \in Read("types")'
          PROVE  typedefs'[n] = IF n \in target.types THEN n ELSE Undefined
      <4>1. n \notin Standard /\ n \in Widths
        BY DEF Standard, Other, Widths
      <4>2. CASE n = width
        BY <3>1, <4>1, <4>2 DEF StdIntTypeOK, Implemented
      <4>3. CASE n # width
        BY <3>1, <3>2, <3>5, <4>1, <4>3 DEF StdIntTypeOK, TypesInv
      <4> QED BY <4>2, <4>3
    <3> QED BY <2>1, <3>3, <3>4, <3>5 DEF TypesInv
  <2> QED BY <2>2, <2>3
<1> QED BY <1>1, <1>2

\* Once the types are read, what is published is the narrowest type.
LEMMA TypedefsFinal ==
    ASSUME StdIntTypeOK, TypesInv, part # "types"
    PROVE  /\ \A n \in Standard : /\ typedefs[n] = leastType[n]
                                  /\ IsNarrowest(leastType[n], n, target.types)
           /\ \A n \in Other : typedefs[n] = IF n \in target.types THEN n ELSE Undefined
<1>1. Read("types") = Widths
  BY DEF Read, Passed, StdIntTypeOK, Parts
<1>2. target.types \intersect Widths = target.types
  BY StdIntAssumption DEF StdIntTypeOK
<1> QED BY <1>1, <1>2 DEF TypesInv, Standard, Other, Widths

\* A width's macro is settled by its own section.
LEMMA SettledBySection ==
    ASSUME StdIntTypeOK, TypesInv, part \in Parts \ {"types"}, NextSection, width \in Standard,
           NEW w, IsNarrowest(w, width, target.types \intersect (Read(part) \union {width}))
    PROVE  w = leastType[width]
<1> DEFINE S == target.types \intersect (Read(part) \union {width})
           T == target.types
           n == width
           a == leastType[width]
<1>1. T \in SUBSET Widths
  BY StdIntAssumption DEF StdIntTypeOK
<1>2. Read(part) = {v \in Widths : v > width} /\ width \in Widths
  BY ReadStep DEF StdIntTypeOK
<1>3. S \in SUBSET Widths
  BY <1>1
<1>4. \A v \in Widths : n <= v => (v \in S <=> v \in T)
  BY <1>2 DEF Widths, Standard, Other
<1>5. IsNarrowest(w, n, S) /\ IsNarrowest(a, n, T) /\ n \in Standard
  BY TypedefsFinal
<1> HIDE DEF S, T, n, a
<1>6. IsNarrowest(w, n, T)
  BY <1>1, <1>3, <1>4, <1>5, NarrowestAbove
<1>7. w = a
  BY <1>1, <1>5, <1>6, NarrowestUnique
<1> QED BY <1>7 DEF a

-----------------------------------------------------------------------------
(* The constants. *)

\* A section keeps the suffixes those of the least types.
LEMMA ConstantsInvStep == StdIntInv /\ [StdIntNext]_stdintVars => ConstantsInv'
<1> SUFFICES ASSUME StdIntInv, [StdIntNext]_stdintVars
             PROVE  ConstantsInv'
  OBVIOUS
<1> USE DEF StdIntInv
<1>1. CASE UNCHANGED stdintVars
  BY <1>1 DEF stdintVars, typeVars, constantVars, ConstantsInv, Read, Passed, IsNarrowest,
       SuffixOf, ConstantOf
<1>2. CASE StdIntNext
  <2>1. /\ part \in Parts /\ NextSection /\ target' = target
        /\ part # "types" => UNCHANGED typedefs
        /\ part # "constants" => UNCHANGED <<leastSuffix, constants>>
    BY <1>2, PartStep DEF Parts, typeVars, constantVars
  <2>2. CASE part # "constants"
    <3>1. Read("constants")' = Read("constants")
      BY <2>1, <2>2, ReadStep DEF Parts
    <3>2. part = "types" => Read("constants") = {}
      BY DEF Read, Passed
    <3> QED
      BY <2>1, <2>2, <3>1, <3>2 DEF ConstantsInv, IsNarrowest, SuffixOf, ConstantOf
  <2>3. CASE part = "constants"
    <3>1. /\ RedefineSuffixes
          /\ constants' = [constants EXCEPT ![width] =
                IF width \in Standard
                THEN IF leastType[width] = Undefined THEN NoMacro ELSE leastSuffix'[width]
                ELSE IF Implemented THEN target.suffix[width] ELSE NoMacro]
      BY <1>2, <2>3 DEF StdIntNext, StandardTypes, OtherTypes, StandardConstants,
           OtherConstants, Limits64, OtherLimits, StandardLimits, Standard, Other
    <3>2. /\ Read("constants")' = Read("constants") \union {width}
          /\ width \in Widths \ Read("constants")
          /\ Read("constants") = {v \in Widths : v > width}
      BY <2>1, <2>3, ReadStep DEF Parts
    <3>3. ASSUME NEW n \in Standard
          PROVE  \E w \in Widths \union {Undefined} :
                    /\ IsNarrowest(w, n, target.types \intersect (Read("constants") \union {width}))
                    /\ leastSuffix'[n] = SuffixOf(w)
      <4>1. PICK a \in Widths \union {Undefined} :
               /\ IsNarrowest(a, n, target.types \intersect Read("constants"))
               /\ leastSuffix[n] = SuffixOf(a)
        BY DEF ConstantsInv
      <4> DEFINE w == IF width \in target.types /\ n <= width THEN width ELSE a
                 T == target.types
                 R == Read("constants")
      <4>2. T \in SUBSET Widths /\ R \in SUBSET Widths
        BY <3>2, StdIntAssumption DEF StdIntTypeOK
      <4>3. leastSuffix'[n] = SuffixOf(w)
        <5>1. leastSuffix'[n] = IF width \in target.types /\ n <= width
                                THEN target.suffix[width] ELSE leastSuffix[n]
          BY <3>1 DEF RedefineSuffixes, Redefined, Reach, Implemented
        <5>2. width # Undefined
          BY <3>2 DEF Widths, Standard, Other, Undefined
        <5> QED BY <4>1, <5>1, <5>2 DEF SuffixOf
      <4>4. IsNarrowest(a, n, T \intersect R) /\ R = {v \in Widths : v > width}
        BY <3>2, <4>1
      <4> HIDE DEF T, R
      <4>5. IsNarrowest(IF width \in T /\ n <= width THEN width ELSE a, n, T \intersect (R \union {width}))
        BY <3>2, <4>2, <4>4, NarrowestStep
      <4>6. IsNarrowest(w, n, target.types \intersect (Read("constants") \union {width}))
        BY <4>5 DEF T, R
      <4>7. w \in Widths \union {Undefined}
        BY <3>2
      <4> HIDE DEF w
      <4> QED BY <4>3, <4>6, <4>7
    <3>4. ASSUME NEW n \in Standard
          PROVE  (\E w \in Widths \union {Undefined} :
                    /\ IsNarrowest(w, n, target.types \intersect Read("constants"))
                    /\ leastSuffix[n] = SuffixOf(w))'
      BY <2>1, <3>2, <3>3 DEF IsNarrowest, SuffixOf
    <3>5. constants'[width] = ConstantOf(typedefs[width])
      <4>1. CASE width \in Standard
        <5>1. PICK w \in Widths \union {Undefined} :
                /\ IsNarrowest(w, width, target.types \intersect (Read("constants") \union {width}))
                /\ leastSuffix'[width] = SuffixOf(w)
          BY <3>3, <4>1
        <5>2. w = leastType[width]
          BY <2>1, <2>3, <4>1, <5>1, SettledBySection DEF Parts
        <5>3. typedefs[width] = leastType[width]
          BY <2>3, <4>1, TypedefsFinal
        <5> QED
          BY <3>1, <3>2, <4>1, <5>1, <5>2, <5>3 DEF StdIntTypeOK, ConstantOf, SuffixOf
      <4>2. CASE width \notin Standard
        <5>1. width \in Other
          BY <3>2, <4>2 DEF Widths
        <5>2. typedefs[width] = IF width \in target.types THEN width ELSE Undefined
          BY <2>3, <5>1, TypedefsFinal
        <5>3. width # Undefined
          BY <5>1 DEF Other, Undefined
        <5> QED
          BY <3>1, <3>2, <4>2, <5>2, <5>3 DEF StdIntTypeOK, ConstantOf, Implemented
      <4> QED BY <4>1, <4>2
    <3>6. ASSUME NEW n \in Read("constants")'
          PROVE  constants'[n] = ConstantOf(typedefs[n])
      <4>1. CASE n = width
        BY <3>5, <4>1
      <4>2. CASE n # width
        BY <3>1, <3>2, <3>6, <4>2 DEF ConstantsInv, StdIntTypeOK
      <4> QED BY <4>1, <4>2
    <3>7. \A n \in Read("constants")' : constants'[n] = ConstantOf(typedefs[n])'
      BY <2>1, <2>3, <3>6 DEF ConstantOf
    <3> QED BY <3>4, <3>7 DEF ConstantsInv
  <2> QED BY <2>2, <2>3
<1> QED BY <1>1, <1>2

-----------------------------------------------------------------------------
(* The limits. *)

\* A section keeps the limits, and the widths told to the preprocessor, in step
\* with the least types.
LEMMA LimitsInvStep == StdIntInv /\ [StdIntNext]_stdintVars => LimitsInv'
<1> SUFFICES ASSUME StdIntInv, [StdIntNext]_stdintVars
             PROVE  LimitsInv'
  OBVIOUS
<1> USE DEF StdIntInv
<1>1. CASE UNCHANGED stdintVars
  BY <1>1 DEF stdintVars, typeVars, limitVars, LimitsInv, Read, Passed, IsNarrowest
<1>2. CASE StdIntNext
  <2>1. /\ part \in Parts /\ NextSection /\ target' = target
        /\ part # "types" => UNCHANGED typedefs
        /\ part # "limits" => UNCHANGED <<leastLimit, leastWidth, limits>>
    BY <1>2, PartStep DEF Parts, typeVars, limitVars
  <2>2. CASE part # "limits"
    <3>1. Read("limits")' = Read("limits")
      BY <2>1, <2>2, ReadStep DEF Parts
    <3>2. Read("limits") = {}
      BY <2>1, <2>2 DEF Read, Passed, Parts
    <3> QED
      BY <2>1, <2>2, <3>1, <3>2 DEF LimitsInv, IsNarrowest
  <2>3. CASE part = "limits"
    <3>1. /\ RedefineLimits
          /\ RedefineWidths(IF width = 64 THEN Reach \ {8} ELSE Reach)
          /\ limits' = IF (IF width \in Standard THEN leastLimit'[width] # Undefined
                                                ELSE Implemented)
                       THEN limits \union {width} ELSE limits
      BY <1>2, <2>3 DEF StdIntNext, StandardTypes, OtherTypes, StandardConstants,
           OtherConstants, Limits64, OtherLimits, StandardLimits, Publish, Standard, Other
    <3>2. /\ Read("limits")' = Read("limits") \union {width}
          /\ width \in Widths \ Read("limits")
          /\ Read("limits") = {v \in Widths : v > width}
      BY <2>1, <2>3, ReadStep DEF Parts
    <3>3. ASSUME NEW n \in Standard
          PROVE  /\ leastLimit'[n] = IF width \in target.types /\ n <= width
                                     THEN width ELSE leastLimit[n]
                 /\ IsNarrowest(leastLimit'[n], n, target.types \intersect (Read("limits") \union {width}))
      <4>1. IsNarrowest(leastLimit'[n], n, target.types \intersect (Read("limits") \union {width}))
        BY <2>1, <2>3, <3>1, CascadeStep DEF RedefineLimits, LimitsInv, StdIntTypeOK
      <4> QED BY <3>1, <4>1 DEF RedefineLimits, Redefined, Reach, Implemented
    <3>4. \A n \in Standard : IsNarrowest(leastLimit[n], n, target.types \intersect Read("limits"))'
      BY <2>1, <3>2, <3>3 DEF IsNarrowest
    <3>5. width \in limits' <=> typedefs[width] # Undefined
      <4>1. width \notin limits
        BY <3>2 DEF LimitsInv
      <4>2. CASE width \in Standard
        <5>1. leastLimit'[width] = leastType[width]
          BY <2>1, <2>3, <3>3, <4>2, SettledBySection DEF Parts
        <5>2. typedefs[width] = leastType[width]
          BY <2>3, <4>2, TypedefsFinal
        <5> QED BY <3>1, <4>1, <4>2, <5>1, <5>2
      <4>3. CASE width \notin Standard
        <5>1. width \in Other
          BY <3>2, <4>3 DEF Widths
        <5>2. typedefs[width] = IF width \in target.types THEN width ELSE Undefined
          BY <2>3, <5>1, TypedefsFinal
        <5>3. width # Undefined
          BY <5>1 DEF Other, Undefined
        <5> QED BY <3>1, <4>1, <4>3, <5>2, <5>3 DEF Implemented
      <4> QED BY <4>2, <4>3
    <3>6. /\ \A n \in Read("limits")' : n \in limits' <=> typedefs'[n] # Undefined
          /\ limits' \subseteq Read("limits")'
      <4>1. \A n \in Read("limits") : n # width /\ (n \in limits' <=> n \in limits)
        BY <3>1, <3>2
      <4>2. limits' \subseteq limits \union {width}
        BY <3>1
      <4> QED BY <2>1, <2>3, <3>2, <3>5, <4>1, <4>2 DEF LimitsInv
    <3>7. ASSUME target.c2x, NEW n \in Standard
          PROVE  leastWidth'[n] = IF n = 8 /\ leastLimit'[8] = 64 THEN Undefined
                                  ELSE leastLimit'[n]
      <4>1. leastWidth[n] = IF n = 8 /\ leastLimit[8] = 64 THEN Undefined ELSE leastLimit[n]
        BY <3>7 DEF LimitsInv
      <4>2. 8 \in Standard
        BY DEF Standard
      <4>3. CASE width = 64
        <5>1. Read("limits") = {}
          BY <3>2, <4>3 DEF Widths, Standard, Other
        <5>2. leastLimit[n] = Undefined
          BY <5>1 DEF LimitsInv, IsNarrowest
        <5>3. leastWidth[n] = Undefined
          BY <4>1, <5>2
        <5>4. leastWidth'[n] = IF Implemented /\ n # 8 THEN 64 ELSE Undefined
          BY <3>1, <3>7, <4>3, <5>3 DEF RedefineWidths, Redefined, Reach, Standard
        <5>5. leastLimit'[n] = IF Implemented THEN 64 ELSE Undefined
          BY <3>3, <4>3, <5>2 DEF Implemented, Standard
        <5> QED BY <5>4, <5>5 DEF Undefined
      <4>4. CASE width # 64
        <5>1. leastWidth'[n] = IF Implemented /\ n <= width THEN width ELSE leastWidth[n]
          BY <3>1, <3>7, <4>4 DEF RedefineWidths, Redefined, Reach
        <5>2. leastLimit'[n] = IF Implemented /\ n <= width THEN width ELSE leastLimit[n]
          BY <3>3 DEF Implemented
        <5> QED BY <4>1, <4>4, <5>1, <5>2
      <4> QED BY <4>3, <4>4
    <3> QED BY <2>1, <3>4, <3>6, <3>7 DEF LimitsInv
  <2> QED BY <2>2, <2>3
<1> QED BY <1>1, <1>2

-----------------------------------------------------------------------------
(* The invariant, and what follows from it. *)

\* Before the first section nothing is defined.
LEMMA StdIntInvInit == StdIntInit => StdIntInv
<1> SUFFICES ASSUME StdIntInit
             PROVE  StdIntInv
  OBVIOUS
<1> USE DEF StdIntInit
<1>1. StdIntTypeOK
  BY DEF StdIntTypeOK, Widths, Standard, Suffixes
<1>2. \A p \in Parts : Read(p) = {}
  <2>1. {v \in Widths : v > width} = {}
    BY DEF Widths, Standard, Other
  <2> QED BY <2>1 DEF Read, Passed, Parts
<1>3. TypesInv /\ LimitsInv
  BY <1>2 DEF TypesInv, LimitsInv, IsNarrowest, Parts, Undefined
<1>4. ConstantsInv
  BY <1>2 DEF ConstantsInv, IsNarrowest, SuffixOf, Parts
<1> QED BY <1>1, <1>3, <1>4 DEF StdIntInv

\* Every section keeps the invariant.
LEMMA StdIntInvStep == StdIntInv /\ [StdIntNext]_stdintVars => StdIntInv'
  BY TypesStep, TypesInvStep, ConstantsInvStep, LimitsInvStep DEF StdIntInv

\* The invariant holds in every reachable state.
LEMMA StdIntInvAlways == StdIntSpec => []StdIntInv
  BY StdIntInvInit, StdIntInvStep, PTL DEF StdIntSpec

\* The header's macros keep their types for every compiler.
THEOREM StdIntTypes == StdIntSpec => []StdIntTypeOK
<1>1. StdIntInv => StdIntTypeOK
  BY DEF StdIntInv
<1> QED BY <1>1, StdIntInvAlways, PTL

\* Each least type that the header defines is the narrowest that the compiler
\* has, whatever widths it has.
THEOREM StdIntLeastIsNarrowest == StdIntSpec => []LeastIsNarrowest
<1>1. StdIntInv => LeastIsNarrowest
  BY TypedefsFinal DEF StdIntInv, LeastIsNarrowest
<1> QED BY <1>1, StdIntInvAlways, PTL

\* The suffix that a constant gets is that of its least type, whatever suffixes
\* the compiler's types have.
THEOREM StdIntConstantsFollowTypes == StdIntSpec => []ConstantsFollowTypes
<1>1. StdIntInv => ConstantsFollowTypes
  <2>1. StdIntTypeOK /\ part \notin {"types", "constants"} => Read("constants") = Widths
    BY DEF StdIntTypeOK, Read, Passed, Parts
  <2> QED BY <2>1 DEF StdIntInv, ConstantsInv, ConstantsFollowTypes, ConstantOf
<1> QED BY <1>1, StdIntInvAlways, PTL

\* The limits are those of the least types.
THEOREM StdIntLimitsFollowTypes == StdIntSpec => []LimitsFollowTypes
<1>1. StdIntInv => LimitsFollowTypes
  <2>1. StdIntTypeOK /\ part = "end" => Read("limits") = Widths
    BY DEF StdIntTypeOK, Read, Passed, Parts
  <2>2. ASSUME StdIntInv, part = "end", NEW n \in Standard
        PROVE  leastLimit[n] = typedefs[n]
    <3>1. IsNarrowest(leastLimit[n], n, target.types \intersect Widths)
      BY <2>1, <2>2 DEF StdIntInv, LimitsInv
    <3>2. target.types \in SUBSET Widths /\ target.types \intersect Widths = target.types
      BY <2>2, StdIntAssumption DEF StdIntInv, StdIntTypeOK
    <3>3. IsNarrowest(leastType[n], n, target.types) /\ typedefs[n] = leastType[n]
      BY <2>2, TypedefsFinal DEF StdIntInv
    <3> QED BY <3>1, <3>2, <3>3, NarrowestUnique
  <2> QED BY <2>1, <2>2 DEF StdIntInv, LimitsInv, LimitsFollowTypes
<1> QED BY <1>1, StdIntInvAlways, PTL

\* The widths of C2x are those of the least types, except at 8 bits where the
\* only type is the 64-bit one.
THEOREM StdIntWidthsFollowTypes == StdIntSpec => []WidthsFollowTypes
<1>1. StdIntInv /\ LimitsFollowTypes => WidthsFollowTypes
  <2> SUFFICES ASSUME StdIntInv, LimitsFollowTypes, part = "end", target.c2x,
                      NEW n \in Standard \intersect limits
               PROVE  leastWidth[n] = IF n = 8 /\ typedefs[8] = 64 THEN Undefined ELSE typedefs[n]
    BY DEF WidthsFollowTypes
  <2>1. 8 \in Standard /\ Standard \subseteq Widths
    BY DEF Standard, Widths
  <2>2. leastLimit[n] = typedefs[n] /\ leastLimit[8] = typedefs[8]
    BY <2>1 DEF LimitsFollowTypes
  <2> QED BY <2>2 DEF StdIntInv, LimitsInv
<1> QED BY <1>1, StdIntInvAlways, StdIntLimitsFollowTypes, PTL
=============================================================================
