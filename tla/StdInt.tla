------------------------------- MODULE StdInt -------------------------------
(***************************************************************************)
(* The stdint.h that the repository carries, as a freestanding compiler    *)
(* reads it.  The header finds the type of each int_leastN_t by "cascading *)
(* redefinitions": going through the widths in descending order, each type *)
(* that exists redefines the macros of the narrower standard widths, and   *)
(* after its section the standard width is published.  It does so three    *)
(* times, for types, for the suffixes of constants and for limits, in      *)
(* lists kept by hand.  Signed and unsigned, least and fast, MIN and MAX   *)
(* go together and are one here; a suffix that is not defined and an empty *)
(* one are the same.                                                       *)
(***************************************************************************)
EXTENDS Integers

CONSTANT
    Targets     \* the compilers: the widths that have an exact type, the
                \* suffix of each one's constants, whether the language is C2x

Standard == {8, 16, 32, 64}
Other == {24, 40, 48, 56}
Widths == Standard \union Other
Undefined == 0
NoMacro == "undefined"
Suffixes == {"plain", "L", "LL"}

ASSUME StdIntAssumption ==
    Targets \subseteq [types : SUBSET Widths, suffix : [Widths -> Suffixes], c2x : BOOLEAN]

VARIABLES
    target,         \* the compiler that reads the header
    part, width,    \* the section it reads next
    leastType,      \* N -> the width of the type that __int_leastN_t names
    typedefs,       \* N -> the width of int_leastN_t
    leastSuffix,    \* N -> __intN_c_suffix
    constants,      \* N -> the suffix that INTN_C gives, or NoMacro
    leastLimit,     \* N -> the width whose limit __INT_LEASTN_MAX is
    leastWidth,     \* N -> the width that __UINT_LEASTN_WIDTH names
    limits          \* the N for which INT_LEASTN_MAX is defined, and in C2x
                    \* UINT_LEASTN_WIDTH, as a name for the macro above

typeVars == <<leastType, typedefs>>
constantVars == <<leastSuffix, constants>>
limitVars == <<leastLimit, leastWidth, limits>>
stdintVars == <<target, part, width, typeVars, constantVars, limitVars>>

StdIntInit ==
    /\ target \in Targets
    /\ part = "types" /\ width = 64
    /\ leastType = [n \in Standard |-> Undefined]
    /\ typedefs = [n \in Widths |-> Undefined]
    /\ leastSuffix = [n \in Standard |-> "plain"]
    /\ constants = [n \in Widths |-> NoMacro]
    /\ leastLimit = [n \in Standard |-> Undefined]
    /\ leastWidth = [n \in Standard |-> Undefined]
    /\ limits = {}

-----------------------------------------------------------------------------
(* A section. *)

Implemented == width \in target.types

\* Faulty variant: a line is missing from the sections of one width.
ReachAllBut8From24 == {n \in Standard : n <= width /\ (width = 24 => n # 8)}
\* The standard widths whose macros a section redefines.
Reach == {n \in Standard : n <= width}

Redefined(macro, reach, value) ==
    [n \in Standard |-> IF n \in reach THEN value ELSE macro[n]]

\* Faulty variant: the last section is not the last.
NextSectionForEver == width' = width - 8 /\ UNCHANGED <<target, part>>
NextSection ==
    /\ width' = IF width > 8 THEN width - 8 ELSE 64
    /\ part' = IF width > 8 THEN part
               ELSE IF part = "types" THEN "constants"
               ELSE IF part = "constants" THEN "limits" ELSE "end"
    /\ UNCHANGED target

-----------------------------------------------------------------------------
(* The types: 64, 32, 16 and 8 are published if any type reached them, the *)
(* other widths if they exist.                                             *)

RedefineTypes ==
    leastType' = IF Implemented THEN Redefined(leastType, Reach, width) ELSE leastType

StandardTypes ==
    /\ part = "types" /\ width \in Standard
    /\ RedefineTypes
    /\ typedefs' = [typedefs EXCEPT ![width] = leastType'[width]]
    /\ NextSection /\ UNCHANGED <<constantVars, limitVars>>

OtherTypes ==
    /\ part = "types" /\ width \in Other
    /\ RedefineTypes
    /\ typedefs' = [typedefs EXCEPT ![width] = IF Implemented THEN width ELSE Undefined]
    /\ NextSection /\ UNCHANGED <<constantVars, limitVars>>

-----------------------------------------------------------------------------
(* The constants. *)

\* Faulty variant: the suffix is not undefined where the type has none.
KeepSuffixes ==
    leastSuffix' = IF Implemented /\ target.suffix[width] # "plain"
                   THEN Redefined(leastSuffix, Reach, target.suffix[width]) ELSE leastSuffix
RedefineSuffixes ==
    leastSuffix' = IF Implemented
                   THEN Redefined(leastSuffix, Reach, target.suffix[width]) ELSE leastSuffix

StandardConstants ==
    /\ part = "constants" /\ width \in Standard
    /\ RedefineSuffixes
    /\ constants' = [constants EXCEPT
          ![width] = IF leastType[width] = Undefined THEN NoMacro ELSE leastSuffix'[width]]
    /\ NextSection /\ UNCHANGED <<typeVars, limitVars>>

OtherConstants ==
    /\ part = "constants" /\ width \in Other
    /\ RedefineSuffixes
    /\ constants' = [constants EXCEPT
          ![width] = IF Implemented THEN target.suffix[width] ELSE NoMacro]
    /\ NextSection /\ UNCHANGED <<typeVars, limitVars>>

-----------------------------------------------------------------------------
(* The limits. *)

RedefineLimits ==
    leastLimit' = IF Implemented THEN Redefined(leastLimit, Reach, width) ELSE leastLimit

RedefineWidths(reach) ==
    leastWidth' = IF Implemented /\ target.c2x
                  THEN Redefined(leastWidth, reach, width) ELSE leastWidth

Publish(defined) ==
    /\ limits' = IF defined THEN limits \union {width} ELSE limits
    /\ NextSection /\ UNCHANGED <<typeVars, constantVars>>

\* The C2x block of the first section defines __UINT_LEAST8_MAX where the
\* other sections define __UINT_LEAST8_WIDTH.
Limits64 ==
    /\ part = "limits" /\ width = 64
    /\ RedefineLimits
    /\ RedefineWidths(Reach \ {8})
    /\ Publish(leastLimit'[64] # Undefined)

\* Faulty variants: the width macros are left as they are; the least limits are
\* published where the exact type exists.
OtherLimitsWithoutWidths ==
    /\ part = "limits" /\ width \in Other
    /\ RedefineLimits
    /\ RedefineWidths({})
    /\ Publish(Implemented)
StandardLimitsOfExact ==
    /\ part = "limits" /\ width \in Standard \ {64}
    /\ RedefineLimits
    /\ RedefineWidths(Reach)
    /\ Publish(Implemented)

OtherLimits ==
    /\ part = "limits" /\ width \in Other
    /\ RedefineLimits
    /\ RedefineWidths(Reach)
    /\ Publish(Implemented)

StandardLimits ==
    /\ part = "limits" /\ width \in Standard \ {64}
    /\ RedefineLimits
    /\ RedefineWidths(Reach)
    /\ Publish(leastLimit'[width] # Undefined)

StdIntNext ==
    \/ StandardTypes \/ OtherTypes
    \/ StandardConstants \/ OtherConstants
    \/ Limits64 \/ OtherLimits \/ StandardLimits

StdIntSpec == StdIntInit /\ [][StdIntNext]_stdintVars

-----------------------------------------------------------------------------
(* Properties. *)

\* w is the narrowest of the widths that are at least n, or Undefined if there
\* is none.
IsNarrowest(w, n, widths) ==
    IF w = Undefined THEN \A v \in widths : v < n
    ELSE w \in widths /\ n <= w /\ \A v \in widths : n <= v => w <= v

\* Every variable has its type.
StdIntTypeOK ==
    /\ target \in Targets
    /\ part \in {"types", "constants", "limits", "end"}
    /\ width \in Widths
    /\ leastType \in [Standard -> Widths \union {Undefined}]
    /\ typedefs \in [Widths -> Widths \union {Undefined}]
    /\ leastSuffix \in [Standard -> Suffixes]
    /\ constants \in [Widths -> Suffixes \union {NoMacro}]
    /\ leastLimit \in [Standard -> Widths \union {Undefined}]
    /\ leastWidth \in [Standard -> Widths \union {Undefined}]
    /\ limits \subseteq Widths

\* stdint.h:88-91: on a target that lacks widths, the int_leastN_t of a standard
\* N is the narrowest type of at least N bits, and is "only defined if there
\* exists an exact-width type of equal or greater width".
LeastIsNarrowest ==
    part # "types" => \A n \in Standard : IsNarrowest(typedefs[n], n, target.types)

\* stdint.h:309-314: the constants follow the types: INTN_C exists for the N that
\* have an int_leastN_t, and gives that type's suffix and not one of a wider
\* type's that was passed over.
ConstantsFollowTypes ==
    part \notin {"types", "constants"} => \A n \in Widths :
        constants[n] = IF typedefs[n] = Undefined THEN NoMacro ELSE target.suffix[typedefs[n]]

\* stdint.h:483-485: the limits follow the types, "using the limits of the
\* minimum-width type for any types that do not have exact-width
\* representations".
LimitsFollowTypes ==
    part = "end" => \A n \in Widths :
        /\ n \in limits <=> typedefs[n] # Undefined
        /\ n \in Standard => leastLimit[n] = typedefs[n]

\* In C2x UINT_LEASTN_WIDTH expands to that type's width too, except where the
\* 8-bit least type has 64 bits: there it expands to a macro that is not
\* defined.
WidthsFollowTypes ==
    part = "end" /\ target.c2x => \A n \in Standard \intersect limits :
        leastWidth[n] = IF n = 8 /\ typedefs[8] = 64 THEN Undefined ELSE typedefs[n]
=============================================================================
