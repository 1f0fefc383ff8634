----------------------------- MODULE Standalone -----------------------------
(***************************************************************************)
(* The modules that stand alone, side by side.  They share no state: one   *)
(* of them moves while the others are where they begin.                    *)
(***************************************************************************)
EXTENDS CivilDate, SeasonBounds, Relevance, IndexerRegistry

vars == <<calendar, details, hits, registry>>

Init == CalendarInit /\ ShowInit /\ SearchInit /\ RegistryInit

CalendarMoves ==
    /\ ShowInit /\ SearchInit /\ RegistryInit
    /\ Midnight
    /\ UNCHANGED <<details, hits, registry>>

ShowMoves ==
    /\ CalendarInit /\ SearchInit /\ RegistryInit
    /\ ShowNext
    /\ UNCHANGED <<calendar, hits, registry>>

SearchMoves ==
    /\ CalendarInit /\ ShowInit /\ RegistryInit
    /\ Find
    /\ UNCHANGED <<calendar, details, registry>>

RegistryMoves ==
    /\ CalendarInit /\ ShowInit /\ SearchInit
    /\ RegistryNext
    /\ UNCHANGED <<calendar, details, hits>>

Next == CalendarMoves \/ ShowMoves \/ SearchMoves \/ RegistryMoves

Spec == Init /\ [][Next]_vars
=============================================================================
