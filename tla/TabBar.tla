------------------------------- MODULE TabBar -------------------------------
(***************************************************************************)
(* The custom tab bar of CustomTabBarController: which tab is selected,    *)
(* where the bar and its indicator are, and what lies on the two           *)
(* navigation stacks.                                                      *)
(*                                                                         *)
(* Nothing says where the bar is.  Each of the two first screens has a     *)
(* flag of its own, moves the bar down when it pushes a screen that covers *)
(* it, and up again when it appears with the flag up; the bar moves its    *)
(* indicator likewise.  A tap on an item takes effect when the animation   *)
(* of the item is over; until then everything else can be tapped.          *)
(***************************************************************************)
EXTENDS Integers, FiniteSets

CONSTANT
    MaxDepth   \* bound: screens on a stack, above the first

Competitions == 0
Profile == 1
Tab == {Competitions, Profile}

VARIABLES
    selectedIndex,      \* UITabBarController.selectedIndex
    selectedItemIndex,  \* CustomTabBar.selectedItemIndex
    moved,              \* how far movingView is to the right, in items
    offset,             \* how far the bar is down, in hundreds of points
    isCustomBarHiden,   \* the flag of each first screen
    depth,              \* screens above the first one of each stack
    clicked,            \* items whose animation runs
    hasty               \* a screen was opened while an item was animated

bar == <<selectedIndex, selectedItemIndex, moved, clicked>>
vars == <<bar, offset, isCustomBarHiden, depth, hasty>>

TypeOK ==
    /\ selectedIndex \in Tab /\ selectedItemIndex \in Tab
    /\ moved \in Tab
    /\ offset \in 0..2
    /\ isCustomBarHiden \in [Tab -> BOOLEAN]
    /\ depth \in [Tab -> 0..MaxDepth]
    /\ clicked \subseteq Tab
    /\ hasty \in BOOLEAN

Init ==
    /\ selectedIndex = Competitions /\ selectedItemIndex = Competitions
    /\ moved = 0 /\ offset = 0
    /\ isCustomBarHiden = [t \in Tab |-> FALSE]
    /\ depth = [t \in Tab |-> 0]
    /\ clicked = {}
    /\ hasty = FALSE

-----------------------------------------------------------------------------
Opens == hasty' = (hasty \/ clicked # {})

\* viewWillAppear of the first screen of t.
ViewWillAppear(t) ==
    /\ offset' = IF isCustomBarHiden[t] THEN offset - 1 ELSE offset
    /\ isCustomBarHiden' = [isCustomBarHiden EXCEPT ![t] = FALSE]

\* Wrong: the items take taps wherever the bar is.
TapItem_Anywhere(t) ==
    /\ t \notin clicked
    /\ clicked' = clicked \cup {t}
    /\ UNCHANGED <<selectedIndex, selectedItemIndex, moved, offset, isCustomBarHiden, depth, hasty>>

\* A tap on an item; a bar that is down cannot be tapped, nor an item that is
\* animated.
TapItem(t) ==
    /\ offset = 0
    /\ t \notin clicked
    /\ clicked' = clicked \cup {t}
    /\ UNCHANGED <<selectedIndex, selectedItemIndex, moved, offset, isCustomBarHiden, depth, hasty>>

\* The animation of the item is over: the indicator is moved, the tab selected.
ItemClicked(t) ==
    /\ t \in clicked
    /\ clicked' = clicked \ {t}
    /\ moved' = IF selectedItemIndex = t THEN moved
                ELSE moved + (IF t = Profile THEN 1 ELSE -1)
    /\ selectedItemIndex' = t /\ selectedIndex' = t
    /\ IF t # selectedIndex /\ depth[t] = 0
       THEN ViewWillAppear(t)
       ELSE UNCHANGED <<offset, isCustomBarHiden>>
    /\ UNCHANGED <<depth, hasty>>

\* Wrong: the screen is opened without a look at the flag, which is not raised.
OpenCovering_NoFlag ==
    /\ depth[selectedIndex] = 0
    /\ Opens
    /\ offset' = offset + 1
    /\ depth' = [depth EXCEPT ![selectedIndex] = 1]
    /\ UNCHANGED <<bar, isCustomBarHiden>>

\* pressCompetition, presentNotificationController, presentSettingsController:
\* the bar goes down and a screen is pushed, unless the flag is up already.
OpenCovering ==
    /\ depth[selectedIndex] = 0 /\ MaxDepth > 0
    /\ Opens
    /\ ~ isCustomBarHiden[selectedIndex]
    /\ offset' = offset + 1
    /\ isCustomBarHiden' = [isCustomBarHiden EXCEPT ![selectedIndex] = TRUE]
    /\ depth' = [depth EXCEPT ![selectedIndex] = 1]
    /\ UNCHANGED bar

\* A friend, the friends or the search, which leave the bar where it is, and
\* whatever the screens behind the profile open.
OpenPlain ==
    /\ selectedIndex = Profile
    /\ depth[Profile] < MaxDepth
    /\ Opens
    /\ depth' = [depth EXCEPT ![Profile] = @ + 1]
    /\ UNCHANGED <<bar, offset, isCustomBarHiden>>

\* Back by one screen, or by several with the menu of the back button.
Back(d) ==
    /\ d < depth[selectedIndex]
    /\ depth' = [depth EXCEPT ![selectedIndex] = d]
    /\ IF d = 0 THEN ViewWillAppear(selectedIndex) ELSE UNCHANGED <<offset, isCustomBarHiden>>
    /\ UNCHANGED <<bar, hasty>>

\* A swipe back that is given up: the first screen has been told it appears.
BackGivenUp ==
    /\ depth[selectedIndex] = 1
    /\ ViewWillAppear(selectedIndex)
    /\ UNCHANGED <<bar, depth, hasty>>

Next ==
    \/ \E t \in Tab : TapItem(t) \/ ItemClicked(t)
    \/ OpenCovering \/ OpenPlain
    \/ \E d \in 0..MaxDepth : Back(d)
    \/ BackGivenUp

Spec == Init /\ [][Next]_vars

-----------------------------------------------------------------------------
(***************************************************************************)
(* Properties.                                                             *)
(***************************************************************************)

\* The relative moves add up: the bar is down once for every flag that is up,
\* so that it can always be brought back (hideCustomBarFromProfile,
\* showCustomBarFromCompetitions).
DownOncePerFlag == offset = Cardinality({t \in Tab : isCustomBarHiden[t]})

\* A first screen has its bar, its own flag is down and the indicator is on its
\* item.  Except if a screen was opened within the 0.3 seconds an item is
\* animated, which ends on the other first screen with the bar down.
BarOnFirstScreens ==
    ~ hasty /\ depth[selectedIndex] = 0 =>
        /\ offset = 0 /\ ~ isCustomBarHiden[selectedIndex]
        /\ moved = selectedIndex /\ selectedItemIndex = selectedIndex

=============================================================================
