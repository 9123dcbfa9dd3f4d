------------------------------- MODULE Screens -------------------------------
(***************************************************************************)
(* The screens of the app: Session decides which root view controller      *)
(* there is, TabBar runs inside one of them.  A CustomTabBarController is  *)
(* made anew by every sign-in that is answered and by every launch with a  *)
(* stored uid; the profile is loaded by the first tap on its item, and the *)
(* exit button lies on the profile's stack.                                *)
(***************************************************************************)
EXTENDS Session

CONSTANT MaxDepth

VARIABLES selectedIndex, selectedItemIndex, moved, offset, isCustomBarHiden,
          depth, clicked, hasty

Bar == INSTANCE TabBar

barVars == <<selectedIndex, selectedItemIndex, moved, offset, isCustomBarHiden,
             depth, clicked, hasty>>
screensVars == <<vars, barVars>>

ScreensInit == Init /\ Bar!Init

\* A tab bar that is new, or of which nothing is known.
NewBar ==
    /\ selectedIndex' = Bar!Competitions /\ selectedItemIndex' = Bar!Competitions
    /\ moved' = 0 /\ offset' = 0
    /\ isCustomBarHiden' = [t \in Bar!Tab |-> FALSE]
    /\ depth' = [t \in Bar!Tab |-> 0]
    /\ clicked' = {} /\ hasty' = FALSE

\* A session's step that replaces the root view controller.
Replaces ==
    \/ StartTimer \/ Relaunch
    \/ Complete /\ root' = "tabs" /\ Head(main).user # nobody

\* The settings, with the exit button, are on the profile's stack.
Exit == /\ selectedIndex = Bar!Profile /\ depth[Bar!Profile] > 0
        /\ TapExitButton

\* A session's step behind the screens.
Stays ==
    \/ \E u \in User : TapLoginButton(u)
    \/ Auth
    \/ Complete /\ Head(main).user = nobody

\* A tab is selected; the profile's view controller is loaded when first shown.
SelectTab ==
    \E t \in Bar!Tab :
        /\ Bar!ItemClicked(t)
        /\ IF t = Bar!Profile /\ profile = nobody THEN LoadProfile ELSE UNCHANGED vars

InTabs ==
    \/ \E t \in Bar!Tab : Bar!TapItem(t)
    \/ Bar!OpenCovering \/ Bar!OpenPlain
    \/ \E d \in 0..MaxDepth : Bar!Back(d)
    \/ Bar!BackGivenUp

ScreensNext ==
    \/ (Replaces \/ Exit) /\ NewBar
    \/ Stays /\ UNCHANGED barVars
    \/ root = "tabs" /\ SelectTab
    \/ root = "tabs" /\ InTabs /\ UNCHANGED vars

\* Requests have a timeout, and the main queue runs.
ScreensSpec ==
    /\ ScreensInit /\ [][ScreensNext]_screensVars
    /\ WF_screensVars(Auth /\ UNCHANGED barVars)
    /\ WF_screensVars(Complete /\ (NewBar \/ UNCHANGED barVars) /\ ScreensNext)

-----------------------------------------------------------------------------
(***************************************************************************)
(* Properties, beside those of Session.                                    *)
(***************************************************************************)

\* The bar is down once for every screen that took it down: no sign-in, exit or
\* relaunch leaves one of the two out (hideCustomBarFromProfile,
\* showCustomBarFromCompetitions).
DownOncePerFlag == Bar!DownOncePerFlag

\* A first screen has its bar, whichever way it was come back to.
BarOnFirstScreens == Bar!BarOnFirstScreens
=============================================================================
