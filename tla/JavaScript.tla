----------------------------- MODULE JavaScript ------------------------------
(***************************************************************************)
(* The JavaScript of WABT: the visitor opens one of the demo pages, of     *)
(* which a compilation is one step here; or the calls are looked at that   *)
(* a compile function, or any other program, makes to libwabt.             *)
(***************************************************************************)
EXTENDS DemoPages, LibwabtClients

javaScriptVars == <<pagesVars, clientVars>>

JavaScriptInit ==
    /\ PagesInit
    /\ ClientInit
    /\ opened # "libwabt" => client = CHOOSE c \in Clients : TRUE

JavaScriptNext ==
    \/ PagesNext /\ UNCHANGED clientVars
    \/ On("libwabt", ClientNext) /\ UNCHANGED <<page, viewer>>

JavaScriptSpec ==
    JavaScriptInit /\ [][JavaScriptNext]_javaScriptVars /\ PagesFairness
=============================================================================
