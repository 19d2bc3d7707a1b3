-------------------------- MODULE JavaScript_proofs --------------------------
(***************************************************************************)
(* The demo pages and the programs that call libwabt, taken together, are  *)
(* each what their own module says, for any examples, files, features and  *)
(* inputs: what DemoPages_proofs and Libwabt_proofs prove of PagesSpec and *)
(* ClientSpec holds of JavaScriptSpec, which the run checks.               *)
(***************************************************************************)
EXTENDS JavaScript, TLAPS

(* Whichever page is open, each step of the whole is a step of the pages that
   leaves the calls of libwabt alone, or a step of a call that leaves the pages
   alone. *)
THEOREM JavaScriptImplementsParts == JavaScriptSpec => PagesSpec /\ ClientSpec
<1>1. JavaScriptInit => PagesInit /\ ClientInit
  BY DEF JavaScriptInit
<1>2. [JavaScriptNext]_javaScriptVars => [PagesNext]_pagesVars
  <2>1. CASE PagesNext /\ UNCHANGED clientVars
    BY <2>1
  <2>2. CASE On("libwabt", ClientNext) /\ UNCHANGED <<page, viewer>>
    BY <2>2 DEF On, pagesVars
  <2>3. CASE UNCHANGED javaScriptVars
    BY <2>3 DEF javaScriptVars
  <2> QED BY <2>1, <2>2, <2>3 DEF JavaScriptNext
<1>3. [JavaScriptNext]_javaScriptVars => [ClientNext]_clientVars
  <2>1. CASE PagesNext /\ UNCHANGED clientVars
    BY <2>1
  <2>2. CASE On("libwabt", ClientNext) /\ UNCHANGED <<page, viewer>>
    BY <2>2 DEF On
  <2>3. CASE UNCHANGED javaScriptVars
    BY <2>3 DEF javaScriptVars
  <2> QED BY <2>1, <2>2, <2>3 DEF JavaScriptNext
<1> QED BY <1>1, <1>2, <1>3, PTL DEF JavaScriptSpec, PagesSpec, ClientSpec
=============================================================================
