----------------------------- MODULE MCPhoneApp ------------------------------
(* PhoneApp on a few clicks, activities and images. *)
EXTENDS PhoneApp
==============================================================================
