----------------------------- MODULE MCLoginData -----------------------------
(* LoginData for TLC, with the claim of the code that does not hold.         *)
EXTENDS LoginData, TLC

\* Keys are only compared with each other.
KeySymmetry == Permutations(Key)

\* RESULT_LOGIN says, in Korean: "if another connection has logged in already,
\* 'already connected' has to be sent" (ClientManagerLogin.cpp:448).  So no two
\* clients are bound to the account.
OneSessionEver == \A d, e \in Desc : Bound(d) /\ Bound(e) => d = e
=============================================================================
