------------------------------ MODULE MCWebApp ------------------------------
(* WebApp instantiated for TLC. *)
EXTENDS WebApp, TLC

\* Two addresses that show a form for signing in at once.
FormUrls == {To("register"), To("dashboard")}

\* Tabs are interchangeable, and so are addresses and passwords.
Symmetry == Permutations(Tabs) \cup Permutations(Emails) \cup Permutations(Passwords)
=============================================================================
