----------------------------- MODULE MCFirstBoot -----------------------------
(* Instances of FirstBoot for TLC. *)
EXTENDS FirstBoot

CONSTANTS ann, root,   \* root stands for a name of the image
          s1, s2,      \* two passwords
          h0, h1, h2

\* A user types another password (and another host name), or a name that is
\* in use.
MCRequests ==
  {[user |-> ann, secret |-> s1, host |-> h1],
   [user |-> ann, secret |-> s2, host |-> h2],
   [user |-> root, secret |-> s1, host |-> h1]}
=============================================================================
