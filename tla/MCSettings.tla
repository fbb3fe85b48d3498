----------------------------- MODULE MCSettings -----------------------------
(* Instances of SettingsPages for TLC. *)
EXTENDS SettingsPages

CONSTANTS C, en, eo, eoNull,      \* locales: C.UTF-8, en_US.UTF-8, plain eo, eo_null.UTF-8
          us, de, noLayout,       \* layouts, and the empty one
          basic, unknown,         \* variants, the one that every list has and one that none has
          utc, rome

MCNameOf == [l \in {"English", "Esperanto"} |-> IF l = "English" THEN en ELSE eoNull]
MCVariantsOf == [l \in {us, de} |-> {basic}]
MCFirstVariant == [l \in {us, de} |-> basic]
MCInitialKeyboards == {<<noLayout, basic>>, <<us, unknown>>}
=============================================================================
