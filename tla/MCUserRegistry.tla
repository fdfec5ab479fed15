--------------------------- MODULE MCUserRegistry ---------------------------
(* TLC instances of UserRegistry.                                          *)
EXTENDS UserRegistry

CONSTANTS p1

\* Users with one binding, with two, split in two, swapped, nameless; a user
\* removed; one credential under two names, with and without a nameless entry.
MCConfigs ==
    { {}, {<<1, 1>>}, {<<1, 2>>}, {<<2, 1>>}, {<<1, 0>>},
      {<<1, 1>>, <<2, 1>>}, {<<1, 2>>, <<2, 2>>},
      {<<1, 1>>, <<2, 2>>}, {<<1, 2>>, <<2, 1>>}, {<<1, 0>>, <<2, 1>>},
      {<<1, 1>>, <<1, 2>>}, {<<1, 0>>, <<1, 1>>} }

\* One user, with one or with two credentials.
MCOneUser == {{<<1, 1>>}, {<<1, 1>>, <<2, 1>>}}
=============================================================================
