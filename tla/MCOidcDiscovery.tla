--------------------------- MODULE MCOidcDiscovery ---------------------------
(* OidcDiscovery for the audience "api", with and without an authorized    *)
(* party of its own, a good token of each form and each kind of bad one,   *)
(* and the grammar to compare the scanner with.                            *)
EXTENDS OidcDiscovery, JsonGrammar

MCConfigs ==
    {[audiences |-> {"api"}, parties |-> {}],
     [audiences |-> {"api"}, parties |-> {"web"}]}

Claims(aud, azp) ==
    [valid |-> TRUE, subject |-> TRUE, aud |-> aud, azp |-> azp]

MCTokens ==
    {[Claims(<<"api">>, "absent") EXCEPT !.valid = FALSE],
     [Claims(<<"api">>, "absent") EXCEPT !.subject = FALSE],
     Claims(<<"api">>, "absent"),
     Claims(<<"api">>, "malformed"),
     Claims(<<"api">>, "api"),
     Claims(<<"web">>, "web"),
     Claims(<<"web", "api">>, "absent"),
     Claims(<<"web", "api">>, "web")}
=============================================================================
