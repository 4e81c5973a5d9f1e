----------------------------- MODULE OidcTokens -----------------------------
(***************************************************************************)
(* How the three validators of the OIDC crate judge one token: the         *)
(* resource server's OidcValidator (server/mod.rs), the browser session    *)
(* layer (browser/layer.rs) and the dual-mode layer (browser/dual.rs).     *)
(* They are separate code over the same key cache and the same JWT         *)
(* library. A token is what is wrong with it: the set of its flaws. The    *)
(* library decodes the header, verifies the signature, then looks for      *)
(* missing claims, then compares the ones there are, in this order.        *)
(***************************************************************************)
EXTENDS Integers, Sequences, FiniteSets

\* What can be wrong with a token: an undecodable header or payload, an
\* algorithm, key or signature that is not the issuer's, a claim that is
\* missing or that has the wrong value. A token that is not valid yet (nbf)
\* is among them, though none of the three validators has the library look
\* at that claim.
Flaws == {"header", "payload", "alg", "kid", "signature", "no_exp", "no_iss",
          "no_aud", "expired", "nbf", "issuer", "audience", "no_sub"}

\* AudiencePolicy: one audience, one of several, or none looked at.
AudiencePolicy == {"Require", "RequireAny", "Unchecked"}

\* apply_audience_policy: whether the audience is required and compared.
apply_audience_policy(policy) == policy # "Unchecked"

\* is_missing_iss, is_missing_aud and jwt_err_to_rejection: the library's
\* error for a token whose signature may be wrong and whose claims may be
\* missing or wrong. "ok" when it decodes. NotYetValid is not produced:
\* validate_nbf is off by default and nobody sets it.
jwt_err_to_rejection(f, policy) ==
  CASE "signature" \in f -> "InvalidSignature"
    [] "payload" \in f -> "Malformed"
    [] "no_exp" \in f -> "Malformed"
    [] "no_iss" \in f -> "InvalidIssuer"
    [] "no_aud" \in f /\ apply_audience_policy(policy) -> "InvalidAudience"
    [] "expired" \in f -> "Expired"
    [] "issuer" \in f -> "InvalidIssuer"
    [] "audience" \in f /\ apply_audience_policy(policy) -> "InvalidAudience"
    [] OTHER -> "ok"

\* try_validate_jwt: the library's verdict, then the subject the claims need.
try_validate_jwt(f, policy) ==
  LET e == jwt_err_to_rejection(f, policy)
  IN IF e = "ok" /\ "no_sub" \in f THEN "Malformed" ELSE e

\* IssuerState::validate: the algorithm, the keys for the token's kid, then
\* each key in turn (one key stands for all: a kid selects at most one).
IssuerState_validate(f, policy, keys) ==
  CASE "alg" \in f -> "UnsupportedAlgorithm"
    [] "alg" \notin f /\ ~keys -> "JwksUnavailable"
    [] "alg" \notin f /\ keys /\ "kid" \in f -> "UnknownKey"
    [] OTHER -> try_validate_jwt(f, policy)

\* unverified_issuer: the issuer a multi-issuer validator selects by, read
\* before anything is verified.
unverified_issuer(f) ==
  CASE "payload" \in f -> "error"
    [] {"no_iss", "issuer"} \cap f # {} -> "unknown"
    [] OTHER -> "known"

\* OidcValidator::validate_inner.
validate_inner(f, multi, policy, keys) ==
  CASE "header" \in f -> "Undecodable"
    [] "header" \notin f /\ multi /\ unverified_issuer(f) = "error" -> "Malformed"
    [] "header" \notin f /\ multi /\ unverified_issuer(f) = "unknown" -> "UnknownIssuer"
    [] OTHER -> IssuerState_validate(f, policy, keys)

\* authorize_inner: what the Authorization header may hold.
authorize_inner(auth, multi, policy, keys) ==
  CASE auth.kind = "none" -> "MissingToken"
    [] auth.kind = "malformed" -> "MalformedAuthorization"
    [] auth.kind = "bearer" -> validate_inner(auth.flaws, multi, policy, keys)

\* error_to_response and rejection_wire_string: status and challenge.
error_to_response(e) ==
  CASE e = "MissingToken" -> <<401, "Bearer">>
    [] e = "MalformedAuthorization" -> <<401, "invalid_request">>
    [] e = "Undecodable" -> <<401, "invalid_token">>
    [] e = "JwksUnavailable" -> <<503, "retry-after">>
    [] OTHER -> <<401, e>>

\* OidcValidationService::call: the inner service is called with the claims,
\* or the error is answered.
layer_call(auth, multi, policy, keys) ==
  LET e == authorize_inner(auth, multi, policy, keys)
  IN IF e = "ok" THEN <<200, "ok">> ELSE error_to_response(e)

\* Mutant: the browser layer does not ask for a subject.
try_decode_jwt_anyone(f, policy) == jwt_err_to_rejection(f, policy)

\* try_decode_jwt and map_jwt_error: the browser layer's own decoding.
try_decode_jwt(f, policy) ==
  LET e == jwt_err_to_rejection(f, policy)
  IN IF e = "ok" /\ "no_sub" \in f THEN "Malformed" ELSE e

\* validate_access_token_str: the browser layer's validation of the token in
\* a cookie.
validate_access_token_str(f, policy, keys) ==
  CASE "header" \in f -> "Undecodable"
    [] "header" \notin f /\ "alg" \in f -> "UnsupportedAlgorithm"
    [] f \cap {"header", "alg"} = {} /\ ~keys -> "JwksUnavailable"
    [] f \cap {"header", "alg"} = {} /\ keys /\ "kid" \in f -> "UnknownKey"
    [] OTHER -> try_decode_jwt(f, policy)

\* validate_bearer_token: the dual-mode layer's validation of a bearer token,
\* and the response it gives instead of the inner service's.
validate_bearer_token(f, policy, keys) ==
  CASE "header" \in f -> <<401, "invalid_token">>
    [] "header" \notin f /\ "alg" \in f -> <<401, "UnsupportedAlgorithm">>
    [] f \cap {"header", "alg"} = {} /\ ~keys -> <<503, "">>
    [] f \cap {"header", "alg"} = {} /\ keys /\ "kid" \in f -> <<401, "UnknownKey">>
    [] OTHER -> LET e == try_decode_jwt(f, policy)
                IN IF e = "ok" THEN <<200, "ok">> ELSE <<401, e>>

-----------------------------------------------------------------------------
(* Where the roles of a token come from.                                   *)

\* ClaimPath::parse over a path's characters: "a" stands for any other
\* character. The keys are sequences of characters, "error" a refusal.
ClaimPath_parse(raw) ==
  LET read[i \in 0 .. Len(raw)] ==
        IF i = 0 THEN [keys |-> <<>>, cur |-> <<>>, escaped |-> FALSE, ok |-> TRUE]
        ELSE LET s == read[i - 1]
                 c == raw[i]
             IN IF ~s.ok THEN s
                ELSE IF s.escaped
                THEN [s EXCEPT !.cur = Append(@, c), !.escaped = FALSE, !.ok = c \in {".", "\\"}]
                ELSE CASE c = "\\" -> [s EXCEPT !.escaped = TRUE]
                       [] c = "." -> [s EXCEPT !.keys = Append(@, s.cur), !.cur = <<>>, !.ok = s.cur # <<>>]
                       [] OTHER -> [s EXCEPT !.cur = Append(@, c)]
      end == read[Len(raw)]
  IN IF ~end.ok \/ end.escaped \/ end.cur = <<>> THEN "error" ELSE Append(end.keys, end.cur)

\* The items of an array that are strings.
OnlyStrings(items) ==
  LET kept[i \in 0 .. Len(items)] ==
        IF i = 0 THEN <<>> ELSE IF items[i] = "number" THEN kept[i - 1] ELSE Append(kept[i - 1], items[i])
  IN kept[Len(items)]

\* ClaimPath::strings: the strings at the end of the path. A node is an
\* object (a function from keys), an array of leaves, or a leaf.
ClaimPath_strings(keys, claims) ==
  LET Missing == [kind |-> "missing"]
      node[i \in 0 .. Len(keys)] ==
        IF i = 0 THEN claims
        ELSE LET above == node[i - 1]
             IN IF above.kind = "object" /\ keys[i] \in DOMAIN above.fields
                THEN above.fields[keys[i]] ELSE Missing
      end == node[Len(keys)]
  IN CASE end.kind = "array" -> OnlyStrings(end.items)
       [] end.kind = "string" -> <<end.value>>
       [] OTHER -> <<>>

-----------------------------------------------------------------------------
(* What holds of every token and path.                                     *)

\* What a token may have wrong and still be admitted: nobody looks at nbf,
\* and an unchecked audience may be anything.
Overlooked(policy) ==
  {"nbf"} \cup IF policy = "Unchecked" THEN {"no_aud", "audience"} ELSE {}

\* Tokens with at most two things wrong, every policy, keys there or not.
TokensJudgedAlike ==
  \A f \in {g \in SUBSET Flaws : Cardinality(g) <= 2}, policy \in AudiencePolicy, keys \in BOOLEAN :
    LET auth == [kind |-> "bearer", flaws |-> f]
        one == layer_call(auth, FALSE, policy, keys)
        browser == validate_access_token_str(f, policy, keys)
        dual == validate_bearer_token(f, policy, keys)
    IN /\ one[1] = 200 <=> keys /\ f \subseteq Overlooked(policy)
       /\ one[1] = 200 <=> browser = "ok"
       /\ one[1] = dual[1]
       /\ one[1] = 503 <=> browser = "JwksUnavailable"
       /\ one[1] = 200 <=> layer_call(auth, TRUE, policy, keys)[1] = 200

\* Keys of one or two characters, the two special ones included.
Keys == UNION {[1 .. n -> {"a", ".", "\\"}] : n \in 1 .. 2}
Escaped(key) ==
  CASE Len(key) = 1 -> IF key[1] = "a" THEN key ELSE <<"\\">> \o key
    [] Len(key) = 2 -> (IF key[1] = "a" THEN <<"a">> ELSE <<"\\", key[1]>>)
                       \o (IF key[2] = "a" THEN <<"a">> ELSE <<"\\", key[2]>>)
Nested(k, node) == [kind |-> "object", fields |-> [x \in {k} |-> node]]
Roles == [kind |-> "array", items |-> <<"r", "number", "s">>]
PathsParseBack ==
  /\ \A k \in Keys : ClaimPath_parse(Escaped(k)) = <<k>>
  /\ \A k, l, m \in Keys :
       LET keys == ClaimPath_parse(Escaped(k) \o <<".">> \o Escaped(l))
       IN /\ keys = <<k, l>>
          /\ ClaimPath_strings(keys, Nested(k, Nested(m, Roles))) = IF m = l THEN <<"r", "s">> ELSE <<>>
=============================================================================
