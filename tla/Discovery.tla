-------------------------------- MODULE Discovery --------------------------------
(***************************************************************************)
(* What `auth login` learns of an instance (auth/metadata.rs,              *)
(* auth/endpoint.rs, auth/transport.rs): the document of its authorization *)
(* server, which endpoints of it are taken, and how they are looked at     *)
(* again when they are used.  Pure: no state.                              *)
(***************************************************************************)
EXTENDS Naturals, Sequences

CONSTANT MaxResponseBytes  \* MAX_RESPONSE_BYTES

ASSUME DiscoveryAssumption == MaxResponseBytes \in Nat

(* An address: where it is, the tenant that its path names, how many slashes *)
(* it ends in, whether it carries a query, and whether it is spelled as a    *)
(* parser would write it.                                                   *)
Address(scheme, host, tenant, slashes) ==
  [parses |-> TRUE, scheme |-> scheme, host |-> host, tenant |-> tenant, slashes |-> slashes,
   extra |-> FALSE, plain |-> TRUE]

\* A field of a document: absent, not text, blank or an address.
Field_(is, address) == [is |-> is, address |-> address]
Refusal(e) == [error |-> e]
IsRefusal(r) == "error" \in DOMAIN r

ValidAddress(u) == u.parses /\ u.scheme \in {"http", "https"} /\ ~u.extra
NoPlace == <<"unplaced">>
PlaceOf(u) == IF ValidAddress(u) THEN <<u.scheme, u.host>> ELSE NoPlace
SecureAddress(u) ==
  u.parses /\ (u.scheme = "https" \/ (u.scheme = "http" /\ u.host = "127.0.0.1"))

-----------------------------------------------------------------------------
(* endpoint.rs.  A redirect is not followed: it is no success.               *)
GetJson(response) ==
  IF response.sent # "whole" THEN Refusal("Transport")
  ELSE IF response.bytes > MaxResponseBytes THEN Refusal("Malformed")
  ELSE IF response.status # 200 THEN Refusal("Endpoint")
  ELSE IF response.text = "empty" THEN [document |-> <<>>]
  ELSE IF response.text = "unreadable" THEN Refusal("Malformed")
  ELSE [document |-> response.document]

Has(document, field) == field \in DOMAIN document /\ document[field].is = "text"
RequireStr(document, field) ==
  IF Has(document, field) THEN document[field] ELSE Refusal("Malformed")

-----------------------------------------------------------------------------
(* metadata.rs.  A parser drops what is only spelling and ends an address    *)
(* that has no path in a slash.                                             *)
ParsedSlashes(u) == IF u.tenant = "" /\ u.slashes = 0 THEN 1 ELSE u.slashes
CanonicalIssuer(u) ==
  IF ~u.parses THEN Refusal("Malformed")
  ELSE [u EXCEPT !.plain = TRUE,
                 !.slashes = IF u.extra \/ ParsedSlashes(u) = 0 THEN ParsedSlashes(u)
                             ELSE ParsedSlashes(u) - 1]

RequireIssuer(document, expected) ==
  IF Has(document, "issuer") /\ CanonicalIssuer(document["issuer"].address) = expected
  THEN document["issuer"] ELSE Refusal("IssuerMismatch")

UsableEndpoint(u, place) ==
  IF PlaceOf(u) # place THEN Refusal("ForeignEndpoint")
  ELSE IF ~SecureAddress(u) THEN Refusal("InsecureTransport")
  ELSE Field_("text", u)

Required(document, field, place) ==
  LET named == RequireStr(document, field)
  IN  IF IsRefusal(named) THEN named ELSE UsableEndpoint(named.address, place)
Optional(document, field, place) ==
  IF Has(document, field) THEN UsableEndpoint(document[field].address, place) ELSE Field_("absent", <<>>)

Endpoints == <<"authorization_endpoint", "token_endpoint", "registration_endpoint", "revocation_endpoint">>
Build(document, expected, place) ==
  LET issuer == RequireIssuer(document, expected)
      Taken(i) == IF i <= 2 THEN Required(document, Endpoints[i], place)
                  ELSE Optional(document, Endpoints[i], place)
      bad == {i \in 1 .. 4 : IsRefusal(Taken(i))}
  IN  IF IsRefusal(issuer) THEN issuer
      ELSE IF bad # {} THEN Taken(CHOOSE i \in bad : \A j \in bad : i <= j)
      ELSE [issuer |-> issuer.address, endpoints |-> [i \in 1 .. 4 |-> Taken(i)]]

Discover(base, response) ==
  LET answer == GetJson(response)
  IN  IF ~SecureAddress(base) THEN Refusal("InsecureTransport")
      ELSE IF IsRefusal(answer) THEN answer
      ELSE Build(answer.document, CanonicalIssuer(base), PlaceOf(base))

(* transport.rs: a stored endpoint is looked at again before it is used.    *)
StoredEndpointUsable(u, place) == SecureAddress(u) /\ PlaceOf(u) = place

-----------------------------------------------------------------------------
(* What a server may answer.                                                *)
Addresses_ ==
  [parses : BOOLEAN, scheme : STRING, host : STRING, tenant : STRING, slashes : Nat,
   extra : BOOLEAN, plain : BOOLEAN]
IsAnswer(response) ==
  /\ response.text \in {"JSON", "unreadable", "empty"}
  /\ response.bytes \in Nat
  /\ response.text = "JSON" =>
       \A field \in DOMAIN response.document :
         Has(response.document, field) => response.document[field].address \in Addresses_
           /\ response.document[field] = Field_("text", response.document[field].address)

\* The same address, if a server's spelling of it is not held against it.
SameAddress(a, b) ==
  /\ a.parses /\ b.parses /\ a.extra = b.extra
  /\ <<a.scheme, a.host, a.tenant>> = <<b.scheme, b.host, b.tenant>>
  /\ a.slashes = b.slashes \/ {a.slashes, b.slashes} \subseteq {0, 1}

AboutThisInstance(base, document) ==
  LET Mine(field) == StoredEndpointUsable(document[field].address, PlaceOf(base))
  IN  /\ Has(document, "issuer") /\ SameAddress(document["issuer"].address, base)
      /\ \A i \in 1 .. 4 : IF Has(document, Endpoints[i]) THEN Mine(Endpoints[i]) ELSE i > 2

(* A login goes on with the endpoints of a document exactly when the whole   *)
(* document arrived and is about this instance, in whatever spelling; every *)
(* endpoint it takes is at the instance, and passes the check that is made   *)
(* each time it is used, so that a session that was made can be renewed.     *)
DiscoveryStaysHome(base, response) ==
  LET found == Discover(base, response)
      whole == /\ response.sent = "whole" /\ response.bytes <= MaxResponseBytes
               /\ response.status = 200 /\ response.text = "JSON"
  IN  /\ ~IsRefusal(found) <=> whole /\ AboutThisInstance(base, response.document)
      /\ ~IsRefusal(found) =>
           \A i \in 1 .. 4 : found.endpoints[i].is = "text" =>
             StoredEndpointUsable(found.endpoints[i].address, PlaceOf(base))
=============================================================================
