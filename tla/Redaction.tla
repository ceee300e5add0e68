----------------------------- MODULE Redaction -----------------------------
(***************************************************************************)
(* The redactor of one attempt (attempt_trace/redaction.h and              *)
(* json_excerpt.h): the only way text reaches an attempt trace.  A text is *)
(* a sequence of pieces; a piece is plain, or shows a value in some        *)
(* encoding, alone or inside a shape the pattern scans know (bearer token, *)
(* JWT, signed string, name=value pair, PEM block).  Truncation may cut a  *)
(* piece, and a cut piece matches no secret any more.                      *)
(***************************************************************************)
EXTENDS Integers, FiniteSets, SequencesExt

CONSTANTS
    Values,             \* values an attempt holds, sends or receives
    Short,              \* those below minimum_secret_bytes
    Encodings,          \* the forms of a value add_secret replaces ("raw" among them)
    Paths,              \* paths of JSON leaves: sequences of segments
    MaxSecrets,         \* maximum_secrets
    CredentialRoom,     \* maximum_credential_variants
    MaxDepth,           \* maximum_depth of an excerpt
    Limit,              \* length limit of a stored text, a piece counting 2
    MaxPieces, MaxOps, MaxFailures

RedactionAssumption ==
    /\ Short \subseteq Values /\ "raw" \in Encodings
    /\ {MaxSecrets, CredentialRoom, Limit, MaxPieces, MaxOps, MaxFailures} \subseteq Nat

VARIABLES
    secrets,        \* secrets_: encoded values replaced in every text
    incomplete,     \* secrets_incomplete_
    failed,         \* failed_
    credentials,    \* history: values given to register_secret
    shown,          \* history: pieces stored in the trace, with where they stood
    outside,        \* history: pieces in texts that left the attempt
    ops, failures

vars == <<secrets, incomplete, failed, credentials, shown, outside, ops, failures>>

Wraps == {"none", "pattern", "private key"}
Pieces == [value : Values, encoding : Encodings, wrap : Wraps, cut : {FALSE}]
Filler(v) == [value |-> v, encoding |-> "raw", wrap |-> "none", cut |-> FALSE]
Marker == Filler("[REDACTED]")
Plain  == Filler("plain")
IsPiece(p) == p.value \in Values

----------------------------------------------------------------------------
(* Secrets                                                                 *)

Variants(v) == {v} \X Encodings

\* register_secret: a credential the attempt holds.
Register(s, v) ==
    IF v \in Short \/ <<v, "raw">> \in s THEN [secrets |-> s, incomplete |-> FALSE]
    ELSE IF Cardinality(s) >= MaxSecrets + CredentialRoom
    THEN [secrets |-> s, incomplete |-> TRUE]
    ELSE [secrets |-> s \cup Variants(v), incomplete |-> FALSE]

\* remember: a value observed in traffic.
Remember(s, v) ==
    IF v \in Short \/ Cardinality(s) >= MaxSecrets THEN s ELSE s \cup Variants(v)

\* Exact replacement, then the pattern scans (pem, bearer, jwt, signed
\* strings, parameters).
Exact(s, p) == IF IsPiece(p) /\ <<p.value, p.encoding>> \in s /\ ~p.cut THEN Marker ELSE p
Scan(p) == IF IsPiece(p) /\ p.wrap # "none" THEN Marker ELSE p

Scrub(s, t) == [n \in DOMAIN t |-> Scan(Exact(s, t[n]))]

Width(p) == IF p = Marker THEN 1 ELSE 2
Cut(p) == IF IsPiece(p) THEN [p EXCEPT !.cut = TRUE] ELSE p

Truncate(t) ==
    LET used(n) == FoldLeft(LAMBDA sum, p : sum + Width(p), 0, SubSeq(t, 1, n))
        keep    == {n \in 0..Len(t) : used(n) <= Limit}
        whole   == CHOOSE n \in keep : \A m \in keep : m <= n
    IN IF whole = Len(t) THEN t
       ELSE IF used(whole) = Limit THEN SubSeq(t, 1, whole)
       ELSE Append(SubSeq(t, 1, whole), Cut(t[whole + 1]))

\* Mutant: the text is shortened before it is scrubbed.
TruncateFirst(s, t) == Scrub(s, Truncate(t))

Text(s, t) == Truncate(Scrub(s, t))

PiecesOf(t) == {p \in Range(t) : IsPiece(p)}

----------------------------------------------------------------------------
(* Bodies                                                                  *)

\* One leaf of a JSON excerpt.  The descent carries whether a container above
\* was allowed as a whole (subtree); a container that is neither allowed nor
\* on the way to an allowed field becomes the marker.
Leads(allowed, path) == \E c \in allowed : IsPrefix(path, c)

WholeSubtree(allowed, path) == path \in allowed

Kept(allowed, path) ==
    LET step(d, n) ==
            LET at == SubSeq(path, 1, n)
            IN IF n = Len(path)
               THEN [d EXCEPT !.alive = @ /\ (d.subtree \/ at \in allowed)]
               ELSE [alive |-> d.alive /\ (d.subtree \/ Leads(allowed, at)) /\ n < MaxDepth,
                     subtree |-> d.subtree \/ WholeSubtree(allowed, at)]
    IN FoldLeft(step, [alive |-> TRUE, subtree |-> FALSE], [n \in DOMAIN path |-> n]).alive

\* The reference: a value is listed when its path or a container of it is.
Listed(allowed, path) == \E c \in allowed : IsPrefix(c, path)

\* A policy of an operation: how a body is reduced, and its allow-list.
Rules == {"none", "json", "jws", "form", "pem_chain"}
Types == {"json", "jose", "form", "pem", "text", "untyped", "other"}
TextTypes == {"json", "text", "untyped"}
Starts == {"brace", "-----BEGIN", "other"}

\* Which view a body gets (redactor::body); "" when none matches.
View(rule, type, request, start) ==
    CASE rule = "jws" /\ type = "jose" -> "jws"
      [] rule = "form" /\ type = "form" -> "form"
      [] rule = "pem_chain" /\ ~request /\ (type = "pem" \/ start = "-----BEGIN") -> "pem_chain"
      [] type = "json" \/ (type = "untyped" /\ start = "brace") -> "json"
      [] OTHER -> ""

\* What does not parse is kept as scanned text only if it is text or JSON.
RawText(type, view) == type \in {"text", "untyped"} \/ view = "json"

\* certificate_chain_view keeps the names of the certificates.
ChainView(leaves) == [n \in DOMAIN leaves |-> leaves[n].piece]

\* A view keeps the listed leaves; a form and a JWS remember what they hide.
ViewLeaves(view, allowed, leaves) ==
    IF view = "pem_chain" THEN ChainView(leaves)
    ELSE [n \in DOMAIN leaves |-> IF Kept(allowed, leaves[n].path) THEN leaves[n].piece ELSE Marker]

Hidden(view, allowed, leaves) ==
    IF view \notin {"form", "jws"} THEN <<>>
    ELSE SelectSeq(leaves, LAMBDA l : ~Kept(allowed, l.path))

\* In the order they stand.
RememberAll(s, xs) == FoldLeft(LAMBDA r, x : Remember(r, x.piece.value), s, xs)

----------------------------------------------------------------------------
(* Operations                                                              *)

Init ==
    /\ secrets = {} /\ incomplete = FALSE /\ failed = FALSE
    /\ credentials = {} /\ shown = {} /\ outside = {} /\ ops = 0 /\ failures = 0

Op(s) ==
    /\ ops < MaxOps /\ ops' = ops + 1
    /\ secrets' = s
    /\ UNCHANGED <<failed, failures>>

\* A text goes to the trace; place tells how the policy saw its pieces.
Store(t, place) == shown' = shown \cup {[piece |-> p, place |-> place] : p \in PiecesOf(t)}

RegisterSecret(v) ==
    LET r == Register(secrets, v)
    IN /\ Op(r.secrets)
       /\ incomplete' = (incomplete \/ r.incomplete)
       /\ credentials' = credentials \cup ({v} \ Short)
       /\ UNCHANGED <<shown, outside>>

\* Steps' subjects and errors, log lines, facts of a response.
CaptureText(t) ==
    /\ Op(secrets)
    /\ Store(Text(secrets, t), "text")
    /\ UNCHANGED <<incomplete, credentials, outside>>

ExternalScrub(t) == IF incomplete THEN <<Plain>> ELSE Scrub(secrets, t)

ExternalText(t) ==
    /\ Op(secrets)
    /\ outside' = outside \cup PiecesOf(ExternalScrub(t))
    /\ UNCHANGED <<incomplete, credentials, shown>>

\* A URL: masked path segments and query values outside the allow-list are
\* remembered and replaced; the rest is text.
Url(parts) ==
    LET s == RememberAll(secrets, SelectSeq(parts, LAMBDA x : x.masked))
        t == [n \in DOMAIN parts |-> IF parts[n].masked THEN Marker ELSE parts[n].piece]
    IN /\ Op(s)
       /\ Store(Text(s, t), "url")
       /\ UNCHANGED <<incomplete, credentials, outside>>

RequestHeader(listed, p) ==
    \/ /\ listed
       /\ Op(secrets)
       /\ Store(Text(secrets, <<p>>), "listed header")
       /\ UNCHANGED <<incomplete, credentials, outside>>
    \/ /\ ~listed
       /\ RegisterSecret(p.value)

\* The allow-list holds two headers that carry a URL (link, location).
ResponseHeader(class, parts) ==
    LET t == [n \in DOMAIN parts |-> parts[n].piece]
        mask == \E n \in DOMAIN parts : parts[n].masked
    IN /\ Op(IF class = "sensitive" THEN Remember(secrets, parts[1].piece.value) ELSE secrets)
       /\ IF class \in {"listed", "url"}
          THEN Store(Text(secrets, t), IF class = "url" /\ mask THEN "masked url header" ELSE "listed header")
          ELSE UNCHANGED shown
       /\ UNCHANGED <<incomplete, credentials, outside>>

\* A body: private keys, a policy without a rule, size and budget omit it.
Body(rule, type, request, start, parses, room, allowed, leaves) ==
    LET view == View(rule, type, request, start)
        raw  == [n \in DOMAIN leaves |-> leaves[n].piece]
        key  == \E n \in DOMAIN raw : raw[n].wrap = "private key"
        s    == IF parses THEN RememberAll(secrets, Hidden(view, allowed, leaves)) ELSE secrets
        omitted == key \/ rule = "none" \/ ~room
        viewed  == view = "form" \/ (view # "" /\ parses)
    IN /\ Op(IF omitted THEN secrets ELSE s)
       /\ IF omitted \/ (~viewed /\ ~RawText(type, view)) THEN UNCHANGED shown
          ELSE IF ~viewed THEN Store(Text(s, raw), IF type \in TextTypes THEN "raw text" ELSE "raw other")
          ELSE /\ shown' = shown \cup
                    {[piece |-> p, place |-> IF view = "pem_chain" \/
                                                \E n \in DOMAIN leaves : /\ leaves[n].piece.value = p.value
                                                                         /\ Listed(allowed, leaves[n].path)
                                             THEN "listed field" ELSE "hidden field"] :
                        p \in PiecesOf(Text(s, ViewLeaves(view, allowed, leaves)))}
       /\ UNCHANGED <<incomplete, credentials, outside>>

\* An exception inside the redactor: the text concerned is replaced; one
\* while registering a credential makes the set incomplete.
Fail ==
    /\ failures < MaxFailures /\ failures' = failures + 1
    /\ failed' = TRUE
    /\ \/ UNCHANGED <<incomplete, credentials>>
       \/ \E v \in Values \ Short : /\ incomplete' = TRUE
                                    /\ credentials' = credentials \cup {v}
    /\ UNCHANGED <<secrets, shown, outside, ops>>

\* Texts, URL parts and leaves of a body.
Upto(S) == UNION {[1..n -> S] : n \in 1..MaxPieces}
Texts == Upto(Pieces \cup {Plain})
Parts == Upto([piece : {p \in Pieces : p.wrap = "none"}, masked : BOOLEAN])
Leaves == Upto([path : Paths, piece : {p \in Pieces : p.encoding = "raw"}])

\* The bodies whose view differs: a request only counts for a chain, the first
\* characters only for a chain and for a body without a type.
Bodies == {b \in [rule : Rules, type : Types, request : BOOLEAN, start : Starts] :
             /\ b.rule = "none" => b.type = "other"
             /\ b.rule # "pem_chain" => b.request /\ b.start # "-----BEGIN"
             /\ b.start = "brace" => b.type = "untyped"}

Next ==
    \/ \E v \in Values : RegisterSecret(v)
    \/ \E t \in Texts : CaptureText(t) \/ ExternalText(t)
    \/ \E parts \in Parts : Url(parts)
    \/ \E listed \in BOOLEAN, p \in Pieces : RequestHeader(listed, p)
    \/ \E class \in {"listed", "url", "sensitive", "other"}, parts \in Parts :
          ResponseHeader(class, parts)
    \/ \E b \in Bodies, read \in {"parses", "malformed", "too large"}, allowed \in SUBSET Paths, leaves \in Leaves :
          Body(b.rule, b.type, b.request, b.start, read # "malformed", read # "too large", allowed, leaves)
    \/ Fail

Spec == Init /\ [][Next]_vars

----------------------------------------------------------------------------
(* Properties                                                              *)

\* The set of secrets holds all forms of a value or none, and stays within
\* its two caps plus the forms of one value (add_secret, register_secret).
TypeOK ==
    /\ \A s \in secrets : Variants(s[1]) \subseteq secrets
    /\ Cardinality(secrets) < MaxSecrets + CredentialRoom + Cardinality(Encodings)
    /\ \A s \in secrets : s[1] \notin Short

\* No text stored shows a value that was a known secret when the text was
\* captured, in any form, whole or cut short by a length limit (text, scrub).
HidesSecrets ==
    \A e \in shown' \ shown : <<e.piece.value, e.piece.encoding>> \notin secrets

KnownSecretsHidden == [][HidesSecrets]_vars

\* No text that leaves the attempt shows a credential registered before,
\* also when the credential no longer fitted or could not be kept
\* (external_text, register_secret).
HidesCredentials ==
    \A p \in outside' \ outside : p.value \notin credentials

\* Values observed in traffic never take the room of credentials: the set is
\* incomplete only when credentials filled their own room, or after a failure
\* (register_secret, remember).
CredentialsHaveRoom ==
    (incomplete /\ ~failed) =>
        Cardinality({s \in secrets : s[1] \in credentials}) > CredentialRoom - Cardinality(Encodings)

\* Key material is never stored and never leaves the attempt, wherever it
\* stood (scrub_pem, contains_private_key).
KeysNeverStored ==
    \A p \in {e.piece : e \in shown} \cup outside : p.wrap # "private key"

\* A field the policy does not list is never stored by a view of a body,
\* however deep it is nested (json_excerpt::render, jws_view, form_view), and
\* a JWS or a certificate chain sent as such that does not parse is never kept
\* raw (redactor::body).
AllowListHolds == \A e \in shown : e.place \notin {"hidden field", "raw other"}

\* A response header that carries a URL passes through the URL redaction: no
\* masked segment of it is stored (outbound_policy.h:67).
UrlHeadersMasked == \A e \in shown : e.place # "masked url header"

============================================================================
