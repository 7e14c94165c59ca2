------------------------------- MODULE Requests -------------------------------
(***************************************************************************)
(* The decisions of the REST client that keep no state: what an account    *)
(* query sends (types.go, domestic.go, overseas.go), which reads are       *)
(* allowed and what an answer means (request.go, auth.go), what NewClient  *)
(* accepts (client.go), and how a realtime connection is begun (Dial of    *)
(* conn.go, ConnectWS of websocket.go).  RestClient has the state: tokens, *)
(* slots and timers.                                                       *)
(*                                                                         *)
(* A text that is only passed on is Given or Blank.                        *)
(***************************************************************************)
EXTENDS Integers, FiniteSets

Blank == ""
Given == "given"

-----------------------------------------------------------------------------
(* Account queries.                                                        *)

ErrInvalidMode == "ErrInvalidMode"

TransactionID(mode, mock, live) ==
    CASE mode = "mock" -> mock [] mode = "live" -> live
      [] OTHER -> ErrInvalidMode

supportedReads ==
    [DomesticBalance |-> {"VTTC8434R", "TTTC8434R"},
     DomesticHistory |-> {"VTTC8001R", "TTTC8001R"},
     OverseasBalance |-> {"VTTS3012R", "TTTS3012R"},
     OverseasHistory |-> {"VTTS3035R", "TTTS3035R"}]
Paths == DOMAIN supportedReads

\* The transaction each of the four functions asks for.
TransactionOf(path, mode) ==
    CASE path = "DomesticBalance" -> TransactionID(mode, "VTTC8434R", "TTTC8434R")
      [] path = "DomesticHistory" -> TransactionID(mode, "VTTC8001R", "TTTC8001R")
      [] path = "OverseasBalance" -> TransactionID(mode, "VTTS3012R", "TTTS3012R")
      [] path = "OverseasHistory" -> TransactionID(mode, "VTTS3035R", "TTTS3035R")

\* Read.
Read(path, tr) ==
    IF tr \in supportedReads[path] THEN "sent" ELSE "ErrReadNotAllowed"

value(given, fallback) == IF given = Blank THEN fallback ELSE given

\* What a parameter is when the caller leaves it blank.
DomesticDefaults ==
    [AFHR_FLPR_YN |-> "N", INQR_DVSN |-> "00", UNPR_DVSN |-> "01",
     FUND_STTL_ICLD_YN |-> "N", FNCG_AMT_AUTO_RDPT_YN |-> "N",
     PRCS_DVSN |-> "01", SLL_BUY_DVSN_CD |-> "00", INQR_DVSN_3 |-> "00",
     CCLD_DVSN |-> "00", EXCG_ID_DVSN_CD |-> "ALL"]
OverseasDefaults ==
    [OVRS_EXCG_CD |-> "NASD", TR_CRCY_CD |-> "USD", SORT_SQN |-> "DS"]
\* What the mock server has an order history be asked with.
MockFixed ==
    [PDNO |-> Blank, OVRS_EXCG_CD |-> Blank, SLL_BUY_DVSN |-> "00",
     CCLD_NCCS_DVSN |-> "00", ODNO |-> Blank, SORT_SQN |-> "DS"]

Filled(r, defaults) ==
    [f \in DOMAIN r |-> IF f \in DOMAIN defaults
                        THEN value(r[f], defaults[f]) ELSE r[f]]

\* Mutant: the mock server is asked for the first page, whatever page the
\* caller wants.
FirstPage(query) == [query EXCEPT !.CTX_AREA_NK = Blank]

AsMock(query) ==
    [f \in DOMAIN query |-> IF f \in DOMAIN MockFixed THEN MockFixed[f]
                            ELSE query[f]]

\* The query of each of the four functions; the cursor of a page is
\* CTX_AREA_FK100 and NK100 or, overseas, FK200 and NK200.
Query(path, r, mode) ==
    CASE path \in {"DomesticBalance", "DomesticHistory"} -> Filled(r, DomesticDefaults)
      [] path = "OverseasBalance" -> Filled(r, OverseasDefaults)
      [] path = "OverseasHistory" ->
            LET query == [Filled(r, OverseasDefaults) EXCEPT !.ORD_DT = Blank]
            IN  IF mode = "mock" THEN AsMock(query) ELSE query

-----------------------------------------------------------------------------
(* What an answer means.  An exchange is how http.Client.Do ended, the     *)
(* status and the body of the answer and whether that fits the output, and *)
(* whether the caller wants the envelope checked and an output filled.     *)

\* Mutant: only the codes of errors are refused.
ErrorStatus(status) == status >= 400

Failing(status) == status < 200 \/ status >= 300

\* The envelope of a body: "empty", "list" (or anything but an object),
\* "bare" (no rt_cd), and otherwise the rt_cd.
Unaccepted(body) == body # "0"

Outcome(x) ==
    IF x.do = "failed" THEN "TransportError"
    ELSE IF x.do = "redirected" \/ (x.status >= 300 /\ x.status < 400)
         THEN "ErrRedirectBlocked"
    ELSE IF x.size \in {"broken", "huge"} THEN "body"
    ELSE IF Failing(x.status) THEN "HTTP_REJECTED"
    ELSE IF x.envelope /\ x.body \in {"empty", "list", "bare"}
         THEN "INVALID_ENVELOPE"
    ELSE IF x.envelope /\ Unaccepted(x.body) THEN "UPSTREAM_REJECTED"
    ELSE IF x.output /\ x.body # "empty" /\ ~x.fits THEN "DecodeError"
    ELSE "ok"

-----------------------------------------------------------------------------
(* NewClient.                                                              *)

HostVTS == [name |-> "openapivts", port |-> 29443, canonical |-> TRUE]
HostLive == [name |-> "openapi", port |-> 9443, canonical |-> TRUE]
NoHost == [name |-> "none"]
Allowed(raw) == <<raw.name, raw.port>> \in {<<"openapivts", 29443>>, <<"openapi", 9443>>}
WellFormed(raw) == raw.clean /\ raw.rest \in {"", "/"} /\ raw.https

\* A host is whether its text is free of space and separators, whether its URL
\* is https and in lower case, its name and port, and what is behind them.
normalizeHost(raw) ==
    IF ~WellFormed(raw) \/ ~Allowed(raw) THEN NoHost
    ELSE IF raw.name = "openapivts" THEN HostVTS ELSE HostLive

\* pinningTransport, which every request passes, compares text with text.
Pinned(host) == host \in {HostVTS, HostLive}

Unsafe(t) == t.hooks \/ t.nextProto \/ t.tls = "weak"

\* Mutant: the clone keeps the caller's pool of roots.
SharedRoots(source, implicit) ==
    [source EXCEPT !.owner = "client", !.proxy = FALSE,
                   !.nextProto = @ /\ ~implicit]

\* The clone of a standard transport.
Clone(source, implicit) ==
    [source EXCEPT !.owner = "client", !.proxy = FALSE,
                   !.nextProto = @ /\ ~implicit,
                   !.roots = IF @ = "none" THEN @ ELSE "client"]

NoTransport == [kind |-> "none"]
ownedStandardTransport(source, implicit) ==
    IF (~implicit /\ Unsafe(source)) \/ Unsafe(Clone(source, implicit))
    THEN NoTransport ELSE Clone(source, implicit)

NewTransport == [kind |-> "standard", owner |-> "client", proxy |-> FALSE,
                 hooks |-> FALSE, nextProto |-> FALSE, tls |-> "none",
                 roots |-> "none"]

\* given is the transport of the caller's http.Client, or NoTransport; default
\* is that of the process, which a program may have replaced.
safeTransport(given, default) ==
    CASE given.kind = "none" ->
            IF default.kind = "standard"
            THEN ownedStandardTransport(default, TRUE) ELSE NewTransport
      [] given.kind = "standard" -> ownedStandardTransport(given, FALSE)
      [] given.kind = "fake" -> given

Timeout(config) ==
    IF config.RequestTimeout <= 0 THEN config.clientTimeout
    ELSE config.RequestTimeout

NoClient == [host |-> NoHost]
NewClient(config) ==
    LET host == normalizeHost(config.Host)
        transport == safeTransport(config.transport, config.default)
    IN  IF \/ host = NoHost \/ ~config.credentials
           \/ Timeout(config) <= 0 \/ transport.kind = "none"
        THEN NoClient
        ELSE [host |-> host, timeout |-> Timeout(config),
              interval |-> IF host = HostVTS THEN 500 ELSE 50,
              transport |-> transport]

-----------------------------------------------------------------------------
(* The beginning of a realtime connection: what went wrong, and what it    *)
(* did by then.                                                            *)

Refusal(why) == [err |-> why, asked |-> FALSE, dialled |-> FALSE, open |-> FALSE]

\* Mutant: the socket is dialled before the key is known.
DialFirst(keyOk, dialOk) ==
    IF keyOk /\ dialOk
    THEN [err |-> "none", asked |-> TRUE, dialled |-> TRUE, open |-> TRUE]
    ELSE [err |-> "late", asked |-> TRUE, dialled |-> TRUE, open |-> dialOk]

\* The key is asked for, then the socket dialled.
Begun(keyOk, dialOk) ==
    IF ~keyOk
    THEN [err |-> "approval", asked |-> TRUE, dialled |-> FALSE, open |-> FALSE]
    ELSE [err |-> IF dialOk THEN "none" ELSE "dial", asked |-> TRUE,
          dialled |-> TRUE, open |-> dialOk]

ValidateWSURL(endpoint) == endpoint \in {"live", "vts"}

Dial(cfg) ==
    IF ~ValidateWSURL(cfg.Endpoint) THEN Refusal("endpoint")
    ELSE IF ~cfg.Dialer THEN Refusal("dialer")
    ELSE IF ~cfg.Approval /\ ~cfg.Client THEN Refusal("no provider")
    ELSE Begun(cfg.keyOk, cfg.dialOk)

ConnectWS(cfg) ==
    IF ~cfg.Dialer THEN Refusal("dialer")
    ELSE IF ~ValidateWSURL(cfg.Endpoint) THEN Refusal("endpoint")
    ELSE Begun(cfg.keyOk, cfg.dialOk)

=============================================================================
