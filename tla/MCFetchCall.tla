----------------------------- MODULE MCFetchCall -----------------------------
(* Two calls that choose among the arguments of programs: on a session with *)
(* default headers, with a Request object, with wrong and with live options. *)
EXTENDS Arguments
CONSTANTS c1, c2, chrome9, firefox8
MCCalls == {c1, c2}
CallSymmetry == Permutations(MCCalls)
MCAliases == [chrome |-> chrome9, firefox |-> firefox8]
MCProfiles == {chrome9, firefox8, "safari"}

Custom(key) == HeaderTuple(Name(key, "title"), <<"a">>)
MCSessionHeaders == <<Custom("x-custom"), Custom("set-cookie")>>
MCLocked == [browser |-> chrome9, os |-> "macos", proxy |-> None, insecure |-> FALSE,
    trustStore |-> "combined", proxyHeaders |-> <<Custom("x-custom")>>]

Plain == [via |-> "fetch", request |-> FALSE, method |-> None, body |-> None,
    headers |-> None, timeout |-> None, session |-> FALSE, sessionId |-> None,
    cookieMode |-> None, ephemeral |-> FALSE, redirect |-> None, transport |-> FALSE, options |-> <<>>]
Post == [Plain EXCEPT !.method = "POST", !.body = "typed"]
OnSession == [Post EXCEPT !.via = "session"]
MCEdited == {HeaderTuple(Name("x-custom", "lower"), <<"b">>), Custom("set-cookie"),
    HeaderTuple(Name("content-type", "title"), <<"b">>)}
Override == InitOf("object", <<HeaderTuple(Name("x-custom", "lower"), <<"b">>)>>)

MCMenu == {
    Plain, OnSession,
    [OnSession EXCEPT !.headers = Override],
    [OnSession EXCEPT !.headers = InitOf("tuples", <<HeaderTuple(Name(Blank, "lower"), <<"b">>)>>)],
    [OnSession EXCEPT !.headers = Mine, !.body = "plain"],
    [OnSession EXCEPT !.options = [browser |-> "firefox"]],
    [OnSession EXCEPT !.options = [browser |-> "chrome", os |-> "macos"]],
    [OnSession EXCEPT !.options = [browser |-> "chrome", proxyHeaders |-> Override]],
    [OnSession EXCEPT !.transport = TRUE, !.body = "stream"],
    [Post EXCEPT !.session = TRUE, !.timeout = 1, !.headers = Mine],
    [Post EXCEPT !.timeout = 0 - 1, !.via = "post"], [Post EXCEPT !.method = " head "],
    [Post EXCEPT !.method = Blank],
    [Post EXCEPT !.sessionId = "id", !.via = "post"], [Post EXCEPT !.sessionId = Blank],
    [Post EXCEPT !.sessionId = "id", !.cookieMode = "session", !.via = "request"],
    [Plain EXCEPT !.cookieMode = "session"], [Plain EXCEPT !.redirect = "other"],
    [Plain EXCEPT !.via = "request", !.ephemeral = TRUE, !.sessionId = "id"],
    [OnSession EXCEPT !.options = [emulation |-> <<>>, browser |-> "firefox"]],
    [Plain EXCEPT !.via = "get", !.options = [browser |-> "unknown"]],
    [Plain EXCEPT !.via = "get", !.options = [os |-> "linux"], !.headers = Mine],
    [Post EXCEPT !.via = "post", !.options = [browser |-> "safari"], !.timeout = 0],
    [Plain EXCEPT !.request = TRUE], [Plain EXCEPT !.request = TRUE, !.via = "get"],
    [Plain EXCEPT !.request = TRUE, !.via = "session"]}
==============================================================================
