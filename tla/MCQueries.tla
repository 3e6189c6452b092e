---- MODULE MCQueries ----
(***************************************************************************)
(* Rows and requests for Queries: events of two cameras over three         *)
(* moments, two of them at the same one, and requests of every form.       *)
(***************************************************************************)
EXTENDS Queries

Row(at, till, cam, text) == [at |-> at, till |-> till, cam |-> cam, text |-> text]

MCContents ==
    {Row(1, 2, "c1", "plain"), Row(1, 3, "c2", "limit"), Row(2, 2, "c1", "limit"),
     Row(3, 5, "c2", "order")}

Always == [begin |-> NoTime, end |-> NoTime]
From(t) == [begin |-> t, end |-> NoTime]
Till(t) == [begin |-> NoTime, end |-> t]

Events == [kind |-> "events", cams |-> <<>>, outer |-> From(1), inner |-> Always,
           op |-> "none", texts |-> {}, order |-> "DESC", limit |-> 0]

EventAsks ==
    {[Events EXCEPT !.cams = cams] :
       cams \in {<<"c1">>, <<"c1", AllCams>>, <<"c2", NoCam>>, <<AllCams, NoCam>>, <<NoCam>>}}
    \cup {[Events EXCEPT !.op = op, !.texts = texts] :
            op \in Operators \ {"none"}, texts \in {{"plain"}, {"limit"}}}
    \cup {[Events EXCEPT !.op = "IN", !.texts = {"order", "plain"}],
          [Events EXCEPT !.op = "IN"], [Events EXCEPT !.op = "NOT IN"],
          [Events EXCEPT !.outer = Till(3)], [Events EXCEPT !.outer = Always],
          [Events EXCEPT !.inner = Till(2), !.limit = 1], [Events EXCEPT !.limit = 9]}

MCRequests ==
    EventAsks
    \cup {[Events EXCEPT !.order = "own"]}
    \cup [kind : {"key"}, name : {"column"}, text : {NoText, "plain", "limit", "order"}]
    \cup [kind : {"key"}, name : {"limit", "order", "own"}, text : {"plain"}]
    \cup [kind : {"all"}, text : {NoText, "plain", "limit"}, order : Orders, limit : {0, 9}]
    \cup [kind : {"all"}, text : {"limit"}, order : {"own"}, limit : {1}]
    \cup [kind : {"archive"}, text : {NoText, "limit"}, begin : {1}, end : {2, 4}]
====
