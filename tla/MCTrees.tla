------------------------------- MODULE MCTrees -------------------------------
(* Small directories with two equal subdirectories, a directory that may   *)
(* not be entered above another one, a link, an empty file and a socket.   *)
EXTENDS Trees

F(data)  == [type |-> "file", mode |-> "open", data |-> data]
D(mode)  == [type |-> "dir", mode |-> mode, data |-> <<>>]
L        == [type |-> "link", mode |-> "open", data |-> <<"goal">>]
S        == [type |-> "special", mode |-> "open", data |-> <<>>]

Deep ==
  <<>>        :> D("open")   @@
  <<1>>       :> F(<<"p", "q">>) @@
  <<2>>       :> D("closed") @@
  <<2, 1>>    :> D("closed") @@
  <<2, 1, 1>> :> F(<<"p">>)  @@
  <<2, 2>>    :> L           @@
  <<3>>       :> S

Wide ==
  <<>>     :> D("open") @@
  <<1>>    :> D("open") @@
  <<1, 1>> :> F(<<"q", "p">>) @@
  <<2>>    :> D("open") @@
  <<2, 1>> :> F(<<"q", "p">>) @@
  <<3>>    :> F(<<>>)   @@
  <<4>>    :> F(<<"p">>)

MCSources == {Deep, Wide}
MCExcluded == {<<4>>}

Old(type, mode) == Item(type, mode, IF type = "dir" THEN <<>> ELSE <<"old">>, TRUE)
Outside == <<>> :> Old("dir", "open")
Begun   == Outside @@ <<0>> :> Old("dir", "open")

MCExisting ==
  { Outside,
    <<>> :> Old("dir", "closed"),
    Outside @@ <<0>> :> Old("dir", "closed"),
    Outside @@ <<0>> :> Old("file", "open"),
    Outside @@ <<0>> :> Old("link", "open"),
    Begun @@ <<0, 1>> :> Old("link", "open") @@ <<0, 2>> :> Old("dir", "open")
          @@ <<0, 2, 2>> :> Old("file", "open"),
    Begun @@ <<0, 1>> :> Old("dir", "open") @@ <<0, 2>> :> Old("dir", "closed")
          @@ <<0, 2, 1>> :> Old("dir", "open"),
    Begun @@ <<0, 1>> :> Old("file", "open") @@ <<0, 2>> :> Old("file", "open")}

MCRequests == {<<>>, <<1>>, <<2>>, <<2, 1>>, <<2, 2>>, <<2, 1, 1>>}
=============================================================================
