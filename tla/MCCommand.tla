------------------------------- MODULE MCCommand --------------------------------
(* Instances of LichCommand for TLC. *)
EXTENDS LichCommand

AllKinds == {k \in [tty : BOOLEAN, passthrough : BOOLEAN] : k.tty \/ k.passthrough}

SomeWords == {"-A", "-d", "-K", "-N", "-L5", "-e", "-x", "-p", "-r", "-", "5", "^q", "-v", "-z"}

SomeNames == {<<"work">>, <<"me", "box">>, <<"work", "here">>}
SomeEntries == {<<"work", "here">>, <<"me", "box", "here">>, <<"work", "there">>,
                <<"work", "here", "here">>}
SomeUsable == {{}, {"HOME", "tmp"}, {"tmp"}}
===============================================================================
