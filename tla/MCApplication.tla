--------------------------- MODULE MCApplication ----------------------------
(* Application for TLC: a directory of the user's beside the default one,  *)
(* with a protocol, a transport in two copies and two automation plugins,  *)
(* of which one lies in both directories.                                  *)
EXTENDS Application

MCFiles   == {"proto", "usb", "usb2", "autoA", "autoB", "autoB2", "bad"}
MCKindOf  == [f \in MCFiles |-> IF f \in {"proto", "bad"} THEN "protocol"
                                ELSE IF f \in {"usb", "usb2"} THEN "transport"
                                ELSE "automation"]
MCIdOf    == [f \in MCFiles |-> IF f = "usb2" THEN "usb"
                                ELSE IF f = "autoB2" THEN "autoB" ELSE f]
MCListing == [dir \in {"home", "user", "app"} |->
               IF dir = "home" THEN <<"autoB", "proto", "usb">>
               ELSE IF dir = "user" THEN <<"autoA", "autoB2", "bad", "usb2">>
               ELSE <<"autoB", "usb2">>]

MCEnvDirs  == <<>>
MCValuesOf == [id \in {"proto", "usb"} |-> IF id = "proto" THEN {"v"} ELSE {}]

Tag(numbers, suffix) == [numbers |-> numbers, suffix |-> suffix]
MCCurrent  == <<0, 9>>
MCReleases == {[tag |-> Tag(<<0, 9, 0>>, TRUE), assets |-> <<>>],
               [tag |-> Tag(<<0, 10>>, FALSE), assets |-> <<1, 2>>]}

=============================================================================
