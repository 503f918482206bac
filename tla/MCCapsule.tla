----------------------------- MODULE MCCapsule -----------------------------
(* A restore in one instance: the capsule, and the cards its key is rebuilt *)
(* from.  Restore combines the shares before it opens the capsule, so the   *)
(* two meet in the key alone; active says which one a behaviour exercises.  *)
EXTENDS Capsule, Custody, GaloisField

VARIABLE active

\* Two spellings of one name, one that leaves the target, the name of the list.
Flat == {<<"a">>, <<"b", "..", "a">>, <<"b", "c">>, <<"c">>, <<".", ".kycap-files.json">>}

File(p, n, m) == [path |-> p, size |-> n, body |-> n, mode |-> m]

FileSets(paths, sizes, modes) == {File(p, n, m) : p \in paths, n \in sizes, m \in modes}
Lists(fs) == {<<>>} \cup {<<f>> : f \in fs} \cup {<<f, g>> : f \in fs, g \in fs}

SafetyInputs ==
  Lists(FileSets(Flat, {1}, {{"group"}}) \cup FileSets({<<"a">>, <<"..", "a">>}, {3}, {{"r", "other"}}))
    \cup {<<File(<<"a">>, 0, {"r"}), File(<<"b">>, 1, {"r"}), File(<<"c">>, 0, {"x"})>>,
          <<File(<<"a">>, 1, {"r"}), File(<<"a", "b">>, 1, {"r"})>>,
          <<File(<<"<FF>">>, 1, {"r"})>>, <<File(<<"b", "<FF>">>, 1, {"r"}), File(<<"a">>, 1, {"r"})>>}

\* A name that is not valid UTF-8, and what the list holds instead.
InvalidNames == [s \in {"<FF>"} |-> "<FFFD>"]

Tar(name, type, size, entries) ==
  [name |-> name, type |-> type, size |-> size, body |-> size, mode |-> {"r"}, entries |-> entries]
Listed(n) == <<[path |-> <<"a">>, size |-> n, body |-> n, mode |-> {"r"}]>>

\* What another writer may put in a tar: no list, a wrong one, two of them, a
\* link, a colliding or escaping name, too much.
OtherTars == {
  <<Tar(<<"a">>, "reg", 1, None)>>,
  <<Tar(<<"a">>, "reg", 1, None), Tar(ReservedFileList, "reg", 1, Listed(1))>>,
  <<Tar(<<"a">>, "reg", 1, None), Tar(ReservedFileList, "reg", 1, Listed(0))>>,
  <<Tar(<<"a">>, "reg", 1, None), Tar(ReservedFileList, "reg", 1, None)>>,
  <<Tar(ReservedFileList, "reg", 1, Listed(1)), Tar(ReservedFileList, "reg", 1, Listed(1))>>,
  <<Tar(<<"b">>, "reg", 1, None), Tar(<<"a">>, "symlink", 0, None)>>,
  <<Tar(<<"a">>, "reg", 1, None), Tar(<<"b", "..", "a">>, "reg", 0, None)>>,
  <<Tar(<<"a">>, "reg", 1, None), Tar(<<"..", "a">>, "reg", 0, None)>>,
  <<Tar(<<"a">>, "reg", 0, None), Tar(<<"b">>, "reg", 0, None), Tar(<<"c">>, "reg", 0, None)>>,
  <<Tar(<<"a">>, "reg", 9, None)>> }

TwoKits == {<<2, 3>>, <<0, 3>>}

(* Two plans that can be split and two that cannot; a secret that is no     *)
(* seed.  The first split draws any coefficient, the second one of two.     *)
SomePlans == {<<2, 3>>, <<3, 4>>, <<1, 3>>, <<3, 2>>}
SomeSeeds == {<<5>>, <<0>>}
NoSeedSplit == {<< <<1, 6>>, <<2, 3>> >>}
SplitDraws == <<Field, {0, 5}>>

(* At the code's own width, of the loops: every element but 0 has the       *)
(* inverse FieldInverse computes, and the other laws of a field hold with   *)
(* the powers of 2 for b and c, which is enough, since the loop of mul adds *)
(* up a product for every bit of its second argument.  The products of 178  *)
(* are those shamir_test.go:228-231 derives by hand.                        *)
ASSUME ByteField ==
  LET Byte == 0..255
      Powers == {2^i : i \in 0..7}
      m == [a, b \in Byte |-> MulLoop(8, 27, a, b)]
  IN  /\ \A a \in Byte \ {0} : m[a, 1] = a /\ m[a, InverseLoop(8, m, a)] = 1
      /\ \A a \in Byte, b \in Powers : m[a, b] \in Byte /\ m[a, b] = m[b, a]
      /\ \A b \in Powers, i \in 0..7 : \A a \in 1..(2^i - 1) :
           m[2^i + a, b] = m[2^i, b] ^^ m[a, b]
      /\ \A a, b, c \in Powers : m[a, m[b, c]] = m[m[a, b], c]
      /\ InverseLoop(8, m, 0) = 0 /\ m[178, 2] = 127 /\ m[178, 3] = 205

RecoveryInit ==
  /\ Init /\ CustodyInit /\ active \in {"capsule", "custody"}
  /\ active = "custody" => target = Absent

RecoveryNext ==
  /\ \/ active = "capsule" /\ Next /\ UNCHANGED custodyVars
     \/ active = "custody" /\ CustodyNext /\ UNCHANGED vars
  /\ UNCHANGED active

(* A key pair and a service are only compared. *)
Symmetry == Permutations(Keys) \cup Permutations(Services)

RecoverySpec == RecoveryInit /\ [][RecoveryNext]_<<vars, custodyVars, active>>
=============================================================================
