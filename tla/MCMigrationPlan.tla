---------------------------- MODULE MCMigrationPlan ----------------------------
(* Three laptops and their three cloud members, as in laptop-to-cloud.toml. *)
EXTENDS MigrationPlan

CONSTANTS aws, gcp, azure, hetzner, vultr, civo

Laptops == {aws, gcp, azure}
Clouds == [s \in Laptops |-> CASE s = aws -> hetzner [] s = gcp -> vultr [] s = azure -> civo]
PolicyOrder == [s \in Laptops |-> CASE s = aws -> 0 [] s = gcp -> 1 [] s = azure -> 2]

=============================================================================
