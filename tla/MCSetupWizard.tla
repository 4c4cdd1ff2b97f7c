---------------------------- MODULE MCSetupWizard ----------------------------
(* Instances of SetupWizard for TLC. *)
EXTENDS SetupWizard, TLC

\* Both inputs of Azure AD and of the notifications, and an input the endpoint
\* does not look into.
MCEditable == {"azureAdTenantId", "azureAdClientId", "emailSmtpHost", "emailFromAddress",
               "keycloakIssuer", "postgresqlUrl"}
=============================================================================
