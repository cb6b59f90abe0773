SPECIFICATION FairSpec
CONSTANT Tasks = {"mqtt", "jkbms"}
PROPERTY RestartsCoordinator
